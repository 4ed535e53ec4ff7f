----------------------------- MODULE SessionProofs -----------------------------
(***************************************************************************)
(* Proofs about Session, for every set of devices and networks and every   *)
(* bound: the Wi-Fi requests that Android holds are those the session      *)
(* remembers, and what each place of a flow relies on holds through every  *)
(* answer, silence and interruption, and with it the session's types and   *)
(* safety invariants.                                                      *)
(***************************************************************************)
EXTENDS Session, RecursionProofs, FiniteSetTheorems, SequenceTheorems, TLAPS
-------------------------------------------------------------------------------
(* The requests.                                                           *)

OnlyHotspot == [hotspot |-> 0, target |-> NoRequest]
OnlyTarget == [hotspot |-> NoRequest, target |-> 0]

(* At most one request is held, and it is always given the number 0: each  *)
(* request_network() follows the release of all the others.                *)
HeldOK ==
    \/ held = NothingHeld /\ android = {}
    \/ /\ held \in {OnlyHotspot, OnlyTarget}
       /\ \E r \in android : r.id = 0 /\ android = {r}

(* What the steps that ask for a network rely on: before join_hotspot()    *)
(* asks, open() has released everything; while it waits, only the hotspot  *)
(* is held.                                                                *)
AskingPlaces == {"hotspot", "ask"}
WaitingPlaces == {"poll hotspot", "wait hotspot"}
PlaceOK ==
    /\ pc \in AskingPlaces \cup {"exited"} => held = NothingHeld
    /\ pc \in WaitingPlaces => held.target = NoRequest
Places == AskingPlaces \cup WaitingPlaces \cup {"exited"}

(* A command becomes the place where its flow starts, so it must be one.   *)
SlotOK == DOMAIN slot = DOMAIN EmptySlot /\ slot.command \in Commands

IInv == HeldOK /\ PlaceOK /\ SlotOK
-------------------------------------------------------------------------------
(* Requests.                                                               *)

(* The first request is given the number 0.                                *)
LEMMA FirstId == FreeId({}) = 0
<1>1. Cardinality({}) = 0
  BY FS_EmptySet
<1>2. FreeId({}) = CHOOSE i \in 0 .. 0 : \A r \in {} : r.id # i
  BY <1>1 DEF FreeId
<1>3. \A i \in 0 .. 0 : i = 0
  OBVIOUS
<1>4. 0 \in 0 .. 0
  OBVIOUS
<1>5. QED
  BY <1>2, <1>3, <1>4

(* release_requests() leaves Android with nothing.                         *)
LEMMA ReleaseReleases ==
    ASSUME HeldOK, ReleaseRequests
    PROVE  held' = NothingHeld /\ android' = {}
  BY DEF HeldOK, ReleaseRequests, Without, HeldIds, NothingHeld, OnlyHotspot, OnlyTarget, NoRequest

(* request_network() after the release of all that is held.                *)
LEMMA AskHolds ==
    ASSUME HeldOK, NEW released, NEW which \in {"hotspot", "target"}, NEW wants,
           Ask(released, which, wants),
           Without(released) = {},
           \A w \in {"hotspot", "target"} \ {which} : held[w] \in released \cup {NoRequest}
    PROVE  /\ held' = [NothingHeld EXCEPT ![which] = 0]
           /\ HeldOK'
<1>1. android' = {[id |-> 0, wants |-> wants]}
  BY FirstId DEF Ask
<1>2. DOMAIN held = {"hotspot", "target"}
  BY DEF HeldOK, NothingHeld, OnlyHotspot, OnlyTarget
<1>3. held' = [w \in {"hotspot", "target"} |-> IF w = which THEN 0 ELSE NoRequest]
  BY <1>2, FirstId DEF Ask
<1>4. held' = [NothingHeld EXCEPT ![which] = 0]
  BY <1>3 DEF NothingHeld
<1>5. held' \in {OnlyHotspot, OnlyTarget}
  BY <1>3 DEF OnlyHotspot, OnlyTarget
<1>6. QED
  BY <1>1, <1>4, <1>5 DEF HeldOK

(* Releasing the hotspot's request when it is all that may be held.        *)
LEMMA HotspotLeft ==
    ASSUME HeldOK, held.target = NoRequest
    PROVE  Without({held.hotspot}) = {}
  BY DEF HeldOK, Without, NothingHeld, OnlyHotspot, OnlyTarget, NoRequest

(* The invariant says what Android is asked for.                           *)
LEMMA InvariantSuffices == IInv => RequestsAccounted
<1> SUFFICES ASSUME IInv PROVE RequestsAccounted
  OBVIOUS
<1>1. CASE held = NothingHeld /\ android = {}
  BY <1>1, FS_EmptySet DEF RequestsAccounted, HeldIds, NothingHeld
<1>2. CASE held \in {OnlyHotspot, OnlyTarget} /\ \E r \in android : r.id = 0 /\ android = {r}
  <2>1. PICK r \in android : r.id = 0 /\ android = {r}
    BY <1>2
  <2>2. Cardinality(android) = 1
    BY <2>1, FS_Singleton
  <2>3. {q.id : q \in android} = {0}
    BY <2>1
  <2>4. HeldIds = {0}
    BY <1>2 DEF HeldIds, OnlyHotspot, OnlyTarget, NoRequest
  <2>5. held # NothingHeld
    BY <1>2 DEF OnlyHotspot, OnlyTarget, NothingHeld, NoRequest
  <2>6. pc # "exited"
    BY <2>5 DEF IInv, PlaceOK
  <2>7. QED
    BY <2>2, <2>3, <2>4, <2>6 DEF RequestsAccounted
<1>3. QED
  BY <1>1, <1>2 DEF IInv, HeldOK
-------------------------------------------------------------------------------
(* The ways a step can end.                                                *)

Untouched == UNCHANGED <<held, android>>

(* A step that leaves the requests alone and goes to no place above.       *)
LEMMA UntouchedKeeps ==
    ASSUME HeldOK, Untouched, pc' \notin Places
    PROVE  HeldOK' /\ PlaceOK'
  BY DEF Untouched, HeldOK, PlaceOK, Places

(* A step that gives everything back may go anywhere.                      *)
LEMMA NothingKeeps ==
    ASSUME held' = NothingHeld, android' = {}
    PROVE  HeldOK' /\ PlaceOK'
  BY DEF HeldOK, PlaceOK, NothingHeld

(* fail() and pause() end so.                                              *)
LEMMA FailKeeps ==
    ASSUME HeldOK, NEW w, NEW retry, Fail(w, retry)
    PROVE  HeldOK' /\ PlaceOK'
  BY ReleaseReleases, NothingKeeps DEF Fail

LEMMA DropKeeps ==
    ASSUME HeldOK, Drop
    PROVE  HeldOK' /\ PlaceOK'
<1>1. Untouched /\ pc' = "waiting"
  BY DEF Drop, Return, Untouched
<1>2. QED
  BY <1>1, UntouchedKeeps DEF Places, AskingPlaces, WaitingPlaces

LEMMA WithKeeps ==
    ASSUME HeldOK, NEW locals, NEW label, With(locals, label), label \notin Places
    PROVE  HeldOK' /\ PlaceOK'
  BY UntouchedKeeps DEF With, Untouched

LEMMA AnnounceKeeps ==
    ASSUME HeldOK, NEW next, NEW locals, NEW label, Announce(next, locals, label),
           label \notin Places
    PROVE  HeldOK' /\ PlaceOK'
  BY UntouchedKeeps DEF Announce, Untouched

LEMMA PauseKeeps ==
    ASSUME HeldOK, NEW label, NEW next, Pause(label, next), next \notin Places
    PROVE  HeldOK' /\ PlaceOK'
  BY DropKeeps, WithKeeps DEF Pause, Continue

(* request_target(): the hotspot goes before the network is asked for.     *)
LEMMA RequestTargetKeeps ==
    ASSUME HeldOK, NEW locals, NEW after, RequestTarget(locals, after), after \notin Places
    PROVE  HeldOK' /\ PlaceOK'
<1>1. CASE held.target # NoRequest
  BY <1>1, WithKeeps DEF RequestTarget
<1>2. CASE held.target = NoRequest
  <2>1. CASE Ask({held.hotspot}, "target", Wifi(work.target)) /\ pc' = after
    <3>1. Without({held.hotspot}) = {}
      BY <1>2, HotspotLeft
    <3>2. HeldOK'
      BY <2>1, <3>1, AskHolds
    <3>3. PlaceOK'
      BY <2>1 DEF PlaceOK, Places
    <3>4. QED
      BY <3>2, <3>3
  <2>2. CASE Fail(work, FALSE)
    BY <2>2, FailKeeps
  <2>3. QED
    BY <1>2, <2>1, <2>2 DEF RequestTarget
<1>3. QED
  BY <1>1, <1>2
-------------------------------------------------------------------------------
(* Search and open.                                                        *)
LEMMA SearchKeeps ==
    ASSUME HeldOK, RunSearch \/ Discover \/ ListDevices
    PROVE  HeldOK' /\ PlaceOK'
<1>1. CASE RunSearch
  BY <1>1, ReleaseReleases, NothingKeeps DEF RunSearch
<1>2. CASE Discover
  BY <1>2, DropKeeps, WithKeeps
  DEF Discover, Abandon, Continue, Places, AskingPlaces, WaitingPlaces
<1>3. CASE ListDevices
  BY <1>3, UntouchedKeeps
  DEF ListDevices, Return, Untouched, Places, AskingPlaces, WaitingPlaces
<1>4. QED
  BY <1>1, <1>2, <1>3

LEMMA ContactKeeps ==
    ASSUME HeldOK, Contact
    PROVE  HeldOK' /\ PlaceOK'
<1>1. CASE Abandon
  BY <1>1, DropKeeps DEF Abandon
<1>2. CASE /\ held' = Needed(here.device)
           /\ android' = Without(HeldIds \ {held'.hotspot})
           /\ pc' = "scan"
  <2>1. held' \in {NothingHeld, [NothingHeld EXCEPT !.hotspot = held.hotspot]}
    BY <1>2 DEF Needed, NothingHeld
  <2>2. HeldOK'
    BY <1>2, <2>1
    DEF HeldOK, Without, HeldIds, NothingHeld, OnlyHotspot, OnlyTarget, NoRequest
  <2>3. PlaceOK'
    BY <1>2 DEF PlaceOK, AskingPlaces, WaitingPlaces
  <2>4. QED
    BY <2>2, <2>3
<1>3. CASE ReleaseRequests
  BY <1>3, ReleaseReleases, NothingKeeps
<1>4. QED
  BY <1>1, <1>2, <1>3 DEF Contact

LEMMA OpenKeeps ==
    ASSUME HeldOK, RunOpen \/ Rescan \/ Contact
    PROVE  HeldOK' /\ PlaceOK'
<1>1. CASE RunOpen \/ Rescan
  BY <1>1, AnnounceKeeps DEF RunOpen, Rescan, Open, Places, AskingPlaces, WaitingPlaces
<1>2. QED
  BY <1>1, ContactKeeps

(* join_hotspot() is where the places above are.                           *)
LEMMA JoinHotspotKeeps ==
    ASSUME HeldOK, PlaceOK, JoinHotspot
    PROVE  HeldOK' /\ PlaceOK'
<1>1. held = NothingHeld /\ pc' = "ask" /\ Untouched
  BY DEF JoinHotspot, Announce, PlaceOK, AskingPlaces, Untouched
<1>2. QED
  BY <1>1 DEF HeldOK, PlaceOK, Untouched, AskingPlaces, WaitingPlaces

LEMMA AskForHotspotKeeps ==
    ASSUME HeldOK, PlaceOK, AskForHotspot
    PROVE  HeldOK' /\ PlaceOK'
<1>1. CASE Fail(work, FALSE)
  BY <1>1, FailKeeps
<1>2. ASSUME NEW asked, Ask({}, "hotspot", asked), pc' \in WaitingPlaces
      PROVE  HeldOK' /\ PlaceOK'
  <2>1. held = NothingHeld
    BY DEF AskForHotspot, PlaceOK, AskingPlaces
  <2>2. Without({}) = {} /\ held.target = NoRequest
    BY <2>1 DEF HeldOK, Without, NothingHeld, OnlyHotspot, OnlyTarget, NoRequest
  <2>3. HeldOK' /\ held' = [NothingHeld EXCEPT !["hotspot"] = 0]
    BY <1>2, <2>2, AskHolds
  <2>4. held'.target = NoRequest
    BY <2>3 DEF NothingHeld
  <2>5. QED
    BY <1>2, <2>3, <2>4 DEF PlaceOK, AskingPlaces, WaitingPlaces
<1>3. QED
  BY <1>1, <1>2 DEF AskForHotspot, WaitingPlaces

(* A turn of the loop that leaves the requests alone may stay in the loop. *)
LEMMA PollingKeeps ==
    ASSUME HeldOK, PlaceOK, pc \in WaitingPlaces, Untouched,
           pc' \notin AskingPlaces \cup {"exited"}
    PROVE  HeldOK' /\ PlaceOK'
  BY DEF HeldOK, PlaceOK, Untouched

LEMMA WidenHotspotKeeps ==
    ASSUME HeldOK, PlaceOK, pc = "poll hotspot", WidenHotspot
    PROVE  HeldOK' /\ PlaceOK'
<1>1. held.target = NoRequest
  BY DEF PlaceOK, WaitingPlaces
<1>2. held' = NothingHeld /\ android' = {}
  BY <1>1, HotspotLeft
  DEF WidenHotspot, ReleaseHotspot, HeldOK, NothingHeld, OnlyHotspot, OnlyTarget, NoRequest
<1>3. QED
  BY <1>2, NothingKeeps

LEMMA PollHotspotKeeps ==
    ASSUME HeldOK, PlaceOK, PollHotspot \/ WaitHotspot
    PROVE  HeldOK' /\ PlaceOK'
<1>1. CASE PollHotspot
  <2>1. pc = "poll hotspot" /\ pc \in WaitingPlaces
    BY <1>1 DEF PollHotspot, WaitingPlaces
  <2>2. CASE Fail(work, FALSE)
    BY <2>2, FailKeeps
  <2>3. CASE Abandon
    BY <2>3, DropKeeps DEF Abandon
  <2>4. CASE HotspotAnswers
    BY <2>4, UntouchedKeeps
    DEF HotspotAnswers, Untouched, Places, AskingPlaces, WaitingPlaces
  <2>5. CASE Continue("wait hotspot")
    BY <2>1, <2>5, PollingKeeps DEF Continue, With, Untouched, AskingPlaces
  <2>6. CASE WidenHotspot
    BY <2>1, <2>6, WidenHotspotKeeps
  <2>7. QED
    BY <1>1, <2>2, <2>3, <2>4, <2>5, <2>6 DEF PollHotspot
<1>2. CASE WaitHotspot
  <2>1. pc \in WaitingPlaces
    BY <1>2 DEF WaitHotspot, Pause, WaitingPlaces
  <2>2. CASE Continue("poll hotspot")
    BY <2>1, <2>2, PollingKeeps DEF Continue, With, Untouched, AskingPlaces
  <2>3. CASE Drop
    BY <2>3, DropKeeps
  <2>4. QED
    BY <1>2, <2>2, <2>3 DEF WaitHotspot, Pause
<1>3. QED
  BY <1>1, <1>2
-------------------------------------------------------------------------------
(* Scan, join and finish.                                                  *)
LEMMA ScanKeeps ==
    ASSUME HeldOK, Scan \/ StartScan \/ WaitScan \/ ReadScan
    PROVE  HeldOK' /\ PlaceOK'
<1> USE DEF Places, AskingPlaces, WaitingPlaces
<1>1. CASE Scan
  BY <1>1, AnnounceKeeps DEF Scan
<1>2. CASE StartScan
  BY <1>2, FailKeeps, WithKeeps DEF StartScan
<1>3. CASE WaitScan
  BY <1>3, PauseKeeps DEF WaitScan
<1>4. CASE ReadScan
  <2>1. CASE With([here EXCEPT !.tries = @ + 1], "wait scan")
    BY <2>1, WithKeeps
  <2>2. CASE Fail(work, TRUE)
    BY <2>2, FailKeeps
  <2>3. CASE Return /\ Untouched
    BY <2>3, UntouchedKeeps DEF Return
  <2>4. QED
    BY <1>4, <2>1, <2>2, <2>3 DEF ReadScan, Untouched
<1>5. QED
  BY <1>1, <1>2, <1>3, <1>4

LEMMA FinishKeeps ==
    ASSUME HeldOK, NEW device, Finish(device)
    PROVE  HeldOK' /\ PlaceOK'
<1>1. Untouched /\ pc' = "reach"
  BY DEF Finish, Announce, Untouched
<1>2. QED
  BY <1>1, UntouchedKeeps DEF Places, AskingPlaces, WaitingPlaces

LEMMA ConnectKeeps ==
    ASSUME HeldOK, Connect
    PROVE  HeldOK' /\ PlaceOK'
<1>1. CASE Fail(work, FALSE)
  BY <1>1, FailKeeps
<1>2. CASE Untouched /\ pc' = "wait join"
  BY <1>2, UntouchedKeeps DEF Places, AskingPlaces, WaitingPlaces
<1>3. QED
  BY <1>1, <1>2 DEF Connect, Untouched

LEMMA ReadJoinKeeps ==
    ASSUME HeldOK, ReadJoin
    PROVE  HeldOK' /\ PlaceOK'
<1>1. ASSUME NEW device, NEW left, NEW misses, PollOn(device, left, misses)
      PROVE  HeldOK' /\ PlaceOK'
  <2>1. PICK label \in {"end join", "wait join"} :
           With([here EXCEPT !.device = device, !.left = left, !.tries = misses], label)
    BY <1>1 DEF PollOn
  <2>2. label \notin Places
    BY DEF Places, AskingPlaces, WaitingPlaces
  <2>3. QED
    BY <2>1, <2>2, WithKeeps
<1>2. QED
  BY <1>1, FailKeeps, FinishKeeps DEF ReadJoin

LEMMA EndJoinKeeps ==
    ASSUME HeldOK, EndJoin
    PROVE  HeldOK' /\ PlaceOK'
<1>1. CASE Fail(work, TRUE)
  BY <1>1, FailKeeps
<1>2. CASE /\ held' = [held EXCEPT !.hotspot = NoRequest]
           /\ android' = Without({held.hotspot})
           /\ pc' = "find"
  <2>1. HeldOK'
    BY <1>2 DEF HeldOK, Without, NothingHeld, OnlyHotspot, OnlyTarget, NoRequest
  <2>2. PlaceOK'
    BY <1>2 DEF PlaceOK, AskingPlaces, WaitingPlaces
  <2>3. QED
    BY <2>1, <2>2
<1>3. QED
  BY <1>1, <1>2 DEF EndJoin, ReleaseHotspot

LEMMA FindKeeps ==
    ASSUME HeldOK, Find
    PROVE  HeldOK' /\ PlaceOK'
<1>1. "wait find" \notin Places
  BY DEF Places, AskingPlaces, WaitingPlaces
<1>2. CASE Fail(work, FALSE) \/ Fail(work, TRUE)
  BY <1>2, FailKeeps
<1>3. CASE Abandon
  BY <1>3, DropKeeps DEF Abandon
<1>4. CASE Finish(Found(here.device.id, FALSE))
  BY <1>4, FinishKeeps
<1>5. CASE Continue("wait find")
  BY <1>1, <1>5, WithKeeps DEF Continue
<1>6. CASE RequestTarget(here, "wait find")
  BY <1>1, <1>6, RequestTargetKeeps
<1>7. QED
  BY <1>2, <1>3, <1>4, <1>5, <1>6 DEF Find

LEMMA JoinKeeps ==
    ASSUME HeldOK, RunJoin \/ Send \/ WaitJoin \/ WaitFind
    PROVE  HeldOK' /\ PlaceOK'
<1> USE DEF Places, AskingPlaces, WaitingPlaces
<1>1. CASE RunJoin
  <2>1. Drop \/ (Untouched /\ pc' = "send")
    BY <1>1 DEF RunJoin, Announce, Untouched
  <2>2. QED
    BY <2>1, DropKeeps, UntouchedKeeps
<1>2. CASE Send
  <2>1. CASE Fail(work, FALSE) \/ Fail(work, TRUE)
    BY <2>1, FailKeeps
  <2>2. ASSUME NEW locals, With(locals, "connect") PROVE HeldOK' /\ PlaceOK'
    BY <2>2, WithKeeps
  <2>3. QED
    BY <1>2, <2>1, <2>2 DEF Send
<1>3. CASE WaitJoin
  BY <1>3, PauseKeeps DEF WaitJoin
<1>4. CASE WaitFind
  BY <1>4, PauseKeeps DEF WaitFind
<1>5. QED
  BY <1>1, <1>2, <1>3, <1>4

LEMMA AgainPlaces == {AgainAt, "wait save", "check save", "check again", "end save", "save"} \cap Places = {}
  BY DEF AgainAt, Places, AskingPlaces, WaitingPlaces

LEMMA ReachKeeps ==
    ASSUME HeldOK, Reach
    PROVE  HeldOK' /\ PlaceOK'
<1>1. CASE Abandon
  BY <1>1, DropKeeps DEF Abandon
<1>2. ASSUME NEW d, With([here EXCEPT !.device = d], "check save")
      PROVE  HeldOK' /\ PlaceOK'
  BY <1>2, WithKeeps, AgainPlaces
<1>3. CASE Fail([work EXCEPT !.joined = FALSE], TRUE)
  BY <1>3, FailKeeps
<1>4. CASE RequestTarget(Again, AgainAt)
  BY <1>4, RequestTargetKeeps, AgainPlaces
<1>5. QED
  BY <1>1, <1>2, <1>3, <1>4 DEF Reach

LEMMA CheckSaveKeeps ==
    ASSUME HeldOK, CheckSave
    PROVE  HeldOK' /\ PlaceOK'
<1>1. ASSUME NEW locals, With(locals, "end save") \/ With(locals, "save") \/ With(locals, AgainAt)
      PROVE  HeldOK' /\ PlaceOK'
  BY <1>1, WithKeeps, AgainPlaces
<1>2. QED
  BY <1>1 DEF CheckSave, Continue

LEMMA SaveKeeps ==
    ASSUME HeldOK, Save
    PROVE  HeldOK' /\ PlaceOK'
<1>1. ASSUME NEW locals, With(locals, AgainAt) \/ With(locals, "check again")
      PROVE  HeldOK' /\ PlaceOK'
  BY <1>1, WithKeeps, AgainPlaces
<1>2. QED
  BY <1>1 DEF Save

LEMMA VerifyKeeps ==
    ASSUME HeldOK, Verify \/ WaitVerify
    PROVE  HeldOK' /\ PlaceOK'
<1>1. {"verify", "wait verify"} \cap Places = {}
  BY DEF Places, AskingPlaces, WaitingPlaces
<1>2. CASE Verify
  BY <1>1, <1>2, DropKeeps, WithKeeps, RequestTargetKeeps DEF Verify, Abandon
<1>3. CASE WaitVerify
  BY <1>1, <1>3, PauseKeeps DEF WaitVerify
<1>4. QED
  BY <1>2, <1>3

LEMMA EndKeeps ==
    ASSUME HeldOK, WaitSave \/ EndSave \/ NotSaved \/ Done
    PROVE  HeldOK' /\ PlaceOK'
<1>1. CASE WaitSave
  BY <1>1, PauseKeeps DEF WaitSave, Places, AskingPlaces, WaitingPlaces
<1>2. CASE EndSave
  <2>1. CASE Abandon
    BY <2>1, DropKeeps DEF Abandon
  <2>2. CASE Untouched /\ pc' \in {"verify", "not saved"}
    BY <2>2, UntouchedKeeps DEF Places, AskingPlaces, WaitingPlaces
  <2>3. QED
    BY <1>2, <2>1, <2>2 DEF EndSave, Untouched
<1>3. CASE NotSaved
  BY <1>3, FailKeeps DEF NotSaved
<1>4. CASE Done
  BY <1>4, DropKeeps, FailKeeps, ReleaseReleases, NothingKeeps DEF Done, Abandon
<1>5. QED
  BY <1>1, <1>2, <1>3, <1>4

LEMMA StopKeeps ==
    ASSUME HeldOK, Stop
    PROVE  HeldOK' /\ PlaceOK'
  BY ReleaseReleases, NothingKeeps DEF Stop
-------------------------------------------------------------------------------
LEMMA FlowKeeps ==
    ASSUME HeldOK, PlaceOK, Flow \/ Connect \/ Save
    PROVE  HeldOK' /\ PlaceOK'
  BY StopKeeps, SearchKeeps, OpenKeeps, JoinHotspotKeeps, AskForHotspotKeeps, PollHotspotKeeps,
     ScanKeeps, JoinKeeps, ConnectKeeps, ReadJoinKeeps, EndJoinKeeps, FindKeeps,
     ReachKeeps, CheckSaveKeeps, SaveKeeps, VerifyKeeps, EndKeeps
  DEF Flow

LEMMA InitEstablishesIInv == Init => IInv
  BY DEF Init, IInv, HeldOK, PlaceOK, SlotOK, EmptySlot, Commands, AskingPlaces, WaitingPlaces

(* A step that leaves the requests and the worker's place alone.           *)
LEMMA StayingKeeps ==
    ASSUME HeldOK, PlaceOK, Untouched, pc' = pc
    PROVE  HeldOK' /\ PlaceOK'
  BY DEF HeldOK, PlaceOK, Untouched

LEMMA StepPreservesIInv == IInv /\ [Next]_vars => IInv'
<1> SUFFICES ASSUME IInv, [Next]_vars PROVE IInv'
  OBVIOUS
<1> USE DEF IInv
<1>1. CASE Take
  <2>1. slot' = Taken(slot) /\ pc' = slot.command /\ Untouched
    BY <1>1 DEF Take, With, Untouched
  <2>2. SlotOK'
    BY <2>1 DEF SlotOK, Taken, EmptySlot, Commands
  <2>3. pc' \notin Places
    BY <2>1 DEF SlotOK, Commands, Requests, Places, AskingPlaces, WaitingPlaces
  <2>4. QED
    BY <2>1, <2>2, <2>3, UntouchedKeeps
<1>2. CASE (Flow \/ Connect \/ Save) /\ UNCHANGED slot
  BY <1>2, FlowKeeps DEF SlotOK
<1>3. CASE Tick
  BY <1>3, StayingKeeps DEF Tick, SlotOK, Untouched
<1>4. ASSUME NEW command \in Requests, NEW argument, NEW password,
             Command(command, argument, password)
      PROVE  IInv'
  <2>1. slot' = Sent(slot, command, argument, password) /\ slot.command # "stop"
    BY <1>4 DEF Command, Alive
  <2>2. SlotOK'
    BY <2>1 DEF SlotOK, Sent, EmptySlot, Commands
  <2>3. QED
    BY <1>4, <2>2, StayingKeeps DEF Command, Continue, With, Untouched
<1>5. CASE Destroy
  <2>1. SlotOK'
    BY <1>5 DEF Destroy, SlotOK, Stopped, EmptySlot, Commands
  <2>2. QED
    BY <1>5, <2>1, StayingKeeps DEF Destroy, Continue, With, Untouched
<1>6. CASE World
  BY <1>6, StayingKeeps DEF World, SlotOK, Untouched
<1>7. CASE UNCHANGED vars
  BY <1>7, StayingKeeps DEF vars, SlotOK, Untouched
<1>8. QED
  <2>1. CASE Worker
    BY <1>1, <1>2, <2>1 DEF Worker
  <2>2. CASE Client
    BY <1>4, <1>5, <2>2 DEF Client, Requests
  <2>3. QED
    BY <1>3, <1>6, <1>7, <2>1, <2>2 DEF Next

(* Android holds exactly the Wi-Fi requests that the session remembers, at *)
(* most one, and none once the worker has ended, however commands, the     *)
(* clock, Android and the Chromecasts interleave (release_requests(),      *)
(* request_target(), join_hotspot(), open() and run_join()).               *)
THEOREM RequestsStayAccounted == Spec => []RequestsAccounted
<1>1. Init => IInv
  BY InitEstablishesIInv
<1>2. IInv /\ [Next]_vars => IInv'
  BY StepPreservesIInv
<1>3. IInv => RequestsAccounted
  BY InvariantSuffices
<1>4. QED
  BY <1>1, <1>2, <1>3, PTL DEF Spec
-------------------------------------------------------------------------------
(* The flows.  What each place of a flow relies on: the stage that was     *)
(* announced, the attempts that are left, the network and the device that  *)
(* a join is about, and the device that was opened.                        *)
SearchPlaces == {"discover", "list"}
ScanPlaces == {"scan", "start scan", "wait scan", "read scan"}
FindingPlaces == {"find", "wait find"}
SavingPlaces == {"reach", "wait save", "check save", "save", "check again", "end save",
                 "not saved", "verify", "wait verify"}
JoinPlaces == {"send", "connect", "wait join", "read join", "end join"} \cup FindingPlaces \cup SavingPlaces

Announced(label, stage) ==
    /\ label \in SearchPlaces => stage = "searching"
    /\ label \in {"contact", "hotspot", "start scan", "wait scan", "read scan"} => stage = "scanning"
    /\ label = "scan" => stage \in {"scanning", "hotspot"}
    /\ label \in {"ask", "poll hotspot", "wait hotspot"} => stage = "hotspot"
    /\ label \in {"send", "connect"} => stage = "sending"
    /\ label \in {"wait join", "read join", "end join"} => stage = "joining"
    /\ label \in FindingPlaces => stage = "finding"
    /\ label \in SavingPlaces => stage = "saving"

Counted(label, tries) ==
    /\ label \in {"wait scan", "read scan"} => tries < ScanAttempts
    /\ label \in {"wait join", "read join"} => tries < MaxMisses
    /\ label \in {"reach", "wait save", "check save", "save", "check again"} => tries < SaveAttempts

Fits(label, w, locals) ==
    /\ label \in Labels /\ w \in Snapshots /\ locals \in Locals
    /\ Announced(label, w.stage) /\ Counted(label, locals.tries)
    /\ label \in JoinPlaces => w.target \in Networks
    /\ label \in JoinPlaces \ {"send"} => locals.device.id \in Devices
    /\ label \in ScanPlaces => w.device = locals.device

(* Between two publishes the worker changes neither stage nor list.        *)
FlowOK ==
    /\ Fits(pc, work, here)
    /\ shared \in Snapshots /\ shared.stage = work.stage
    /\ known \in Seq(Identified) /\ IsInjective(known)
    /\ elapsed \in 0 .. 2

(* A hotspot is what the hotspot's request asks for.                       *)
Wanted == {HotspotOf(x) : x \in Devices \cup {NoDevice}} \cup {Wifi(n) : n \in Networks}
WantsOK == \A r \in android : r.wants \in Wanted /\ (r.wants.kind = "hotspot" => held.hotspot # NoRequest)

(* A stage at rest is only published with everything released, and what    *)
(* follows it asks for nothing before it published another.                *)
Settled == {"searching", "devices", "done", "failed"}
SettledOK == work.stage \in Settled => held = NothingHeld /\ ~work.prompt /\ ~shared.prompt

(* A scan over a hotspot that the phone is not on by itself holds it.      *)
OverHotspot(device) == device.hotspot /\ device.id \notin PhoneHotspots
HotspotOK ==
    /\ pc \in ScanPlaces /\ OverHotspot(here.device) => held.hotspot # NoRequest
    /\ work.stage = "networks" /\ pc # "exited" /\ OverHotspot(shared.device) => held.hotspot # NoRequest

(* Numbers only grow on their way from the client to the snapshots, and a  *)
(* command that was just taken has published nothing.                      *)
NumbersOK ==
    /\ slot \in Slots(Int, Passphrases \cup {NoPassword})
    /\ current \in Nat /\ current <= slot.pending /\ slot.pending <= slot.sequence
    /\ slot.command \in Requests => current < slot.pending
    /\ slot.interrupted <=> slot.command # "none"
ReportsOK ==
    /\ shared.command <= current
    /\ pc \in Requests => shared.command < current
    /\ NoSilentEnd

FlowInv == FlowOK /\ WantsOK /\ SettledOK /\ HotspotOK /\ ReportsOK /\ DevicesListed
CastsOK == cast \in [Devices -> Casts]
-------------------------------------------------------------------------------
(* Types of what the steps publish and keep.                               *)
LEMMA Empties ==
    /\ NoSuchDevice \in DeviceReports
    /\ NoSnapshot \in Snapshots
    /\ Nowhere \in Locals
  BY ConstantsAssumption
  DEF NoSuchDevice, DeviceReports, NoSnapshot, Snapshots, Stages, States, Nowhere, Locals,
      NoArgument

LEMMA FailedTyped ==
    ASSUME NEW w \in Snapshots, NEW retry \in BOOLEAN
    PROVE  /\ Failed(w, retry) \in Snapshots
           /\ Failed(w, retry).stage = "failed"
           /\ ~Failed(w, retry).prompt
  BY DEF Failed, Snapshots, Stages

(* publish() numbers the snapshot.                                         *)
LEMMA PublishTyped ==
    ASSUME NEW next \in Snapshots, Publish(next), current \in Nat
    PROVE  /\ shared' \in Snapshots /\ work' \in Snapshots
           /\ work' = next /\ shared'.command = current
           /\ \A field \in DOMAIN next \ {"command"} : shared'[field] = next[field]
  BY DEF Publish, Snapshots

(* What a device says of itself, where it is or found.                     *)
LEMMA ReportedTyped ==
    ASSUME CastsOK, NEW x \in Devices, NEW device \in DeviceReports
    PROVE  /\ Reported(x, device) \in DeviceReports
           /\ Reported(x, device).id = x
           /\ Reported(x, device).hotspot = device.hotspot
  BY DEF CastsOK, Reported, DeviceReports, Casts

LEMMA FoundTyped ==
    ASSUME CastsOK, NEW x \in Devices, NEW hotspot \in BOOLEAN
    PROVE  /\ Found(x, hotspot) \in DeviceReports
           /\ Found(x, hotspot).id = x
           /\ Found(x, hotspot).hotspot = hotspot
<1>1. Reported(x, NoSuchDevice) \in DeviceReports /\ Reported(x, NoSuchDevice).id = x
  BY Empties, ReportedTyped
<1>2. QED
  BY <1>1 DEF Found, DeviceReports

LEMMA Reaches == OnHotspot \subseteq Devices /\ OnLan \subseteq Devices /\ \A d : At(d) \subseteq Devices
  BY DEF OnHotspot, OnLan, At
-------------------------------------------------------------------------------
(* The ways a step can end, again.  None of them touches the slot.         *)
Untaken == UNCHANGED <<slot, current>>
FlowPlaces == Labels \ (Commands \cup {"waiting", "exited"})

(* What a step may assume.                                                 *)
Before == FlowInv /\ HeldOK /\ NumbersOK /\ CastsOK

LEMMA WithFits ==
    ASSUME Before, pc # "exited", NEW locals, NEW label \in FlowPlaces,
           With(locals, label), Untaken, Fits(label, work, locals),
           label \in ScanPlaces => pc \in ScanPlaces /\ locals.device = here.device
    PROVE  FlowInv'
<1> USE DEF Before, FlowInv
<1>1. /\ pc' = label /\ here' = locals
      /\ UNCHANGED <<shared, work, elapsed, known, held, android, slot, current>>
  BY DEF With, Untaken
<1>2. label \notin Requests /\ label # "waiting"
  BY DEF FlowPlaces, Commands
<1>3. FlowOK'
  BY <1>1 DEF FlowOK
<1>4. WantsOK' /\ SettledOK' /\ DevicesListed'
  BY <1>1 DEF WantsOK, SettledOK, DevicesListed
<1>5. HotspotOK'
  BY <1>1 DEF HotspotOK
<1>6. ReportsOK'
  BY <1>1, <1>2 DEF ReportsOK, NoSilentEnd
<1>7. QED
  BY <1>3, <1>4, <1>5, <1>6

Busy == {"scanning", "hotspot", "sending", "joining", "finding", "saving"}

(* A snapshot of a flow that goes on.                                      *)
LEMMA BusyFits ==
    ASSUME Before, NEW next \in Snapshots, next.stage \in Busy, Publish(next), Untaken,
           Fits(pc', work', here'), pc' \in FlowPlaces, elapsed' \in 0 .. 2, WantsOK',
           UNCHANGED known,
           pc' \in ScanPlaces /\ OverHotspot(here'.device) => held'.hotspot # NoRequest
    PROVE  FlowInv'
<1> USE DEF Before, FlowInv
<1>1. current \in Nat /\ current' = current
  BY DEF NumbersOK, Untaken
<1>2. /\ shared' \in Snapshots /\ work' = next /\ shared'.command = current
      /\ shared'.stage = next.stage
  BY <1>1, PublishTyped DEF Snapshots
<1>3. pc' \notin Requests /\ pc' # "waiting"
  BY DEF FlowPlaces, Commands
<1>4. next.stage \notin Settled \cup {"networks", "devices"}
  BY DEF Busy, Settled
<1>5. FlowOK'
  BY <1>2 DEF FlowOK
<1>6. SettledOK' /\ DevicesListed' /\ HotspotOK'
  BY <1>2, <1>4 DEF SettledOK, DevicesListed, HotspotOK
<1>7. ReportsOK'
  BY <1>1, <1>2, <1>3 DEF ReportsOK, NoSilentEnd
<1>8. QED
  BY <1>5, <1>6, <1>7

LEMMA AnnounceFits ==
    ASSUME Before, NEW next \in Snapshots, NEW locals, NEW label \in FlowPlaces,
           next.stage \in Busy, Announce(next, locals, label), Untaken, Fits(label, next, locals),
           label \in ScanPlaces => pc \in ScanPlaces /\ locals.device = here.device
    PROVE  FlowInv'
<1>1. /\ Publish(next) /\ work' = next /\ pc' = label /\ here' = locals
      /\ UNCHANGED <<elapsed, known, held, android>>
  BY DEF Announce, Publish
<1>2. WantsOK'
  BY <1>1 DEF Before, FlowInv, WantsOK
<1>3. pc' \in ScanPlaces /\ OverHotspot(here'.device) => held'.hotspot # NoRequest
  BY <1>1 DEF Before, FlowInv, HotspotOK
<1>4. elapsed' \in 0 .. 2
  BY <1>1 DEF Before, FlowInv, FlowOK
<1>5. QED
  BY <1>1, <1>2, <1>3, <1>4, BusyFits

(* A flow that ends in silence was replaced, or had said nothing yet.      *)
LEMMA DropFits ==
    ASSUME Before, pc # "exited", Drop, Untaken, slot.command # "none" \/ pc \in Requests
    PROVE  FlowInv'
<1> USE DEF Before, FlowInv
<1>1. /\ pc' = "waiting" /\ here' = Nowhere /\ elapsed' = 0
      /\ UNCHANGED <<shared, work, known, held, android, slot, current>>
  BY DEF Drop, Return, Untaken
<1>2. Fits("waiting", work, Nowhere)
  BY Empties DEF FlowOK, Fits, Announced, Counted, Labels, SearchPlaces, ScanPlaces, JoinPlaces,
                 FindingPlaces, SavingPlaces
<1>3. FlowOK'
  BY <1>1, <1>2 DEF FlowOK
<1>4. WantsOK' /\ SettledOK' /\ DevicesListed'
  BY <1>1 DEF WantsOK, SettledOK, DevicesListed
<1>5. HotspotOK'
  BY <1>1 DEF HotspotOK, ScanPlaces
<1>6. ReportsOK'
  BY <1>1 DEF ReportsOK, NoSilentEnd, Requests, FlowOK, NumbersOK, Snapshots, Slots
<1>7. QED
  BY <1>3, <1>4, <1>5, <1>6

LEMMA AbandonFits ==
    ASSUME Before, pc # "exited", Abandon, Untaken
    PROVE  FlowInv'
  BY DropFits DEF Abandon, Before, NumbersOK

(* The end of a flow that says how it ended.                               *)
LEMMA ReportFits ==
    ASSUME Before, NEW next \in Snapshots, Publish(next), Return, Untaken,
           next.stage \in {"devices", "networks", "done", "failed"},
           next.stage # "networks" => held' = NothingHeld /\ android' = {} /\ ~next.prompt,
           next.stage = "networks" => /\ UNCHANGED <<held, android>>
                                      /\ OverHotspot(next.device) => held.hotspot # NoRequest,
           known' \in Seq(Identified), IsInjective(known'), DevicesListed'
    PROVE  FlowInv'
<1> USE DEF Before, FlowInv
<1>1. current \in Nat /\ current' = current
  BY DEF NumbersOK, Untaken
<1>2. /\ shared' \in Snapshots /\ work' = next /\ shared'.command = current
      /\ shared'.stage = next.stage /\ shared'.prompt = next.prompt /\ shared'.device = next.device
  BY <1>1, PublishTyped DEF Snapshots
<1>3. pc' = "waiting" /\ here' = Nowhere /\ elapsed' = 0
  BY DEF Return
<1>4. Fits("waiting", next, Nowhere)
  BY Empties DEF Fits, Announced, Counted, Labels, SearchPlaces, ScanPlaces, JoinPlaces,
                 FindingPlaces, SavingPlaces
<1>5. FlowOK'
  BY <1>2, <1>3, <1>4 DEF FlowOK
<1>6. WantsOK'
  BY DEF WantsOK
<1>7. SettledOK'
  BY <1>2 DEF SettledOK, Settled
<1>8. HotspotOK'
  BY <1>2, <1>3 DEF HotspotOK, ScanPlaces
<1>9. ReportsOK'
  BY <1>1, <1>2, <1>3 DEF ReportsOK, NoSilentEnd, Requests
<1>10. QED
  BY <1>5, <1>6, <1>7, <1>8, <1>9

LEMMA FailFits ==
    ASSUME Before, NEW w \in Snapshots, NEW retry \in BOOLEAN, Fail(w, retry), Untaken
    PROVE  FlowInv'
<1> DEFINE next == Failed(w, retry)
<1>1. next \in Snapshots /\ next.stage = "failed" /\ ~next.prompt
  BY FailedTyped
<1>2. Publish(next) /\ Return /\ UNCHANGED known /\ ReleaseRequests
  BY DEF Fail
<1>3. held' = NothingHeld /\ android' = {}
  BY <1>2, ReleaseReleases DEF Before
<1>4. shared'.stage = "failed"
  BY <1>1, <1>2, PublishTyped DEF Before, NumbersOK, Snapshots
<1>5. DevicesListed'
  BY <1>4 DEF DevicesListed
<1>6. known' \in Seq(Identified) /\ IsInjective(known')
  BY <1>2 DEF Before, FlowInv, FlowOK
<1> HIDE DEF next
<1>7. QED
  BY <1>1, <1>2, <1>3, <1>5, <1>6, ReportFits

LEMMA PauseFits ==
    ASSUME Before, NEW label, label # "exited", NEW next \in FlowPlaces, Pause(label, next), Untaken,
           Fits(next, work, here), next \in ScanPlaces => label \in ScanPlaces
    PROVE  FlowInv'
  BY WithFits, DropFits DEF Pause, Continue
-------------------------------------------------------------------------------
(* request_target() says that a prompt may show, and nothing else changes. *)
LEMMA RequestTargetFits ==
    ASSUME Before, pc \in FindingPlaces \cup SavingPlaces,
           NEW locals, NEW after \in FindingPlaces \cup SavingPlaces,
           RequestTarget(locals, after), Untaken, Fits(after, work, locals)
    PROVE  FlowInv'
<1>0. FlowOK /\ HeldOK /\ work \in Snapshots
  BY DEF Before, FlowInv, FlowOK, Fits
<1>1. after \in FlowPlaces /\ after \notin ScanPlaces /\ pc # "exited"
  BY DEF FlowPlaces, FindingPlaces, SavingPlaces, ScanPlaces, Commands, Requests, Labels, Timed
<1>2. CASE With(locals, after)
  BY <1>1, <1>2, WithFits
<1>3. CASE Fail(work, FALSE)
  BY <1>0, <1>3, FailFits
<1>4. CASE /\ held.target = NoRequest
           /\ Ask({held.hotspot}, "target", Wifi(work.target))
           /\ Publish([work EXCEPT !.prompt = TRUE])
           /\ here' = locals /\ pc' = after /\ UNCHANGED <<elapsed, known>>
  <2> DEFINE next == [work EXCEPT !.prompt = TRUE]
  <2>1. work.target \in Networks /\ work \in Snapshots /\ work.stage \in {"finding", "saving"}
    BY <1>0 DEF FlowOK, Fits, JoinPlaces, Announced
  <2>2. next \in Snapshots /\ next.stage = work.stage /\ next.target = work.target
    BY <2>1 DEF Snapshots
  <2>3. work' = next
    BY <1>4 DEF Publish
  <2>4. Fits(pc', work', here')
    BY <1>1, <1>4, <2>2, <2>3 DEF Fits
  <2>5. Without({held.hotspot}) = {}
    BY <1>0, <1>4, HotspotLeft
  <2>6. WantsOK'
    <3>1. android' = {[id |-> 0, wants |-> Wifi(work.target)]}
      BY <1>4, <2>5, FirstId DEF Ask
    <3>2. QED
      BY <2>1, <3>1 DEF WantsOK, Wanted, Wifi
  <2>7. next.stage \in Busy
    BY <2>1, <2>2 DEF Busy
  <2>8. Publish(next) /\ elapsed' \in 0 .. 2 /\ UNCHANGED known
    BY <1>0, <1>4 DEF FlowOK
  <2> HIDE DEF next
  <2>9. QED
    BY <1>1, <1>4, <2>2, <2>4, <2>6, <2>7, <2>8, BusyFits
<1>5. QED
  BY <1>2, <1>3, <1>4 DEF RequestTarget

(* Every place of the worker's is one of a few kinds.                      *)
LEMMA Kinds ==
    /\ SearchPlaces \cup ScanPlaces \cup JoinPlaces
         \cup {"contact", "hotspot", "ask", "poll hotspot", "wait hotspot"} \subseteq FlowPlaces
    /\ Requests \cup {"waiting", "exited"} \subseteq Labels
  BY DEF FlowPlaces, SearchPlaces, ScanPlaces, JoinPlaces, FindingPlaces, SavingPlaces, Commands,
         Requests, Labels, Timed

(* What a place asks of the snapshot and the locals, place by place.       *)
LEMMA Fitting ==
    ASSUME NEW w \in Snapshots, NEW l \in Locals
    PROVE  /\ w.stage = "searching" => \A p \in SearchPlaces : Fits(p, w, l)
           /\ w.stage = "scanning" => Fits("contact", w, l) /\ Fits("hotspot", w, l)
           /\ w.stage = "hotspot" =>
                Fits("ask", w, l) /\ Fits("poll hotspot", w, l) /\ Fits("wait hotspot", w, l)
           /\ w.stage \in {"scanning", "hotspot"} /\ w.device = l.device => Fits("scan", w, l)
           /\ w.stage = "scanning" /\ w.device = l.device =>
                /\ Fits("start scan", w, l)
                /\ l.tries < ScanAttempts => Fits("wait scan", w, l) /\ Fits("read scan", w, l)
           /\ w.target \in Networks =>
                /\ w.stage = "sending" => Fits("send", w, l)
                /\ l.device.id \in Devices =>
                     /\ w.stage = "sending" => Fits("connect", w, l)
                     /\ w.stage = "joining" =>
                          /\ Fits("end join", w, l)
                          /\ l.tries < MaxMisses => Fits("wait join", w, l) /\ Fits("read join", w, l)
                     /\ w.stage = "finding" => Fits("find", w, l) /\ Fits("wait find", w, l)
                     /\ w.stage = "saving" =>
                          /\ \A p \in {"end save", "not saved", "verify", "wait verify"} : Fits(p, w, l)
                          /\ l.tries < SaveAttempts => \A p \in SavingPlaces : Fits(p, w, l)
<1> USE DEF Fits, Announced, Counted, SearchPlaces, ScanPlaces, JoinPlaces, FindingPlaces,
            SavingPlaces
<1>1. SearchPlaces \cup ScanPlaces \cup JoinPlaces
         \cup {"contact", "hotspot", "ask", "poll hotspot", "wait hotspot"} \subseteq Labels
  BY Kinds DEF FlowPlaces
<1>2. w.stage = "searching" => \A p \in SearchPlaces : Fits(p, w, l)
  BY <1>1
<1>3. w.stage = "scanning" => Fits("contact", w, l) /\ Fits("hotspot", w, l)
  BY <1>1
<1>4. w.stage = "hotspot" =>
        Fits("ask", w, l) /\ Fits("poll hotspot", w, l) /\ Fits("wait hotspot", w, l)
  BY <1>1
<1>5. w.stage \in {"scanning", "hotspot"} /\ w.device = l.device => Fits("scan", w, l)
  BY <1>1
<1>6. w.stage = "scanning" /\ w.device = l.device =>
                /\ Fits("start scan", w, l)
                /\ l.tries < ScanAttempts => Fits("wait scan", w, l) /\ Fits("read scan", w, l)
  BY <1>1
<1>7. w.target \in Networks /\ w.stage = "sending" => Fits("send", w, l)
  BY <1>1
<1>8. w.target \in Networks /\ l.device.id \in Devices =>
        /\ w.stage = "sending" => Fits("connect", w, l)
        /\ w.stage = "joining" =>
             /\ Fits("end join", w, l)
             /\ l.tries < MaxMisses => Fits("wait join", w, l) /\ Fits("read join", w, l)
  BY <1>1
<1>9. w.target \in Networks /\ l.device.id \in Devices =>
        /\ w.stage = "finding" => Fits("find", w, l) /\ Fits("wait find", w, l)
        /\ w.stage = "saving" =>
             /\ \A p \in {"end save", "not saved", "verify", "wait verify"} : Fits(p, w, l)
             /\ l.tries < SaveAttempts => \A p \in SavingPlaces : Fits(p, w, l)
  BY <1>1, ZenonT(20)
<1>10. QED
  BY <1>2, <1>3, <1>4, <1>5, <1>6, <1>7, <1>8, <1>9
-------------------------------------------------------------------------------
(* The actions keep the flows' invariant.                                  *)
LEMMA BeforeFacts ==
    ASSUME Before
    PROVE  /\ work \in Snapshots /\ here \in Locals /\ pc \in Labels /\ Fits(pc, work, here)
           /\ shared \in Snapshots /\ shared.stage = work.stage
           /\ known \in Seq(Identified) /\ IsInjective(known) /\ elapsed \in 0 .. 2
           /\ current \in Nat /\ HeldOK /\ CastsOK
           /\ slot.interrupted => slot.command # "none"
  BY DEF Before, FlowInv, FlowOK, Fits, NumbersOK

(* What is remembered are devices.                                         *)
LEMMA KnownAreDevices ==
    ASSUME NEW s \in Seq(Identified)
    PROVE  s \in Seq(Devices) /\ Range(s) \subseteq Identified
<1>1. Identified \subseteq Devices
  BY ConstantsAssumption
<1>2. Len(s) \in Nat /\ DOMAIN s = 1 .. Len(s) /\ \A i \in DOMAIN s : s[i] \in Identified
  OBVIOUS
<1>3. QED
  BY <1>1, <1>2 DEF Range

(* run_search() starts from an empty snapshot with what is remembered.     *)
LEMMA RunSearchFits ==
    ASSUME Before, RunSearch, Untaken
    PROVE  FlowInv'
<1> DEFINE listed == [i \in DOMAIN known |-> Remembered(known[i])]
           next == [NoSnapshot EXCEPT !.devices = listed]
<1>1. held' = NothingHeld /\ android' = {}
  BY ReleaseReleases, BeforeFacts DEF RunSearch
<1>2. listed \in Seq(DeviceReports)
  <2>1. known \in Seq(Devices)
    BY BeforeFacts, KnownAreDevices
  <2>2. DOMAIN known = 1 .. Len(known) /\ Len(known) \in Nat /\ \A i \in 1 .. Len(known) : known[i] \in Devices
    BY <2>1
  <2>3. \A i \in 1 .. Len(known) : Remembered(known[i]) \in DeviceReports
    BY <2>2, Empties DEF Remembered, DeviceReports
  <2>4. listed \in [1 .. Len(known) -> DeviceReports]
    BY <2>2, <2>3
  <2>5. QED
    BY <2>2, <2>4
<1>3. next \in Snapshots /\ next.stage = "searching" /\ ~next.prompt
  <2> HIDE DEF listed
  <2>1. QED
    BY <1>2, Empties DEF Snapshots, NoSnapshot
<1>4. Publish(next) /\ pc' = "discover" /\ UNCHANGED <<here, elapsed, known>>
  BY DEF RunSearch
<1> HIDE DEF next
<1>5. /\ shared' \in Snapshots /\ work' = next /\ shared'.command = current
      /\ shared'.stage = "searching" /\ ~shared'.prompt
  BY <1>3, <1>4, PublishTyped, BeforeFacts DEF Snapshots
<1>6. Fits(pc', work', here')
  BY <1>3, <1>4, <1>5, BeforeFacts, Fitting DEF SearchPlaces
<1>7. FlowOK'
  BY <1>3, <1>4, <1>5, <1>6, BeforeFacts DEF FlowOK
<1>8. WantsOK' /\ SettledOK'
  BY <1>1, <1>3, <1>5 DEF WantsOK, SettledOK
<1>9. HotspotOK' /\ DevicesListed'
  BY <1>3, <1>4, <1>5 DEF HotspotOK, DevicesListed, ScanPlaces
<1>10. ReportsOK'
  BY <1>4, <1>5, BeforeFacts DEF ReportsOK, NoSilentEnd, Requests, Untaken
<1>11. QED
  BY <1>7, <1>8, <1>9, <1>10 DEF FlowInv

LEMMA DiscoverFits ==
    ASSUME Before, Discover, Untaken
    PROVE  FlowInv'
<1>1. pc = "discover" /\ "list" \in FlowPlaces /\ "list" \notin ScanPlaces
  BY Kinds DEF Discover, SearchPlaces, ScanPlaces
<1>2. CASE Abandon
  BY <1>1, <1>2, AbandonFits
<1>3. CASE With(here, "list")
  <2>1. Fits("list", work, here)
    BY <1>1, BeforeFacts, Fitting DEF Fits, Announced, SearchPlaces
  <2>2. QED
    BY <1>1, <1>3, <2>1, WithFits
<1>4. QED
  BY <1>2, <1>3 DEF Discover, Continue

(* open() announces the device.                                            *)
LEMMA OpeningFits ==
    ASSUME Before, RunOpen \/ Rescan, Untaken
    PROVE  FlowInv'
<1>1. PICK device \in DeviceReports : Open(device)
  <2>1. CASE Rescan
    BY <2>1, BeforeFacts DEF Rescan, Snapshots
  <2>2. CASE RunOpen
    <3>1. here.argument \in DOMAIN work.devices => work.devices[here.argument] \in DeviceReports
      BY BeforeFacts DEF Snapshots
    <3>2. QED
      BY <2>2, <3>1, Empties DEF RunOpen
  <2>3. QED
    BY <2>1, <2>2
<1> DEFINE next == Opening(device)
           locals == [here EXCEPT !.device = device]
<1>2. next \in Snapshots /\ next.stage = "scanning"
  <2>1. work \in Snapshots /\ <<>> \in Seq(Networks)
    BY BeforeFacts
  <2>2. QED
    BY <2>1 DEF Opening, Snapshots, Stages
<1>3. locals \in Locals
  BY BeforeFacts DEF Locals
<1>4. Announce(next, locals, "contact")
  BY <1>1 DEF Open
<1> HIDE DEF next, locals
<1>5. Fits("contact", next, locals)
  BY <1>2, <1>3, Fitting
<1>6. "contact" \in FlowPlaces /\ "contact" \notin ScanPlaces /\ next.stage \in Busy
  BY <1>2, Kinds DEF ScanPlaces, Busy
<1>7. QED
  BY <1>2, <1>4, <1>5, <1>6, AnnounceFits

(* open() up to join_hotspot() or scan(): nothing is published.            *)
LEMMA QuietFits ==
    ASSUME Before, work' \in Snapshots, work'.stage = work.stage, work.stage \in Busy,
           pc' \in FlowPlaces, UNCHANGED <<shared, elapsed, known>>, Untaken,
           Fits(pc', work', here'), WantsOK',
           pc' \in ScanPlaces /\ OverHotspot(here'.device) => held'.hotspot # NoRequest
    PROVE  FlowInv'
<1>1. shared.stage = work.stage /\ shared \in Snapshots /\ FlowOK /\ ReportsOK
  BY DEF Before, FlowInv, FlowOK
<1>2. work.stage \notin Settled \cup {"networks", "devices"}
  BY DEF Busy, Settled
<1>3. FlowOK'
  BY <1>1 DEF FlowOK
<1>4. SettledOK' /\ HotspotOK' /\ DevicesListed'
  BY <1>1, <1>2 DEF SettledOK, HotspotOK, DevicesListed
<1>5. pc' \notin Requests \cup {"waiting"}
  BY DEF FlowPlaces, Commands
<1>6. ReportsOK'
  BY <1>1, <1>5 DEF ReportsOK, NoSilentEnd, Untaken
<1>7. QED
  BY <1>3, <1>4, <1>6 DEF FlowInv

LEMMA ContactFits ==
    ASSUME Before, Contact, Untaken
    PROVE  FlowInv'
<1>1. /\ pc = "contact" /\ work.stage = "scanning" /\ work.stage \in Busy
      /\ work \in Snapshots /\ here \in Locals /\ HeldOK /\ WantsOK /\ CastsOK
  BY BeforeFacts DEF Contact, Fits, Announced, Busy, Before, FlowInv
<1>2. CASE Abandon
  BY <1>1, <1>2, AbandonFits
<1>3. CASE /\ UNCHANGED <<shared, elapsed, known>>
           /\ here.device.id \in At(here.device)
           /\ here' = [here EXCEPT !.device = Reported(here.device.id, here.device)]
           /\ work' = [work EXCEPT !.device = here'.device]
           /\ held' = Needed(here.device)
           /\ android' = Without(HeldIds \ {held'.hotspot})
           /\ pc' = "scan"
  <2> DEFINE device == Reported(here.device.id, here.device)
  <2>1. here.device.id \in Devices /\ here.device \in DeviceReports
    BY <1>1, <1>3, Reaches DEF Locals
  <2>2. device \in DeviceReports /\ device.id = here.device.id /\ device.hotspot = here.device.hotspot
    BY <1>1, <2>1, ReportedTyped
  <2> HIDE DEF device
  <2>3. here' \in Locals /\ here'.device = device
    BY <1>1, <1>3, <2>2 DEF Locals, device
  <2>4. work' \in Snapshots /\ work'.stage = work.stage /\ work'.device = device
    BY <1>1, <1>3, <2>2, <2>3 DEF Snapshots
  <2>5. Fits(pc', work', here')
    BY <1>1, <1>3, <2>3, <2>4, Fitting
  <2>6. pc' \in FlowPlaces
    BY <1>3, Kinds DEF ScanPlaces
  <2>7. held'.hotspot = IF here.device.hotspot THEN held.hotspot ELSE NoRequest
    BY <1>3 DEF Needed, NothingHeld
  <2>8. WantsOK'
    <3>1. CASE android = {}
      BY <1>3, <3>1 DEF WantsOK, Without
    <3>2. CASE held \in {OnlyHotspot, OnlyTarget} /\ \E r \in android : r.id = 0 /\ android = {r}
      <4>1. PICK r \in android : r.id = 0 /\ android = {r}
        BY <3>2
      <4>2. HeldIds = {0}
        BY <3>2 DEF HeldIds, OnlyHotspot, OnlyTarget, NoRequest
      <4>3. held'.hotspot # 0 => android' = {}
        BY <1>3, <4>1, <4>2 DEF Without
      <4>4. held'.hotspot \in {0, NoRequest}
        BY <2>7, <3>2 DEF OnlyHotspot, OnlyTarget
      <4>5. android' \subseteq android
        BY <1>3 DEF Without
      <4>6. QED
        BY <1>1, <4>3, <4>4, <4>5 DEF WantsOK, NoRequest
    <3>3. QED
      BY <1>1, <3>1, <3>2 DEF HeldOK
  <2>9. OverHotspot(here'.device) => held'.hotspot # NoRequest
    <3>1. SUFFICES ASSUME OverHotspot(device) PROVE held.hotspot # NoRequest /\ here.device.hotspot
      BY <2>3, <2>7
    <3>2. here.device.hotspot /\ here.device.id \notin PhoneHotspots
      BY <2>2, <3>1 DEF OverHotspot
    <3>3. here.device.id \in OnHotspot
      BY <1>3, <3>2 DEF At
    <3>4. PICK r \in android : r.wants \in {HotspotOf(here.device.id), AnyHotspot}
      BY <3>2, <3>3 DEF OnHotspot
    <3>5. r.wants.kind = "hotspot"
      BY <3>4 DEF HotspotOf, AnyHotspot
    <3>6. QED
      BY <1>1, <3>2, <3>5 DEF WantsOK
  <2>10. QED
    BY <1>1, <1>3, <2>4, <2>5, <2>6, <2>8, <2>9, QuietFits
<1>4. CASE /\ UNCHANGED <<shared, elapsed, known>>
           /\ ReleaseRequests
           /\ here' = [here EXCEPT !.device.reachable = FALSE, !.device.hotspot = FALSE]
           /\ work' = [work EXCEPT !.prompt = FALSE]
           /\ pc' = "hotspot"
  <2>1. work' \in Snapshots /\ work'.stage = work.stage
    BY <1>1, <1>4 DEF Snapshots
  <2>2. here' \in Locals
    BY <1>1, <1>4 DEF Locals, DeviceReports
  <2>3. Fits(pc', work', here')
    BY <1>1, <1>4, <2>1, <2>2, Fitting
  <2>4. WantsOK'
    BY <1>1, <1>4, ReleaseReleases DEF WantsOK
  <2>5. pc' \in FlowPlaces /\ pc' \notin ScanPlaces
    BY <1>4, Kinds DEF ScanPlaces
  <2>6. QED
    BY <1>1, <1>4, <2>1, <2>3, <2>4, <2>5, QuietFits
<1>5. QED
  BY <1>2, <1>3, <1>4 DEF Contact
-------------------------------------------------------------------------------
(* join_hotspot().                                                         *)
LEMMA JoinHotspotFits ==
    ASSUME Before, JoinHotspot, Untaken
    PROVE  FlowInv'
<1> DEFINE next == [work EXCEPT !.stage = "hotspot", !.prompt = TRUE]
<1>1. next \in Snapshots /\ next.stage = "hotspot"
  BY BeforeFacts DEF Snapshots, Stages
<1>2. Announce(next, here, "ask")
  BY DEF JoinHotspot
<1> HIDE DEF next
<1>3. Fits("ask", next, here)
  BY <1>1, BeforeFacts, Fitting
<1>4. "ask" \in FlowPlaces /\ "ask" \notin ScanPlaces /\ next.stage \in Busy
  BY <1>1, Kinds DEF ScanPlaces, Busy
<1>5. QED
  BY <1>1, <1>2, <1>3, <1>4, AnnounceFits

(* What is asked for is all that is held.                                  *)
LEMMA AskWants ==
    ASSUME HeldOK, held.target = NoRequest, NEW released, Without(released) = {},
           NEW wants \in {HotspotOf(x) : x \in Devices \cup {NoDevice}},
           Ask(released, "hotspot", wants)
    PROVE  WantsOK'
<1>1. android' = {[id |-> 0, wants |-> wants]}
  BY FirstId DEF Ask
<1>2. held'.hotspot = 0
  BY FirstId DEF Ask, HeldOK, NothingHeld, OnlyHotspot, OnlyTarget
<1>3. QED
  BY <1>1, <1>2 DEF WantsOK, Wanted, NoRequest

LEMMA AskForHotspotFits ==
    ASSUME Before, PlaceOK, AskForHotspot, Untaken
    PROVE  FlowInv'
<1>1. CASE Fail(work, FALSE)
  BY <1>1, FailFits, BeforeFacts
<1>2. ASSUME NEW asked \in HotspotAsks, Ask({}, "hotspot", asked),
             here' = [here EXCEPT !.widened = asked = AnyHotspot],
             pc' \in {"poll hotspot", "wait hotspot"},
             UNCHANGED <<shared, work, elapsed, known>>
      PROVE  FlowInv'
  <2>1. pc = "ask" /\ held = NothingHeld /\ work.stage = "hotspot" /\ work.stage \in Busy
    BY BeforeFacts DEF AskForHotspot, PlaceOK, AskingPlaces, Fits, Announced, Busy
  <2>2. here' \in Locals /\ here.device.id \in Devices \cup {NoDevice}
    BY <1>2, BeforeFacts DEF Locals, DeviceReports
  <2>3. Without({}) = {} /\ held.target = NoRequest
    BY <2>1, BeforeFacts DEF HeldOK, Without, NothingHeld, OnlyHotspot, OnlyTarget, NoRequest
  <2>4. asked \in {HotspotOf(x) : x \in Devices \cup {NoDevice}}
    BY <2>2 DEF HotspotAsks, AnyHotspot
  <2>5. WantsOK'
    BY <1>2, <2>3, <2>4, BeforeFacts, AskWants
  <2>6. Fits(pc', work', here')
    BY <1>2, <2>1, <2>2, BeforeFacts, Fitting
  <2>7. pc' \in FlowPlaces /\ pc' \notin ScanPlaces
    BY <1>2, Kinds DEF ScanPlaces
  <2>8. QED
    BY <1>2, <2>1, <2>5, <2>6, <2>7, BeforeFacts, QuietFits
<1>3. QED
  BY <1>1, <1>2 DEF AskForHotspot

LEMMA HotspotAnswersFits ==
    ASSUME Before, pc = "poll hotspot", HotspotAnswers, Untaken
    PROVE  FlowInv'
<1>1. work.stage = "hotspot" /\ work.stage \in Busy /\ WantsOK /\ work \in Snapshots
  BY BeforeFacts DEF Fits, Announced, Busy, Before, FlowInv
<1>2. PICK x \in OnHotspot : here' = [here EXCEPT !.device = Found(x, TRUE)]
  BY DEF HotspotAnswers
<1>3. x \in Devices /\ Found(x, TRUE) \in DeviceReports /\ Found(x, TRUE).id = x
  BY <1>2, Reaches, BeforeFacts, FoundTyped
<1>4. here' \in Locals /\ here'.device = Found(x, TRUE)
  BY <1>2, <1>3, BeforeFacts DEF Locals
<1>5. /\ work' = [work EXCEPT !.prompt = FALSE, !.device = here'.device] /\ pc' = "scan"
      /\ UNCHANGED <<shared, elapsed, known, held, android>>
  BY DEF HotspotAnswers
<1>6. work' \in Snapshots /\ work'.stage = work.stage /\ work'.device = here'.device
  BY <1>1, <1>3, <1>4, <1>5 DEF Snapshots
<1>7. Fits(pc', work', here')
  BY <1>1, <1>4, <1>5, <1>6, Fitting
<1>8. WantsOK'
  BY <1>1, <1>5 DEF WantsOK
<1>9. x \notin PhoneHotspots => held.hotspot # NoRequest
  <2>1. SUFFICES ASSUME x \notin PhoneHotspots PROVE held.hotspot # NoRequest
    OBVIOUS
  <2>2. PICK r \in android : r.wants \in {HotspotOf(x), AnyHotspot}
    BY <1>2, <2>1 DEF OnHotspot
  <2>3. HotspotOf(x).kind = "hotspot" /\ AnyHotspot.kind = "hotspot"
    BY DEF HotspotOf, AnyHotspot
  <2>4. r.wants.kind = "hotspot"
    BY <2>2, <2>3
  <2>5. QED
    BY <1>1, <2>2, <2>4 DEF WantsOK
<1>10. OverHotspot(here'.device) => held'.hotspot # NoRequest
  BY <1>3, <1>4, <1>5, <1>9 DEF OverHotspot
<1>11. pc' \in FlowPlaces
  BY <1>5, Kinds DEF ScanPlaces
<1>12. QED
  BY <1>1, <1>5, <1>6, <1>7, <1>8, <1>10, <1>11, QuietFits

LEMMA WidenHotspotFits ==
    ASSUME Before, PlaceOK, pc = "poll hotspot", WidenHotspot, Untaken
    PROVE  FlowInv'
<1>1. held.target = NoRequest /\ work.stage = "hotspot" /\ work.stage \in Busy
  BY BeforeFacts DEF PlaceOK, WaitingPlaces, Fits, Announced, Busy
<1>2. /\ android' = Without({held.hotspot}) /\ pc' = "ask"
      /\ here' = [here EXCEPT !.widened = TRUE] /\ UNCHANGED <<shared, work, elapsed, known>>
  BY DEF WidenHotspot, ReleaseHotspot
<1>3. here' \in Locals
  BY <1>2, BeforeFacts DEF Locals
<1>4. android' = {}
  BY <1>1, <1>2, BeforeFacts, HotspotLeft
<1>5. WantsOK'
  BY <1>4 DEF WantsOK
<1>6. Fits(pc', work', here')
  BY <1>1, <1>2, <1>3, BeforeFacts, Fitting
<1>7. pc' \in FlowPlaces /\ pc' \notin ScanPlaces
  BY <1>2, Kinds DEF ScanPlaces
<1>8. QED
  BY <1>1, <1>2, <1>5, <1>6, <1>7, BeforeFacts, QuietFits

LEMMA PollHotspotFits ==
    ASSUME Before, PlaceOK, PollHotspot \/ WaitHotspot, Untaken
    PROVE  FlowInv'
<1>1. /\ pc \in {"poll hotspot", "wait hotspot"} /\ pc # "exited"
      /\ Fits("poll hotspot", work, here) /\ Fits("wait hotspot", work, here)
  <2>1. pc \in {"poll hotspot", "wait hotspot"}
    BY DEF PollHotspot, WaitHotspot, Pause
  <2>2. work.stage = "hotspot"
    BY <2>1, BeforeFacts DEF Fits, Announced
  <2>3. QED
    BY <2>1, <2>2, BeforeFacts, Fitting
<1>2. /\ {"poll hotspot", "wait hotspot"} \subseteq FlowPlaces
      /\ {"poll hotspot", "wait hotspot"} \cap ScanPlaces = {}
  BY Kinds DEF ScanPlaces
<1>3. CASE WaitHotspot
  BY <1>1, <1>2, <1>3, PauseFits DEF WaitHotspot
<1>4. CASE PollHotspot
  <2>1. pc = "poll hotspot"
    BY <1>4 DEF PollHotspot
  <2>2. CASE Fail(work, FALSE)
    BY <2>2, FailFits, BeforeFacts
  <2>3. CASE Abandon
    BY <1>1, <2>3, AbandonFits
  <2>4. CASE HotspotAnswers
    BY <2>1, <2>4, HotspotAnswersFits
  <2>5. CASE With(here, "wait hotspot")
    BY <1>1, <1>2, <2>5, WithFits
  <2>6. CASE WidenHotspot
    BY <2>1, <2>6, WidenHotspotFits
  <2>7. QED
    BY <1>4, <2>2, <2>3, <2>4, <2>5, <2>6 DEF PollHotspot, Continue
<1>5. QED
  BY <1>3, <1>4
-------------------------------------------------------------------------------
(* scan().                                                                 *)
LEMMA ScanFits ==
    ASSUME Before, Scan, Untaken
    PROVE  FlowInv'
<1> DEFINE next == [work EXCEPT !.stage = "scanning", !.networks = <<>>]
<1>1. pc = "scan" /\ pc \in ScanPlaces /\ work.device = here.device /\ work \in Snapshots
  BY BeforeFacts DEF Scan, ScanPlaces, Fits
<1>2. <<>> \in Seq(Networks)
  OBVIOUS
<1>3. next \in Snapshots /\ next.stage = "scanning" /\ next.device = here.device
  BY <1>1, <1>2 DEF Snapshots, Stages
<1>4. Announce(next, here, "start scan")
  BY DEF Scan
<1> HIDE DEF next
<1>5. Fits("start scan", next, here)
  BY <1>3, BeforeFacts, Fitting
<1>6. "start scan" \in FlowPlaces /\ next.stage \in Busy
  BY <1>3, Kinds DEF ScanPlaces, Busy
<1>7. QED
  BY <1>1, <1>3, <1>4, <1>5, <1>6, AnnounceFits

LEMMA Limits ==
    /\ ScanAttempts \in Nat /\ ScanAttempts > 0
    /\ SaveAttempts \in Nat /\ SaveAttempts > 0
    /\ MaxMisses \in Nat /\ MaxMisses > 0
    /\ \A l \in Locals : l.tries \in Nat
<1>1. /\ ScanAttempts \in Nat /\ ScanAttempts > 0
      /\ SaveAttempts \in Nat /\ SaveAttempts > 0
      /\ MaxMisses \in Nat /\ MaxMisses > 0
  BY ConstantsAssumption
<1>2. \A l \in Locals : l.tries \in Nat
  BY <1>1 DEF Locals
<1>3. QED
  BY <1>1, <1>2

(* The attempts stay within what the locals may count.                     *)
LEMMA TriesTyped ==
    ASSUME NEW l \in Locals, NEW n \in Nat, n <= ScanAttempts \/ n <= SaveAttempts \/ n <= MaxMisses
    PROVE  /\ [l EXCEPT !.tries = n] \in Locals
           /\ [l EXCEPT !.tries = n].tries = n
           /\ [l EXCEPT !.tries = n].device = l.device
<1>1. n \in 0 .. ScanAttempts + SaveAttempts + MaxMisses
  BY Limits
<1>2. QED
  BY <1>1 DEF Locals

LEMMA ScanningFits ==
    ASSUME Before, pc \in {"start scan", "wait scan", "read scan"}
    PROVE  /\ work.stage = "scanning" /\ work.device = here.device /\ pc \in ScanPlaces
           /\ here.tries \in Nat /\ {"wait scan", "read scan"} \subseteq FlowPlaces /\ pc # "exited"
           /\ pc \in {"wait scan", "read scan"} => here.tries < ScanAttempts
<1>1. /\ here \in Locals /\ Announced(pc, work.stage) /\ Counted(pc, here.tries)
      /\ pc \in ScanPlaces => work.device = here.device
  BY BeforeFacts DEF Fits
<1>2. pc \in ScanPlaces /\ pc # "exited"
  BY DEF ScanPlaces
<1>3. work.stage = "scanning"
  BY <1>1 DEF Announced
<1>4. pc \in {"wait scan", "read scan"} => here.tries < ScanAttempts
  BY <1>1 DEF Counted
<1>5. {"wait scan", "read scan"} \subseteq FlowPlaces
  BY Kinds DEF ScanPlaces
<1>6. QED
  BY <1>1, <1>2, <1>3, <1>4, <1>5, Limits

LEMMA StartScanFits ==
    ASSUME Before, StartScan \/ WaitScan, Untaken
    PROVE  FlowInv'
<1>1. CASE StartScan
  <2>1. CASE Fail(work, TRUE)
    BY <2>1, FailFits, BeforeFacts
  <2>2. CASE With([here EXCEPT !.tries = 0], "wait scan")
    <3> DEFINE locals == [here EXCEPT !.tries = 0]
    <3>1. locals \in Locals /\ locals.tries = 0 /\ locals.device = here.device
      <4>1. here \in Locals
        BY BeforeFacts
      <4>2. 0 \in Nat /\ 0 <= ScanAttempts
        BY Limits
      <4>3. QED
        BY <4>1, <4>2, TriesTyped
    <3> HIDE DEF locals
    <3>2. pc = "start scan"
      BY <1>1 DEF StartScan
    <3>3. Fits("wait scan", work, locals)
      BY <3>1, <3>2, BeforeFacts, ScanningFits, Fitting, Limits
    <3>4. With(locals, "wait scan")
      BY <2>2 DEF locals
    <3>5. QED
      BY <3>1, <3>2, <3>3, <3>4, ScanningFits, WithFits
  <2>3. QED
    BY <1>1, <2>1, <2>2 DEF StartScan
<1>2. CASE WaitScan
  <2>1. pc = "wait scan"
    BY <1>2 DEF WaitScan, Pause
  <2>2. Fits("read scan", work, here)
    BY <2>1, BeforeFacts, ScanningFits, Fitting
  <2>3. QED
    BY <1>2, <2>1, <2>2, ScanningFits, PauseFits DEF WaitScan, ScanPlaces
<1>3. QED
  BY <1>1, <1>2

(* The networks are published with the hotspot held that they were         *)
(* scanned over.                                                           *)
LEMMA ReadScanFits ==
    ASSUME Before, ReadScan, Untaken
    PROVE  FlowInv'
<1>1. /\ pc = "read scan" /\ work.stage = "scanning" /\ work.device = here.device
      /\ pc \in ScanPlaces /\ here.tries \in Nat /\ pc # "exited" /\ here.tries < ScanAttempts
      /\ "wait scan" \in FlowPlaces
  BY ScanningFits DEF ReadScan
<1>2. CASE here.tries + 1 < ScanAttempts /\ With([here EXCEPT !.tries = @ + 1], "wait scan")
  <2> DEFINE locals == [here EXCEPT !.tries = here.tries + 1]
  <2>1. locals \in Locals /\ locals.tries = here.tries + 1 /\ locals.device = here.device
    <3>1. here \in Locals
      BY BeforeFacts
    <3>2. here.tries + 1 \in Nat /\ here.tries + 1 <= ScanAttempts
      <4> DEFINE n == here.tries
      <4>1. n \in Nat /\ n < ScanAttempts /\ ScanAttempts \in Nat
        BY <1>1, Limits
      <4> HIDE DEF n
      <4>2. n + 1 \in Nat /\ n + 1 <= ScanAttempts
        BY <4>1
      <4>3. QED
        BY <4>2 DEF n
    <3>3. QED
      BY <3>1, <3>2, TriesTyped
  <2>2. With(locals, "wait scan")
    BY <1>2, BeforeFacts DEF Locals
  <2> HIDE DEF locals
  <2>3. Fits("wait scan", work, locals)
    BY <1>1, <1>2, <2>1, BeforeFacts, Fitting
  <2>4. QED
    BY <1>1, <2>1, <2>2, <2>3, WithFits
<1>3. CASE Fail(work, TRUE)
  BY <1>3, FailFits, BeforeFacts
<1>4. ASSUME NEW scan \in Scans,
             Publish([work EXCEPT !.networks = scan, !.stage = "networks"]), Return,
             UNCHANGED <<known, held, android>>
      PROVE  FlowInv'
  <2> DEFINE next == [work EXCEPT !.networks = scan, !.stage = "networks"]
  <2>1. scan \in Seq(Networks)
    BY ConstantsAssumption
  <2>2. next \in Snapshots /\ next.stage = "networks" /\ next.device = here.device
    BY <1>1, <2>1, BeforeFacts DEF Snapshots, Stages
  <2>3. Publish(next)
    BY <1>4
  <2> HIDE DEF next
  <2>4. OverHotspot(next.device) => held.hotspot # NoRequest
    BY <1>1, <2>2 DEF Before, FlowInv, HotspotOK
  <2>5. DevicesListed'
    BY <2>2, <2>3, BeforeFacts, PublishTyped DEF DevicesListed, Snapshots
  <2>6. known' \in Seq(Identified) /\ IsInjective(known')
    BY <1>4, BeforeFacts
  <2>7. QED
    BY <1>4, <2>2, <2>3, <2>4, <2>5, <2>6, ReportFits
<1>5. PICK scan \in {ScanError} \cup (IF At(here.device) # {} THEN Scans ELSE {}) :
         IF scan \in {<<>>, ScanError} /\ here.tries + 1 < ScanAttempts
           THEN With([here EXCEPT !.tries = @ + 1], "wait scan")
         ELSE IF scan = ScanError THEN Fail(work, TRUE)
         ELSE /\ Publish([work EXCEPT !.networks = scan, !.stage = "networks"])
              /\ Return
              /\ UNCHANGED <<known, held, android>>
  BY DEF ReadScan
<1>6. scan = ScanError \/ scan \in Scans
  BY <1>5
<1>7. QED
  BY <1>2, <1>3, <1>4, <1>5, <1>6
-------------------------------------------------------------------------------
(* run_join().                                                             *)
LEMMA Numbers ==
    /\ 0 \in 0 .. ScanAttempts + SaveAttempts + MaxMisses
    /\ ScanAttempts \in Nat /\ SaveAttempts \in Nat /\ MaxMisses \in Nat
    /\ 0 < SaveAttempts /\ 0 < MaxMisses
  BY Limits

LEMMA Within ==
    ASSUME NEW n \in Nat, NEW max \in Nat, n <= max
    PROVE  /\ n # max => n < max
           /\ \A i, j \in Nat : n \in 0 .. i + j + max
  OBVIOUS

LEMMA JoiningFacts ==
    ASSUME Before, pc \in JoinPlaces
    PROVE  /\ work \in Snapshots /\ here \in Locals /\ here.device \in DeviceReports
           /\ work.target \in Networks /\ pc # "exited" /\ pc \notin ScanPlaces
           /\ pc # "send" => here.device.id \in Devices
           /\ Announced(pc, work.stage) /\ Counted(pc, here.tries) /\ here.tries \in Nat
<1>1. /\ work \in Snapshots /\ here \in Locals /\ Announced(pc, work.stage)
      /\ Counted(pc, here.tries) /\ work.target \in Networks
      /\ pc # "send" => here.device.id \in Devices
  BY BeforeFacts DEF Fits
<1>2. here.device \in DeviceReports
  BY <1>1 DEF Locals
<1>3. pc # "exited" /\ pc \notin ScanPlaces
  BY DEF JoinPlaces, FindingPlaces, SavingPlaces, ScanPlaces
<1>4. QED
  BY <1>1, <1>2, <1>3, Limits

(* A step of a join that only changes locals.                              *)
LEMMA JoinWithFits ==
    ASSUME Before, pc \in JoinPlaces, NEW locals, NEW label \in JoinPlaces, With(locals, label), Untaken,
           Fits(label, work, locals)
    PROVE  FlowInv'
<1>1. label \in FlowPlaces /\ label \notin ScanPlaces /\ pc # "exited"
  BY Kinds DEF JoinPlaces, FindingPlaces, SavingPlaces, ScanPlaces
<1>2. QED
  BY <1>1, WithFits

LEMMA JoinPauseFits ==
    ASSUME Before, NEW label \in JoinPlaces, NEW next \in JoinPlaces, Pause(label, next), Untaken,
           Fits(next, work, here)
    PROVE  FlowInv'
<1>1. next \in FlowPlaces /\ next \notin ScanPlaces /\ label # "exited"
  BY Kinds DEF JoinPlaces, FindingPlaces, SavingPlaces, ScanPlaces
<1>2. QED
  BY <1>1, PauseFits

LEMMA RunJoinFits ==
    ASSUME Before, RunJoin, Untaken
    PROVE  FlowInv'
<1>1. pc = "join" /\ pc \in Requests /\ pc # "exited"
  BY DEF RunJoin, Requests
<1>2. CASE Drop
  BY <1>1, <1>2, DropFits
<1>3. CASE /\ here.argument \in DOMAIN work.networks
           /\ Announce(Joining(work.networks[here.argument]), [here EXCEPT !.device = work.device], "send")
  <2> DEFINE target == work.networks[here.argument]
             next == Joining(target)
             locals == [here EXCEPT !.device = work.device]
  <2>1. target \in Networks
    BY <1>3, BeforeFacts DEF Snapshots
  <2>2. next \in Snapshots /\ next.stage = "sending" /\ next.target = target
    <3> HIDE DEF target
    <3>1. QED
      BY <2>1, BeforeFacts DEF Joining, Snapshots, Stages
  <2>3. locals \in Locals
    BY BeforeFacts DEF Locals, Snapshots
  <2>4. Announce(next, locals, "send")
    BY <1>3
  <2> HIDE DEF next, locals, target
  <2>5. Fits("send", next, locals)
    BY <2>1, <2>2, <2>3, Fitting
  <2>6. "send" \in FlowPlaces /\ "send" \notin ScanPlaces /\ next.stage \in Busy
    BY <2>2, Kinds DEF ScanPlaces, JoinPlaces, Busy
  <2>7. QED
    BY <2>2, <2>4, <2>5, <2>6, AnnounceFits
<1>4. QED
  BY <1>2, <1>3 DEF RunJoin

LEMMA SendFits ==
    ASSUME Before, Send, Untaken
    PROVE  FlowInv'
<1>1. pc = "send" /\ pc \in JoinPlaces /\ "connect" \in JoinPlaces
  BY DEF Send, JoinPlaces
<1>2. CASE Fail(work, FALSE) \/ Fail(work, TRUE)
  BY <1>2, FailFits, BeforeFacts
<1>3. CASE /\ here.device.id \in At(here.device)
           /\ With([here EXCEPT !.device = Reported(here.device.id, here.device)], "connect")
  <2> DEFINE device == Reported(here.device.id, here.device)
             locals == [here EXCEPT !.device = device]
  <2>1. here.device.id \in Devices /\ here.device \in DeviceReports
    BY <1>1, <1>3, Reaches, JoiningFacts
  <2>2. device \in DeviceReports /\ device.id \in Devices
    BY <2>1, ReportedTyped, BeforeFacts
  <2> HIDE DEF device
  <2>3. locals \in Locals /\ locals.device = device
    BY <2>2, BeforeFacts DEF Locals
  <2>4. With(locals, "connect")
    BY <1>3 DEF device
  <2> HIDE DEF locals
  <2>5. work.stage = "sending"
    BY <1>1, JoiningFacts DEF Announced
  <2>6. Fits("connect", work, locals)
    BY <1>1, <2>2, <2>3, <2>5, JoiningFacts, Fitting
  <2>7. QED
    BY <1>1, <2>4, <2>6, JoinWithFits
<1>4. QED
  BY <1>2, <1>3 DEF Send

LEMMA ConnectFits ==
    ASSUME Before, Connect, Untaken
    PROVE  FlowInv'
<1>1. pc = "connect" /\ pc \in JoinPlaces
  BY DEF Connect, JoinPlaces
<1>2. CASE Fail(work, FALSE)
  BY <1>2, FailFits, BeforeFacts
<1>3. ASSUME NEW answered \in BOOLEAN,
             Publish([work EXCEPT !.stage = "joining", !.device = here.device]),
             here' = [here EXCEPT !.left = ~answered, !.tries = 0], elapsed' = 0,
             pc' = "wait join", UNCHANGED <<known, held, android>>
      PROVE  FlowInv'
  <2> DEFINE next == [work EXCEPT !.stage = "joining", !.device = here.device]
  <2>1. next \in Snapshots /\ next.stage = "joining" /\ next.target \in Networks
    BY <1>1, JoiningFacts DEF Snapshots, Stages
  <2>2. here' \in Locals /\ here'.tries = 0 /\ here'.device = here.device
    BY <1>1, <1>3, JoiningFacts, Numbers DEF Locals
  <2>3. Publish(next) /\ work' = next
    BY <1>3 DEF Publish
  <2> HIDE DEF next
  <2>4. here'.device.id \in Devices /\ here'.tries < MaxMisses
    BY <1>1, <2>2, JoiningFacts, Numbers
  <2>5. Fits(pc', work', here')
    BY <1>3, <2>1, <2>2, <2>3, <2>4, Fitting
  <2>6. pc' \in FlowPlaces /\ pc' \notin ScanPlaces /\ next.stage \in Busy
    BY <1>3, <2>1, Kinds DEF JoinPlaces, ScanPlaces, Busy
  <2>7. WantsOK'
    BY <1>3 DEF Before, FlowInv, WantsOK
  <2>8. elapsed' = 0 /\ UNCHANGED known
    BY <1>3
  <2>10. elapsed' \in 0 .. 2
    BY <2>8
  <2>9. QED
    BY <2>1, <2>3, <2>5, <2>6, <2>7, <2>8, <2>10, BusyFits
<1>4. QED
  BY <1>2, <1>3 DEF Connect

LEMMA WaitJoinFits ==
    ASSUME Before, WaitJoin, Untaken
    PROVE  FlowInv'
<1>1. pc = "wait join" /\ pc \in JoinPlaces /\ "read join" \in JoinPlaces
  BY DEF WaitJoin, Pause, JoinPlaces
<1>2. work.stage = "joining" /\ here.tries < MaxMisses
  BY <1>1, JoiningFacts DEF Announced, Counted
<1>3. Fits("read join", work, here)
  BY <1>1, <1>2, JoiningFacts, Fitting
<1>4. QED
  BY <1>1, <1>3, JoinPauseFits DEF WaitJoin

LEMMA FinishFits ==
    ASSUME Before, pc \in JoinPlaces, NEW device \in DeviceReports, device.id \in Devices,
           Finish(device), Untaken
    PROVE  FlowInv'
<1> DEFINE next == [work EXCEPT !.joined = TRUE, !.prompt = FALSE, !.stage = "saving", !.device = device]
           locals == [here EXCEPT !.device = device, !.tries = 0, !.saved = FALSE]
<1>1. next \in Snapshots /\ next.stage = "saving" /\ next.target \in Networks
  BY JoiningFacts DEF Snapshots, Stages
<1>2. locals \in Locals /\ locals.tries = 0 /\ locals.device = device
  BY JoiningFacts, Numbers DEF Locals
<1>3. Announce(next, locals, "reach")
  BY DEF Finish
<1> HIDE DEF next, locals
<1>4. locals.tries < SaveAttempts
  BY <1>2, Numbers
<1>5. Fits("reach", next, locals)
  BY <1>1, <1>2, <1>4, Fitting DEF SavingPlaces
<1>6. "reach" \in FlowPlaces /\ "reach" \notin ScanPlaces /\ next.stage \in Busy
  BY <1>1, Kinds DEF JoinPlaces, SavingPlaces, ScanPlaces, Busy
<1>7. QED
  BY <1>1, <1>3, <1>5, <1>6, AnnounceFits

LEMMA PollOnFits ==
    ASSUME Before, pc = "read join", NEW device \in DeviceReports, device.id \in Devices,
           NEW left \in BOOLEAN, NEW misses \in Nat, misses <= MaxMisses,
           PollOn(device, left, misses), Untaken
    PROVE  FlowInv'
<1> DEFINE locals == [here EXCEPT !.device = device, !.left = left, !.tries = misses]
<1>1. pc \in JoinPlaces /\ {"end join", "wait join"} \subseteq JoinPlaces
  BY DEF JoinPlaces
<1>2. misses \in 0 .. ScanAttempts + SaveAttempts + MaxMisses
  BY Numbers, Within
<1>3. locals \in Locals /\ locals.tries = misses /\ locals.device = device
  BY <1>2, BeforeFacts DEF Locals
<1>4. work.stage = "joining" /\ work.target \in Networks /\ work \in Snapshots
  BY <1>1, JoiningFacts DEF Announced
<1>5. \/ With(locals, "end join")
      \/ misses # MaxMisses /\ With(locals, "wait join")
  BY DEF PollOn
<1> HIDE DEF locals
<1>6. Fits("end join", work, locals) /\ (misses # MaxMisses => Fits("wait join", work, locals))
  <2>1. misses # MaxMisses => misses < MaxMisses
    BY Numbers, Within
  <2>2. QED
    BY <1>3, <1>4, <2>1, Fitting
<1>7. QED
  BY <1>1, <1>5, <1>6, JoinWithFits

LEMMA ReadJoinFits ==
    ASSUME Before, ReadJoin, Untaken
    PROVE  FlowInv'
<1>1. pc = "read join" /\ pc \in JoinPlaces
  BY DEF ReadJoin, JoinPlaces
<1>2. /\ here.device \in DeviceReports /\ here.device.id \in Devices /\ here.left \in BOOLEAN
      /\ here.tries \in Nat /\ here.tries < MaxMisses
  BY <1>1, JoiningFacts DEF Counted, Locals
<1> DEFINE now == Reported(here.device.id, here.device)
<1>3. now \in DeviceReports /\ now.id \in Devices
  BY <1>2, ReportedTyped, BeforeFacts
<1>4. 0 \in Nat /\ 0 <= MaxMisses /\ here.tries + 1 \in Nat /\ here.tries + 1 <= MaxMisses
  <2> DEFINE n == here.tries
  <2>1. n \in Nat /\ n < MaxMisses /\ MaxMisses \in Nat
    BY <1>2, Limits
  <2> HIDE DEF n
  <2>2. n + 1 \in Nat /\ n + 1 <= MaxMisses
    BY <2>1
  <2>3. QED
    BY <2>1, <2>2 DEF n
<1> HIDE DEF now
<1>5. CASE PollOn(here.device, TRUE, here.tries + 1) \/ PollOn(here.device, here.left, 0)
  BY <1>1, <1>2, <1>4, <1>5, PollOnFits
<1>6. CASE Fail(work, TRUE) \/ Fail(work, FALSE)
  BY <1>6, FailFits, BeforeFacts
<1>7. CASE Finish(now)
  BY <1>1, <1>3, <1>7, FinishFits
<1>8. CASE PollOn(now, here.left \/ now.state = "joining", 0)
  <2>1. (here.left \/ now.state = "joining") \in BOOLEAN
    BY <1>2
  <2>2. QED
    BY <1>1, <1>3, <1>4, <1>8, <2>1, PollOnFits
<1>9. (now.state = "wrong") \in BOOLEAN
  OBVIOUS
<1>10. CASE Fail(work, now.state = "wrong")
  BY <1>9, <1>10, FailFits, BeforeFacts
<1>11. QED
  BY <1>5, <1>6, <1>7, <1>8, <1>10 DEF ReadJoin, now

LEMMA EndJoinFits ==
    ASSUME Before, EndJoin, Untaken
    PROVE  FlowInv'
<1>1. pc = "end join" /\ pc \in JoinPlaces
  BY DEF EndJoin, JoinPlaces
<1>2. CASE Fail(work, TRUE)
  BY <1>2, FailFits, BeforeFacts
<1>3. CASE /\ held' = [held EXCEPT !.hotspot = NoRequest]
           /\ android' = Without({held.hotspot})
           /\ Publish([work EXCEPT !.stage = "finding"])
           /\ elapsed' = 0 /\ pc' = "find" /\ UNCHANGED <<here, known>>
  <2> DEFINE next == [work EXCEPT !.stage = "finding"]
  <2>1. next \in Snapshots /\ next.stage = "finding" /\ next.target \in Networks
    BY <1>1, JoiningFacts DEF Snapshots, Stages
  <2>2. Publish(next) /\ work' = next
    BY <1>3 DEF Publish
  <2> HIDE DEF next
  <2>3. here.device.id \in Devices /\ here \in Locals
    BY <1>1, JoiningFacts
  <2>4. Fits(pc', work', here')
    BY <1>3, <2>1, <2>2, <2>3, Fitting
  <2>5. pc' \in FlowPlaces /\ pc' \notin ScanPlaces /\ next.stage \in Busy
    BY <1>3, <2>1, Kinds DEF JoinPlaces, FindingPlaces, ScanPlaces, Busy
  <2>6. WantsOK'
    <3>1. WantsOK /\ HeldOK
      BY DEF Before, FlowInv
    <3>2. CASE held = NothingHeld /\ android = {}
      BY <1>3, <3>2 DEF WantsOK, Without
    <3>3. CASE held = OnlyHotspot /\ \E r \in android : r.id = 0 /\ android = {r}
      <4>1. android' = {}
        BY <1>3, <3>3 DEF Without, OnlyHotspot
      <4>2. QED
        BY <4>1 DEF WantsOK
    <3>4. CASE held = OnlyTarget
      <4>1. android' \subseteq android /\ held.hotspot = NoRequest
        BY <1>3, <3>4 DEF Without, OnlyTarget
      <4>2. QED
        BY <3>1, <4>1 DEF WantsOK
    <3>5. QED
      BY <3>1, <3>2, <3>3, <3>4 DEF HeldOK
  <2>7. QED
    BY <1>3, <2>1, <2>2, <2>4, <2>5, <2>6, BusyFits
<1>4. QED
  BY <1>2, <1>3 DEF EndJoin, ReleaseHotspot

LEMMA FindingFits ==
    ASSUME Before, Find \/ WaitFind, Untaken
    PROVE  FlowInv'
<1>1. pc \in FindingPlaces /\ pc \in JoinPlaces /\ {"find", "wait find"} \subseteq JoinPlaces
      /\ "wait find" \in FindingPlaces
  BY DEF Find, WaitFind, Pause, FindingPlaces, JoinPlaces
<1>2. work.stage = "finding" /\ here.device.id \in Devices
  BY <1>1, JoiningFacts DEF Announced, FindingPlaces
<1>3. Fits("find", work, here) /\ Fits("wait find", work, here)
  BY <1>1, <1>2, JoiningFacts, Fitting
<1>4. CASE WaitFind
  BY <1>1, <1>3, <1>4, JoinPauseFits DEF WaitFind
<1>5. CASE Find
  <2>1. CASE Fail(work, FALSE) \/ Fail(work, TRUE)
    BY <2>1, FailFits, BeforeFacts
  <2>2. CASE Abandon
    BY <1>1, <2>2, AbandonFits, JoiningFacts
  <2>3. CASE Finish(Found(here.device.id, FALSE))
    BY <1>1, <1>2, <2>3, FoundTyped, BeforeFacts, FinishFits
  <2>4. CASE With(here, "wait find")
    BY <1>1, <1>3, <2>4, JoinWithFits
  <2>5. CASE RequestTarget(here, "wait find")
    BY <1>1, <1>3, <2>5, RequestTargetFits
  <2>6. QED
    BY <1>5, <2>1, <2>2, <2>3, <2>4, <2>5 DEF Find, Continue
<1>6. QED
  BY <1>4, <1>5
-------------------------------------------------------------------------------
(* The lists of devices.                                                   *)

(* One more member of the list, taken or left.                             *)
More(s, list, S, i) == IF list[i] \in S THEN Append(s, list[i]) ELSE s
Picks(s, list, S, i) ==
    s \in Seq(Devices) /\ IsInjective(s) /\ Range(s) = {list[j] : j \in 1 .. i} \cap S
Picking(f, k, list, S) ==
    /\ f \in [0 .. k -> Seq(Devices)] /\ f[0] = <<>>
    /\ \A i \in 1 .. k : f[i] = More(f[i - 1], list, S, i)

LEMMA Appends ==
    ASSUME NEW D, NEW s \in Seq(D), IsInjective(s), NEW x \in D, x \notin Range(s)
    PROVE  /\ Append(s, x) \in Seq(D) /\ IsInjective(Append(s, x))
           /\ Range(Append(s, x)) = Range(s) \cup {x}
<1> DEFINE t == Append(s, x)
           n == Len(s)
<1>1. /\ t \in Seq(D) /\ Len(t) = n + 1 /\ t[n + 1] = x /\ n \in Nat
      /\ \A i \in 1 .. n : t[i] = s[i]
  BY AppendProperties
<1>2. DOMAIN s = 1 .. n /\ DOMAIN t = 1 .. n + 1
  BY <1>1
<1> HIDE DEF t, n
<1>3. \A i \in DOMAIN t : i = n + 1 \/ i \in DOMAIN s
  BY <1>1, <1>2
<1>4. IsInjective(t)
  <2> SUFFICES ASSUME NEW i \in DOMAIN t, NEW j \in DOMAIN t, t[i] = t[j] PROVE i = j
    BY DEF IsInjective
  <2>1. \A k \in DOMAIN s : s[k] # x
    BY DEF Range
  <2>2. CASE i = n + 1 /\ j = n + 1
    BY <2>2
  <2>3. CASE i = n + 1 /\ j \in DOMAIN s
    BY <1>1, <1>2, <2>1, <2>3
  <2>4. CASE j = n + 1 /\ i \in DOMAIN s
    BY <1>1, <1>2, <2>1, <2>4
  <2>5. CASE i \in DOMAIN s /\ j \in DOMAIN s
    BY <1>1, <1>2, <2>5 DEF IsInjective
  <2>6. QED
    BY <1>3, <2>2, <2>3, <2>4, <2>5
<1>5. Range(t) = Range(s) \cup {x}
  <2>1. \A i \in DOMAIN s : i \in DOMAIN t /\ t[i] = s[i]
    BY <1>1, <1>2
  <2>2. n + 1 \in DOMAIN t
    BY <1>1, <1>2
  <2>3. Range(t) \subseteq Range(s) \cup {x}
    BY <1>1, <1>3, <2>1 DEF Range
  <2>4. Range(s) \cup {x} \subseteq Range(t)
    BY <1>1, <2>1, <2>2 DEF Range
  <2>5. QED
    BY <2>3, <2>4
<1>6. QED
  BY <1>1, <1>4, <1>5 DEF t

LEMMA PicksMore ==
    ASSUME NEW list \in Seq(Devices), IsInjective(list), NEW S, NEW i \in 1 .. Len(list),
           NEW s, Picks(s, list, S, i - 1)
    PROVE  Picks(More(s, list, S, i), list, S, i)
<1>1. /\ s \in Seq(Devices) /\ IsInjective(s) /\ Range(s) = {list[j] : j \in 1 .. i - 1} \cap S
      /\ list[i] \in Devices /\ i \in Nat /\ DOMAIN list = 1 .. Len(list) /\ Len(list) \in Nat
  BY DEF Picks
<1>2. 1 .. i = (1 .. i - 1) \cup {i}
  BY <1>1
<1>3. {list[j] : j \in 1 .. i} = {list[j] : j \in 1 .. i - 1} \cup {list[i]}
  BY <1>2
<1>4. list[i] \notin {list[j] : j \in 1 .. i - 1}
  <2>1. \A j \in 1 .. i - 1 : j \in DOMAIN list /\ j # i
    BY <1>1
  <2>2. i \in DOMAIN list
    BY <1>1
  <2>3. QED
    BY <2>1, <2>2 DEF IsInjective
<1>5. CASE list[i] \in S
  <2>1. list[i] \notin Range(s)
    BY <1>1, <1>4
  <2>2. /\ Append(s, list[i]) \in Seq(Devices) /\ IsInjective(Append(s, list[i]))
        /\ Range(Append(s, list[i])) = Range(s) \cup {list[i]}
    BY <1>1, <2>1, Appends
  <2>3. QED
    BY <1>1, <1>3, <1>5, <2>2 DEF Picks, More
<1>6. CASE list[i] \notin S
  BY <1>1, <1>3, <1>6 DEF Picks, More
<1>7. QED
  BY <1>5, <1>6

LEMMA PickingExists ==
    ASSUME NEW list \in Seq(Devices), NEW S
    PROVE  \E f : Picking(f, Len(list), list, S)
<1> DEFINE n == Len(list)
           T == {k \in 0 .. n : ~ \E f : Picking(f, k, list, S)}
<1>0. n \in Nat /\ \A i \in 1 .. n : list[i] \in Devices
  OBVIOUS
<1> HIDE DEF n
<1>1. SUFFICES ASSUME T # {} PROVE FALSE
  BY <1>0 DEF T, n
<1>2. T \subseteq Nat
  BY DEF T
<1> HIDE DEF T
<1>3. PICK k \in T : \A j \in T : k <= j
  BY <1>1, <1>2, Least
<1>4. k \in 0 .. n /\ ~ \E f : Picking(f, k, list, S)
  BY DEF T
<1>5. k # 0
  <2> DEFINE f == [i \in 0 .. 0 |-> <<>>]
  <2>1. <<>> \in Seq(Devices) /\ 0 \in 0 .. 0
    OBVIOUS
  <2>2. Picking(f, 0, list, S)
    BY <2>1 DEF Picking
  <2>3. QED
    BY <1>4, <2>2
<1>6. k - 1 \in 0 .. n /\ k \in 1 .. n /\ ~(k <= k - 1)
  BY <1>0, <1>4, <1>5
<1>7. PICK g : Picking(g, k - 1, list, S)
  BY <1>3, <1>6 DEF T
<1> DEFINE last == More(g[k - 1], list, S, k)
           f == [i \in 0 .. k |-> IF i = k THEN last ELSE g[i]]
<1>8. g[k - 1] \in Seq(Devices) /\ list[k] \in Devices
  BY <1>0, <1>6, <1>7 DEF Picking
<1>9. last \in Seq(Devices)
  BY <1>8, AppendProperties DEF More
<1>10. f \in [0 .. k -> Seq(Devices)]
  <2> HIDE DEF last
  <2>1. \A i \in 0 .. k : i # k => i \in 0 .. k - 1
    BY <1>6
  <2>2. \A i \in 0 .. k : i # k => g[i] \in Seq(Devices)
    BY <1>7, <2>1 DEF Picking
  <2>3. QED
    BY <1>9, <2>2
<1>11. ASSUME NEW i \in 1 .. k PROVE f[i] = More(f[i - 1], list, S, i)
  <2> HIDE DEF last
  <2>1. i - 1 \in 0 .. k /\ i - 1 # k /\ i \in 0 .. k /\ (i # k => i \in 1 .. k - 1)
    BY <1>6
  <2>2. f[i - 1] = g[i - 1]
    BY <2>1
  <2>3. CASE i = k
    BY <2>1, <2>2, <2>3 DEF last
  <2>4. CASE i # k
    <3>1. g[i] = More(g[i - 1], list, S, i)
      BY <1>7, <2>1, <2>4 DEF Picking
    <3> HIDE DEF f
    <3>2. f[i] = g[i]
      BY <2>1, <2>4 DEF f
    <3>3. QED
      BY <2>2, <3>1, <3>2
  <2>5. QED
    BY <2>3, <2>4
<1>12. f[0] = <<>>
  <2> HIDE DEF last
  <2>1. 0 \in 0 .. k /\ k # 0
    BY <1>6
  <2>2. f[0] = g[0]
    BY <2>1
  <2>3. QED
    BY <1>7, <2>2 DEF Picking
<1> HIDE DEF f
<1>13. Picking(f, k, list, S)
  BY <1>10, <1>11, <1>12 DEF Picking
<1>14. QED
  BY <1>4, <1>13

(* Those are the members wanted, in a list without repetitions.            *)
LEMMA ThoseFacts ==
    ASSUME NEW list \in Seq(Devices), IsInjective(list), NEW S
    PROVE  /\ Those(list, S) \in Seq(Devices) /\ IsInjective(Those(list, S))
           /\ Range(Those(list, S)) = Range(list) \cap S
<1> DEFINE n == Len(list)
           those == CHOOSE those : those = [i \in 0 .. n |->
                      IF i = 0 THEN <<>>
                      ELSE IF list[i] \in S THEN Append(those[i - 1], list[i]) ELSE those[i - 1]]
<1>1. n \in Nat
  OBVIOUS
<1>2. PICK f : Picking(f, n, list, S)
  BY PickingExists
<1>3. f = [i \in 0 .. n |->
            IF i = 0 THEN <<>>
            ELSE IF list[i] \in S THEN Append(f[i - 1], list[i]) ELSE f[i - 1]]
  <2>1. f \in [0 .. n -> Seq(Devices)] /\ f[0] = <<>>
    BY <1>2 DEF Picking
  <2>2. \A i \in 0 .. n : i = 0 \/ i \in 1 .. n
    BY <1>1
  <2>3. \A i \in 1 .. n : f[i] = IF list[i] \in S THEN Append(f[i - 1], list[i]) ELSE f[i - 1]
    BY <1>2 DEF Picking, More
  <2>4. \A i \in 0 .. n : f[i] =
            IF i = 0 THEN <<>>
            ELSE IF list[i] \in S THEN Append(f[i - 1], list[i]) ELSE f[i - 1]
    BY <2>1, <2>2, <2>3
  <2>5. QED
    BY <2>1, <2>4
<1>4. those = [i \in 0 .. n |->
                IF i = 0 THEN <<>>
                ELSE IF list[i] \in S THEN Append(those[i - 1], list[i]) ELSE those[i - 1]]
  BY <1>3
<1>5. Those(list, S) = those[n]
  BY DEF Those
<1> HIDE DEF those
<1>6. those[0] = <<>> /\ \A i \in 1 .. n : those[i] = More(those[i - 1], list, S, i)
  <2>1. \A i \in 1 .. n : i \in 0 .. n /\ i # 0
    BY <1>1
  <2>2. 0 \in 0 .. n
    BY <1>1
  <2>3. QED
    BY <1>4, <2>1, <2>2 DEF More
<1> DEFINE T == {k \in 0 .. n : ~Picks(those[k], list, S, k)}
<1>7. T = {}
  <2>1. SUFFICES ASSUME T # {} PROVE FALSE
    OBVIOUS
  <2>2. T \subseteq Nat
    BY DEF T
  <2> HIDE DEF T
  <2>3. PICK k \in T : \A j \in T : k <= j
    BY <2>1, <2>2, Least
  <2>4. k \in 0 .. n /\ ~Picks(those[k], list, S, k)
    BY DEF T
  <2>5. k # 0
    <3>1. <<>> \in Seq(Devices) /\ IsInjective(<<>>) /\ Range(<<>>) = {}
      BY DEF IsInjective, Range
    <3>2. {list[j] : j \in 1 .. 0} = {}
      OBVIOUS
    <3>3. Picks(<<>>, list, S, 0)
      BY <3>1, <3>2 DEF Picks
    <3>4. QED
      BY <1>6, <2>4, <3>3
  <2>6. k - 1 \in 0 .. n /\ k \in 1 .. n /\ ~(k <= k - 1)
    BY <1>1, <2>4, <2>5
  <2>7. Picks(those[k - 1], list, S, k - 1)
    BY <2>3, <2>6 DEF T
  <2>8. Picks(More(those[k - 1], list, S, k), list, S, k)
    BY <2>6, <2>7, PicksMore
  <2>9. QED
    BY <1>6, <2>4, <2>6, <2>8
<1>8. Picks(those[n], list, S, n)
  BY <1>1, <1>7
<1>9. Range(list) = {list[j] : j \in 1 .. n}
  BY RangeEquality
<1>10. QED
  BY <1>5, <1>8, <1>9 DEF Picks

LEMMA Concats ==
    ASSUME NEW D, NEW s \in Seq(D), NEW t \in Seq(D), IsInjective(s), IsInjective(t),
           Range(s) \cap Range(t) = {}
    PROVE  /\ s \o t \in Seq(D) /\ IsInjective(s \o t) /\ Range(s \o t) = Range(s) \cup Range(t)
<1> DEFINE both == s \o t
           m == Len(s)
           n == Len(t)
<1>1. /\ both \in Seq(D) /\ Len(both) = m + n /\ m \in Nat /\ n \in Nat
      /\ \A i \in 1 .. m + n : both[i] = IF i <= m THEN s[i] ELSE t[i - m]
  BY ConcatProperties
<1>2. DOMAIN s = 1 .. m /\ DOMAIN t = 1 .. n /\ DOMAIN both = 1 .. m + n
  BY <1>1
<1>3. Range(both) = Range(s) \cup Range(t)
  BY RangeConcatenation
<1> HIDE DEF both, m, n
<1>4. ASSUME NEW i \in DOMAIN both, NEW j \in DOMAIN both, both[i] = both[j] PROVE i = j
  <2>0. i \in Nat /\ j \in Nat /\ i \in 1 .. m + n /\ j \in 1 .. m + n
    BY <1>1, <1>2
  <2>1. \A k \in DOMAIN both : k \in Nat /\ (k <= m => k \in DOMAIN s /\ both[k] = s[k])
    BY <1>1, <1>2
  <2>2. \A k \in DOMAIN both : ~(k <= m) => k - m \in DOMAIN t /\ both[k] = t[k - m]
    BY <1>1, <1>2
  <2>3. CASE i <= m /\ j <= m
    BY <1>4, <2>1, <2>3 DEF IsInjective
  <2>4. CASE ~(i <= m) /\ ~(j <= m)
    <3>1. i - m = j - m
      BY <1>4, <2>2, <2>4 DEF IsInjective
    <3>2. QED
      BY <1>1, <2>0, <3>1
  <2>5. CASE i <= m /\ ~(j <= m)
    BY <1>4, <2>1, <2>2, <2>5 DEF Range
  <2>6. CASE ~(i <= m) /\ j <= m
    BY <1>4, <2>1, <2>2, <2>6 DEF Range
  <2>7. QED
    BY <2>3, <2>4, <2>5, <2>6
<1>5. IsInjective(both)
  BY <1>4 DEF IsInjective
<1>6. QED
  BY <1>1, <1>3, <1>5 DEF both

(* remember().                                                             *)
LEMMA RememberAllFacts ==
    ASSUME NEW list \in Seq(Identified), IsInjective(list), NEW ids \in Seq(Devices), IsInjective(ids)
    PROVE  /\ RememberAll(list, ids) \in Seq(Identified) /\ IsInjective(RememberAll(list, ids))
           /\ Range(RememberAll(list, ids)) = Range(list) \cup (Range(ids) \cap Identified)
<1> DEFINE new == Those(ids, (Range(ids) \cap Identified) \ Range(list))
<1>1. /\ new \in Seq(Devices) /\ IsInjective(new)
      /\ Range(new) = Range(ids) \cap ((Range(ids) \cap Identified) \ Range(list))
  BY ThoseFacts
<1> HIDE DEF new
<1>2. /\ Range(list) \cap Range(new) = {}
      /\ Range(list) \cup Range(new) = Range(list) \cup (Range(ids) \cap Identified)
  BY <1>1
<1>3. new \in Seq(Identified)
  <2>1. Len(new) \in Nat /\ DOMAIN new = 1 .. Len(new)
    BY <1>1
  <2>2. \A i \in 1 .. Len(new) : new[i] \in Identified
    BY <1>1, <2>1 DEF Range
  <2>3. new = [i \in 1 .. Len(new) |-> new[i]]
    BY <1>1
  <2>4. QED
    BY <2>1, <2>2, <2>3
<1>4. list \in Seq(Devices)
  BY KnownAreDevices
<1>5. IsInjective(list \o new) /\ Range(list \o new) = Range(list) \cup Range(new)
  BY <1>1, <1>2, <1>4, Concats
<1>6. list \o new \in Seq(Identified)
  BY <1>3
<1>7. QED
  BY <1>2, <1>5, <1>6 DEF RememberAll, new

(* A list without repetitions is as long as what it lists.                 *)
LEMMA Lengths ==
    ASSUME NEW s \in Seq(Devices), IsInjective(s)
    PROVE  Len(s) = Cardinality(Range(s))
<1> DEFINE n == Len(s)
           S == Range(s)
<1>1. n \in Nat /\ s \in [1 .. n -> S] /\ DOMAIN s = 1 .. n
  BY DEF Range
<1>2. s \in Injection(1 .. n, S)
  BY <1>1 DEF Injection
<1>3. s \in Surjection(1 .. n, S)
  BY <1>1 DEF Surjection, Range
<1>4. IsFiniteSet(1 .. n) /\ Cardinality(1 .. n) = n
  <2>1. Cardinality(1 .. n) = IF 1 > n THEN 0 ELSE n - 1 + 1
    BY <1>1, FS_Interval
  <2>2. QED
    BY <1>1, <2>1, FS_Interval, SMTT(20)
<1> HIDE DEF n, S
<1>5. Cardinality(S) = Cardinality(1 .. n)
  BY <1>2, <1>3, <1>4, FS_Surjection
<1>6. QED
  BY <1>4, <1>5 DEF n, S

(* An order of finitely many devices lists each once.                      *)
LEMMA OrdersFacts ==
    ASSUME NEW S \in SUBSET Devices, NEW s \in Orders(S)
    PROVE  s \in Seq(Devices) /\ IsInjective(s) /\ Range(s) = S
<1> DEFINE n == Cardinality(S)
<1>1. IsFiniteSet(S) /\ n \in Nat
  BY ConstantsAssumption, FS_Subset, FS_CardinalityType
<1>2. s \in [1 .. n -> S] /\ Range(s) = S
  BY DEF Orders
<1>3. IsFiniteSet(1 .. n) /\ Cardinality(1 .. n) = n
  <2>1. Cardinality(1 .. n) = IF 1 > n THEN 0 ELSE n - 1 + 1
    BY <1>1, FS_Interval
  <2>2. QED
    BY <1>1, <2>1, FS_Interval
<1> HIDE DEF n
<1>4. s \in Surjection(1 .. n, S)
  BY <1>2 DEF Surjection, Range
<1>5. s \in Injection(1 .. n, S)
  BY <1>3, <1>4, FS_SurjSameCardinalityImpliesInj DEF n
<1>6. s \in Seq(Devices)
  BY <1>1, <1>2
<1>7. QED
  BY <1>2, <1>5, <1>6 DEF Injection
-------------------------------------------------------------------------------
(* finish().                                                               *)
LEMMA SavingFacts ==
    ASSUME Before, pc \in SavingPlaces
    PROVE  /\ pc \in JoinPlaces /\ SavingPlaces \subseteq JoinPlaces
           /\ pc \in FindingPlaces \cup SavingPlaces
           /\ work \in Snapshots /\ here \in Locals /\ here.device \in DeviceReports
           /\ here.device.id \in Devices /\ work.stage = "saving" /\ work.target \in Networks
           /\ here.tries \in Nat
           /\ pc \in {"reach", "wait save", "check save", "save", "check again"} =>
                here.tries < SaveAttempts
<1>1. pc \in JoinPlaces /\ SavingPlaces \subseteq JoinPlaces /\ pc # "send"
  BY DEF JoinPlaces, SavingPlaces
<1>2. Announced(pc, work.stage) /\ Counted(pc, here.tries)
  BY <1>1, JoiningFacts
<1>3. /\ work.stage = "saving"
      /\ pc \in {"reach", "wait save", "check save", "save", "check again"} =>
           here.tries < SaveAttempts
  BY <1>2 DEF Announced, Counted
<1>4. QED
  BY <1>1, <1>3, JoiningFacts

LEMMA SavingFits ==
    ASSUME Before, pc \in SavingPlaces, NEW locals \in Locals, locals.device.id \in Devices,
           NEW label \in SavingPlaces,
           label \in {"end save", "not saved", "verify", "wait verify"} \/ locals.tries < SaveAttempts
    PROVE  Fits(label, work, locals)
<1>1. work \in Snapshots /\ work.stage = "saving" /\ work.target \in Networks
  BY SavingFacts
<1>2. QED
  BY <1>1, Fitting

(* One more attempt is counted, or was the last.                           *)
LEMMA AgainFits ==
    ASSUME Before, pc \in SavingPlaces, here.tries < SaveAttempts
    PROVE  /\ AgainAt \in SavingPlaces /\ AgainAt \in JoinPlaces
           /\ Fits(AgainAt, work, Again)
<1> DEFINE n == here.tries
<1>1. n \in Nat /\ SaveAttempts \in Nat /\ n < SaveAttempts /\ here \in Locals
      /\ here.device.id \in Devices
  BY SavingFacts, Numbers
<1>2. Again = [here EXCEPT !.tries = n + 1]
  BY <1>1 DEF Again, Locals
<1> HIDE DEF n
<1>3. n + 1 \in Nat /\ n + 1 <= SaveAttempts /\ (n + 1 # SaveAttempts => n + 1 < SaveAttempts)
  BY <1>1
<1>4. Again \in Locals /\ Again.tries = n + 1 /\ Again.device = here.device
  BY <1>1, <1>2, <1>3, TriesTyped
<1>5. AgainAt = IF n + 1 = SaveAttempts THEN "end save" ELSE "wait save"
  BY DEF AgainAt, n
<1>6. {"end save", "wait save"} \subseteq SavingPlaces
  BY DEF SavingPlaces
<1>7. Fits("end save", work, Again) /\ (n + 1 # SaveAttempts => Fits("wait save", work, Again))
  BY <1>1, <1>3, <1>4, <1>6, SavingFits
<1>8. AgainAt \in SavingPlaces /\ Fits(AgainAt, work, Again)
  BY <1>5, <1>6, <1>7
<1>9. QED
  BY <1>8, SavingFacts

LEMMA WaitSaveFits ==
    ASSUME Before, WaitSave, Untaken
    PROVE  FlowInv'
<1>1. pc = "wait save" /\ pc \in SavingPlaces /\ "reach" \in SavingPlaces
  BY DEF WaitSave, Pause, SavingPlaces
<1>2. here \in Locals /\ here.device.id \in Devices /\ here.tries < SaveAttempts
  BY <1>1, SavingFacts
<1>3. Fits("reach", work, here)
  BY <1>1, <1>2, SavingFits
<1>4. "reach" \in JoinPlaces /\ "wait save" \in JoinPlaces
  BY <1>1, SavingFacts
<1>5. QED
  BY <1>3, <1>4, JoinPauseFits DEF WaitSave

LEMMA ReachFits ==
    ASSUME Before, Reach, Untaken
    PROVE  FlowInv'
<1>1. pc = "reach" /\ pc \in SavingPlaces /\ "check save" \in SavingPlaces /\ pc # "exited"
  BY DEF Reach, SavingPlaces
<1>2. /\ here \in Locals /\ here.device \in DeviceReports /\ here.device.id \in Devices
      /\ here.tries < SaveAttempts /\ "check save" \in JoinPlaces /\ pc \in JoinPlaces
      /\ work \in Snapshots
  BY <1>1, SavingFacts
<1>3. CASE Abandon
  BY <1>1, <1>3, AbandonFits
<1>4. CASE RequestTarget(Again, AgainAt)
  <2>1. AgainAt \in SavingPlaces /\ Fits(AgainAt, work, Again)
    BY <1>1, <1>2, AgainFits
  <2>2. QED
    BY <1>1, <1>4, <2>1, RequestTargetFits
<1>5. ASSUME NEW d \in Reachable, With([here EXCEPT !.device = d], "check save")
      PROVE  FlowInv'
  <2> DEFINE locals == [here EXCEPT !.device = d]
  <2>1. d \in DeviceReports /\ d.id \in Devices
    <3>1. d = Reported(here.device.id, here.device) \/ d = Found(here.device.id, FALSE)
      BY DEF Reachable
    <3>2. CastsOK
      BY BeforeFacts
    <3>3. CASE d = Reported(here.device.id, here.device)
      BY <1>2, <3>2, <3>3, ReportedTyped
    <3>4. CASE d = Found(here.device.id, FALSE)
      BY <1>2, <3>2, <3>4, FoundTyped
    <3>5. QED
      BY <3>1, <3>3, <3>4
  <2>2. locals \in Locals /\ locals.device = d /\ locals.tries = here.tries
    BY <1>2, <2>1 DEF Locals
  <2>3. With(locals, "check save")
    BY <1>5
  <2> HIDE DEF locals
  <2>4. Fits("check save", work, locals)
    BY <1>1, <1>2, <2>1, <2>2, SavingFits
  <2>5. QED
    BY <1>2, <2>3, <2>4, JoinWithFits
<1>6. CASE Fail([work EXCEPT !.joined = FALSE], TRUE)
  <2>1. [work EXCEPT !.joined = FALSE] \in Snapshots
    BY <1>2 DEF Snapshots
  <2>2. QED
    BY <1>6, <2>1, FailFits
<1>7. QED
  BY <1>3, <1>4, <1>5, <1>6 DEF Reach

LEMMA CheckSaveFits ==
    ASSUME Before, CheckSave, Untaken
    PROVE  FlowInv'
<1>1. pc \in {"check save", "check again"} /\ pc \in SavingPlaces
      /\ {"save", "end save"} \subseteq SavingPlaces
  BY DEF CheckSave, SavingPlaces
<1>2. /\ here \in Locals /\ here.device.id \in Devices /\ here.tries < SaveAttempts
      /\ {"save", "end save"} \subseteq JoinPlaces /\ pc \in JoinPlaces
  BY <1>1, SavingFacts
<1>3. CASE With([here EXCEPT !.saved = TRUE], "end save")
  <2> DEFINE locals == [here EXCEPT !.saved = TRUE]
  <2>1. locals \in Locals /\ locals.device = here.device
    BY <1>2 DEF Locals
  <2>2. With(locals, "end save")
    BY <1>3
  <2> HIDE DEF locals
  <2>3. Fits("end save", work, locals)
    BY <1>1, <1>2, <2>1, SavingFits
  <2>4. QED
    BY <1>2, <2>2, <2>3, JoinWithFits
<1>4. CASE With(here, "save")
  <2>1. Fits("save", work, here)
    BY <1>1, <1>2, SavingFits
  <2>2. QED
    BY <1>2, <1>4, <2>1, JoinWithFits
<1>5. CASE With(Again, AgainAt)
  BY <1>1, <1>2, <1>5, AgainFits, JoinWithFits
<1>6. QED
  BY <1>3, <1>4, <1>5 DEF CheckSave, Continue

LEMMA SaveFits ==
    ASSUME Before, Save, Untaken
    PROVE  FlowInv'
<1>1. pc = "save" /\ pc \in SavingPlaces /\ "check again" \in SavingPlaces
  BY DEF Save, SavingPlaces
<1>2. /\ here \in Locals /\ here.device \in DeviceReports /\ here.device.id \in Devices
      /\ here.tries < SaveAttempts /\ "check again" \in JoinPlaces /\ pc \in JoinPlaces
  BY <1>1, SavingFacts
<1>3. CASE With(Again, AgainAt)
  BY <1>1, <1>2, <1>3, AgainFits, JoinWithFits
<1>4. ASSUME NEW state \in States, With([here EXCEPT !.device.state = state], "check again")
      PROVE  FlowInv'
  <2> DEFINE locals == [here EXCEPT !.device.state = state]
  <2>1. locals \in Locals /\ locals.device.id = here.device.id /\ locals.tries = here.tries
    BY <1>2 DEF Locals, DeviceReports
  <2>2. With(locals, "check again")
    BY <1>4
  <2> HIDE DEF locals
  <2>3. Fits("check again", work, locals)
    BY <1>1, <1>2, <2>1, SavingFits
  <2>4. QED
    BY <1>2, <2>2, <2>3, JoinWithFits
<1>5. ASSUME NEW state, With([here EXCEPT !.device.state =
                                IF state \in ConnectedStates THEN state ELSE @], "check again")
      PROVE  FlowInv'
  <2> DEFINE now == IF state \in ConnectedStates THEN state ELSE here.device.state
  <2>1. now \in States
    BY <1>2 DEF DeviceReports, States
  <2>2. [here EXCEPT !.device.state = IF state \in ConnectedStates THEN state ELSE @]
          = [here EXCEPT !.device.state = now]
    BY <1>2 DEF Locals, DeviceReports
  <2> HIDE DEF now
  <2>3. QED
    BY <1>4, <1>5, <2>1, <2>2
<1>6. QED
  BY <1>3, <1>5 DEF Save

LEMMA EndSaveFits ==
    ASSUME Before, EndSave, Untaken
    PROVE  FlowInv'
<1>1. pc = "end save" /\ pc \in SavingPlaces /\ pc # "exited"
  BY DEF EndSave, SavingPlaces
<1>2. /\ here \in Locals /\ here.device.id \in Devices /\ work.stage = "saving"
      /\ work \in Snapshots /\ SavingPlaces \subseteq JoinPlaces
  BY <1>1, SavingFacts
<1>3. CASE Abandon
  BY <1>1, <1>3, AbandonFits
<1>4. CASE /\ known' = RememberAll(known, <<here.device.id>>)
           /\ elapsed' = 0
           /\ pc' = IF here.saved THEN "verify" ELSE "not saved"
           /\ UNCHANGED <<shared, work, here, held, android>>
  <2>1. known' \in Seq(Identified) /\ IsInjective(known')
    <3>1. <<here.device.id>> \in Seq(Devices) /\ IsInjective(<<here.device.id>>)
      BY <1>2 DEF IsInjective
    <3>2. QED
      BY <1>4, <3>1, BeforeFacts, RememberAllFacts
  <2>2. pc' \in {"verify", "not saved"} /\ pc' \in SavingPlaces
    BY <1>4 DEF SavingPlaces
  <2>3. Fits(pc', work, here)
    BY <1>1, <1>2, <2>2, SavingFits
  <2>4. pc' \notin ScanPlaces /\ pc' \notin Requests \cup {"waiting", "exited"}
    BY <2>2 DEF ScanPlaces, Requests
  <2>5. elapsed' \in 0 .. 2
    <3>1. elapsed' = 0
      BY <1>4
    <3>2. QED
      BY <3>1
  <2>6. /\ shared' = shared /\ work' = work /\ here' = here /\ held' = held /\ android' = android
    BY <1>4
  <2>7. shared.stage = "saving" /\ shared \in Snapshots
    BY <1>2, BeforeFacts
  <2>8. FlowOK'
    BY <1>2, <2>1, <2>3, <2>5, <2>6, <2>7 DEF FlowOK
  <2>9. WantsOK' /\ SettledOK'
    BY <2>6 DEF Before, FlowInv, WantsOK, SettledOK
  <2>10. HotspotOK' /\ DevicesListed'
    BY <1>2, <2>4, <2>6, <2>7 DEF HotspotOK, DevicesListed
  <2>11. ReportsOK'
    BY <2>4, <2>6 DEF Before, FlowInv, ReportsOK, NoSilentEnd, Untaken
  <2>12. QED
    BY <2>8, <2>9, <2>10, <2>11 DEF FlowInv
<1>5. QED
  BY <1>3, <1>4 DEF EndSave

LEMMA NotSavedFits ==
    ASSUME Before, NotSaved, Untaken
    PROVE  FlowInv'
  BY FailFits, BeforeFacts DEF NotSaved

LEMMA VerifyFits ==
    ASSUME Before, Verify \/ WaitVerify, Untaken
    PROVE  FlowInv'
<1>1. pc \in {"verify", "wait verify"} /\ pc \in SavingPlaces /\ pc # "exited"
      /\ {"verify", "wait verify"} \subseteq SavingPlaces
  BY DEF Verify, WaitVerify, Pause, SavingPlaces
<1>2. /\ here \in Locals /\ here.device.id \in Devices /\ {"verify", "wait verify"} \subseteq JoinPlaces
      /\ pc \in JoinPlaces
  BY <1>1, SavingFacts
<1>3. Fits("verify", work, here) /\ Fits("wait verify", work, here)
  BY <1>1, <1>2, SavingFits
<1>4. CASE WaitVerify
  BY <1>2, <1>3, <1>4, JoinPauseFits DEF WaitVerify
<1>5. CASE Verify
  <2>1. CASE Abandon
    BY <1>1, <2>1, AbandonFits
  <2>2. CASE With([here EXCEPT !.device = Found(here.device.id, FALSE)], "verify")
    <3> DEFINE device == Found(here.device.id, FALSE)
               locals == [here EXCEPT !.device = device]
    <3>1. device \in DeviceReports /\ device.id \in Devices
      BY <1>2, BeforeFacts, FoundTyped
    <3> HIDE DEF device
    <3>2. locals \in Locals /\ locals.device = device
      BY <1>2, <3>1 DEF Locals
    <3>3. With(locals, "verify")
      BY <2>2 DEF device
    <3> HIDE DEF locals
    <3>4. Fits("verify", work, locals)
      BY <1>1, <3>1, <3>2, SavingFits
    <3>5. QED
      BY <1>2, <3>3, <3>4, JoinWithFits
  <2>3. CASE RequestTarget(here, "wait verify")
    BY <1>1, <1>3, <2>3, RequestTargetFits
  <2>4. QED
    BY <1>5, <2>1, <2>2, <2>3 DEF Verify
<1>6. QED
  BY <1>4, <1>5

LEMMA DoneFits ==
    ASSUME Before, Done, Untaken
    PROVE  FlowInv'
<1>1. pc = "verify" /\ pc \in SavingPlaces /\ pc # "exited"
  BY DEF Done, SavingPlaces
<1>2. CASE Abandon
  BY <1>1, <1>2, AbandonFits
<1>3. CASE Fail(work, FALSE)
  BY <1>3, FailFits, BeforeFacts
<1>4. CASE /\ ReleaseRequests
           /\ Publish([work EXCEPT !.prompt = FALSE, !.device = here.device, !.stage = "done"])
           /\ Return
           /\ UNCHANGED known
  <2> DEFINE next == [work EXCEPT !.prompt = FALSE, !.device = here.device, !.stage = "done"]
  <2>1. next \in Snapshots /\ next.stage = "done" /\ ~next.prompt
    BY <1>1, SavingFacts DEF Snapshots, Stages
  <2>2. held' = NothingHeld /\ android' = {}
    BY <1>4, ReleaseReleases, BeforeFacts
  <2>3. Publish(next)
    BY <1>4
  <2> HIDE DEF next
  <2>4. shared'.stage = "done"
    BY <2>1, <2>3, BeforeFacts, PublishTyped DEF Snapshots
  <2>5. DevicesListed'
    BY <2>4 DEF DevicesListed
  <2>6. known' \in Seq(Identified) /\ IsInjective(known')
    BY <1>4, BeforeFacts
  <2>7. QED
    BY <1>4, <2>1, <2>2, <2>3, <2>5, <2>6, ReportFits
<1>5. QED
  BY <1>2, <1>3, <1>4 DEF Done
-------------------------------------------------------------------------------
(* The end of a search.                                                    *)

(* The devices found are listed first, in either order, then the silent.   *)
Reports(first, second, silent) ==
    [i \in DOMAIN first |-> Found(first[i], FALSE)] \o [i \in DOMAIN second |-> Found(second[i], TRUE)]
        \o [i \in DOMAIN silent |-> Remembered(silent[i])]

(* The list p says one thing of each device of the list s.                 *)
Names(p, s) ==
    /\ p \in Seq(DeviceReports) /\ s \in Seq(Devices) /\ Len(p) = Len(s)
    /\ \A i \in 1 .. Len(s) : p[i].id = s[i]

LEMMA NamesMapped ==
    ASSUME NEW s \in Seq(Devices), NEW f \in [Devices -> DeviceReports], \A x \in Devices : f[x].id = x
    PROVE  Names([i \in DOMAIN s |-> f[s[i]]], s)
<1> DEFINE p == [i \in DOMAIN s |-> f[s[i]]]
           n == Len(s)
<1>1. n \in Nat /\ DOMAIN s = 1 .. n /\ \A i \in 1 .. n : s[i] \in Devices
  OBVIOUS
<1>2. \A i \in 1 .. n : p[i] = f[s[i]]
  BY <1>1
<1>3. p \in [1 .. n -> DeviceReports]
  BY <1>1
<1> HIDE DEF p
<1>4. p \in Seq(DeviceReports) /\ Len(p) = n
  BY <1>1, <1>3
<1>5. \A i \in 1 .. n : p[i].id = s[i]
  BY <1>1, <1>2
<1>6. Names(p, s)
  BY <1>4, <1>5 DEF Names
<1>7. QED
  BY <1>6 DEF p

LEMMA NamesJoined ==
    ASSUME NEW p, NEW s, NEW q, NEW t, Names(p, s), Names(q, t)
    PROVE  Names(p \o q, s \o t)
<1>1. /\ p \in Seq(DeviceReports) /\ s \in Seq(Devices) /\ Len(p) = Len(s)
      /\ q \in Seq(DeviceReports) /\ t \in Seq(Devices) /\ Len(q) = Len(t)
      /\ \A i \in 1 .. Len(s) : p[i].id = s[i]
      /\ \A i \in 1 .. Len(t) : q[i].id = t[i]
  BY DEF Names
<1>2. /\ p \o q \in Seq(DeviceReports) /\ Len(p \o q) = Len(p) + Len(q)
      /\ \A i \in 1 .. Len(p) + Len(q) : (p \o q)[i] = IF i <= Len(p) THEN p[i] ELSE q[i - Len(p)]
  <2>1. p \in Seq(DeviceReports) /\ q \in Seq(DeviceReports)
    BY <1>1
  <2>2. QED
    BY <2>1, ConcatProperties
<1>3. /\ s \o t \in Seq(Devices) /\ Len(s \o t) = Len(s) + Len(t)
      /\ \A i \in 1 .. Len(s) + Len(t) : (s \o t)[i] = IF i <= Len(s) THEN s[i] ELSE t[i - Len(s)]
  <2>1. s \in Seq(Devices) /\ t \in Seq(Devices)
    BY <1>1
  <2>2. QED
    BY <2>1, ConcatProperties
<1> DEFINE m == Len(s)
           n == Len(t)
           pq == p \o q
           st == s \o t
<1>4. m \in Nat /\ n \in Nat
  BY <1>1
<1>5. \A i \in 1 .. m + n : /\ pq[i] = IF i <= m THEN p[i] ELSE q[i - m]
                            /\ st[i] = IF i <= m THEN s[i] ELSE t[i - m]
  BY <1>1, <1>2, <1>3
<1>6. /\ \A i \in 1 .. m : p[i].id = s[i]
      /\ \A i \in 1 .. n : q[i].id = t[i]
  BY <1>1
<1>7. pq \in Seq(DeviceReports) /\ st \in Seq(Devices) /\ Len(pq) = m + n /\ Len(st) = m + n
  BY <1>1, <1>2, <1>3
<1> HIDE DEF m, n, pq, st
<1>8. ASSUME NEW i \in 1 .. m + n PROVE pq[i].id = st[i]
  <2>1. i \in Nat /\ (i <= m => i \in 1 .. m) /\ (~(i <= m) => i - m \in 1 .. n)
    BY <1>4
  <2>2. CASE i <= m
    BY <1>5, <1>6, <2>1, <2>2
  <2>3. CASE ~(i <= m)
    BY <1>5, <1>6, <2>1, <2>3
  <2>4. QED
    BY <2>2, <2>3
<1>9. Names(pq, st)
  BY <1>7, <1>8 DEF Names
<1>10. QED
  BY <1>9 DEF pq, st

LEMMA NamesIds ==
    ASSUME NEW p, NEW s, Names(p, s)
    PROVE  p \in Seq(DeviceReports) /\ [i \in DOMAIN p |-> p[i].id] = s
<1> DEFINE n == Len(s)
<1>1. /\ p \in Seq(DeviceReports) /\ s \in Seq(Devices) /\ Len(p) = n /\ n \in Nat
      /\ \A i \in 1 .. n : p[i].id = s[i]
  BY DEF Names
<1>2. DOMAIN p = 1 .. n /\ s \in [1 .. n -> Devices]
  BY <1>1
<1> HIDE DEF n
<1>3. s = [i \in 1 .. n |-> s[i]]
  BY <1>2
<1>4. QED
  BY <1>1, <1>2, <1>3

LEMMA ReportsFacts ==
    ASSUME CastsOK, NEW first \in Seq(Devices), NEW second \in Seq(Devices), NEW silent \in Seq(Devices)
    PROVE  /\ Reports(first, second, silent) \in Seq(DeviceReports)
           /\ [i \in DOMAIN Reports(first, second, silent) |-> Reports(first, second, silent)[i].id]
                = first \o second \o silent
<1> DEFINE a == [i \in DOMAIN first |-> Found(first[i], FALSE)]
           b == [i \in DOMAIN second |-> Found(second[i], TRUE)]
           c == [i \in DOMAIN silent |-> Remembered(silent[i])]
           found(hotspot) == [x \in Devices |-> Found(x, hotspot)]
           remembered == [x \in Devices |-> Remembered(x)]
<1>1. \A hotspot \in BOOLEAN : /\ found(hotspot) \in [Devices -> DeviceReports]
                               /\ \A x \in Devices : found(hotspot)[x].id = x
  BY FoundTyped
<1>2. \A x \in Devices : Remembered(x) \in DeviceReports /\ Remembered(x).id = x
  BY Empties DEF Remembered, DeviceReports
<1>3. remembered \in [Devices -> DeviceReports] /\ \A x \in Devices : remembered[x].id = x
  BY <1>2
<1>4. a = [i \in DOMAIN first |-> found(FALSE)[first[i]]]
  <2>1. \A i \in DOMAIN first : first[i] \in Devices
    OBVIOUS
  <2>2. QED
    BY <2>1
<1>5. b = [i \in DOMAIN second |-> found(TRUE)[second[i]]]
  <2>1. \A i \in DOMAIN second : second[i] \in Devices
    OBVIOUS
  <2>2. QED
    BY <2>1
<1>6. c = [i \in DOMAIN silent |-> remembered[silent[i]]]
  <2>1. \A i \in DOMAIN silent : silent[i] \in Devices
    OBVIOUS
  <2>2. QED
    BY <2>1
<1> HIDE DEF found, remembered
<1>7. Names(a, first) /\ Names(b, second) /\ Names(c, silent)
  <2>1. Names(a, first)
    <3>1. Names([i \in DOMAIN first |-> found(FALSE)[first[i]]], first)
      BY <1>1, NamesMapped
    <3>2. QED
      BY <1>4, <3>1
  <2>2. Names(b, second)
    <3>1. Names([i \in DOMAIN second |-> found(TRUE)[second[i]]], second)
      BY <1>1, NamesMapped
    <3>2. QED
      BY <1>5, <3>1
  <2>3. Names(c, silent)
    <3>1. Names([i \in DOMAIN silent |-> remembered[silent[i]]], silent)
      BY <1>3, NamesMapped
    <3>2. QED
      BY <1>6, <3>1
  <2>4. QED
    BY <2>1, <2>2, <2>3
<1>8. Reports(first, second, silent) = a \o b \o c
  BY DEF Reports
<1> HIDE DEF a, b, c
<1>9. Names(a \o b \o c, first \o second \o silent)
  BY <1>7, NamesJoined
<1> DEFINE all == a \o b \o c
           ids == first \o second \o silent
<1>10. Names(all, ids) /\ Reports(first, second, silent) = all
  BY <1>8, <1>9
<1> HIDE DEF all, ids
<1>11. all \in Seq(DeviceReports) /\ [i \in DOMAIN all |-> all[i].id] = ids
  BY <1>10, NamesIds
<1>12. QED
  BY <1>10, <1>11 DEF ids

LEMMA ListDevicesFits ==
    ASSUME Before, ListDevices, Untaken
    PROVE  FlowInv'
<1>1. PICK lan, hot, first, second, order :
         /\ lan \in SUBSET Devices /\ hot \in SUBSET Devices /\ lan \cap hot = {}
         /\ first \in Orders(lan) /\ second \in Orders(hot) /\ order \in Orders(lan \cup hot)
         /\ known' = RememberAll(known, order)
         /\ Publish([work EXCEPT !.stage = "devices",
              !.devices = Reports(first, second, Those(known', Range(known') \ (lan \cup hot)))])
  <2>1. PICK lan \in SUBSET OnLan : \E hot \in SUBSET HotspotOnly(lan) :
           \E first \in Orders(lan), second \in Orders(hot), order \in Orders(lan \cup hot) :
             /\ known' = RememberAll(known, order)
             /\ Publish([work EXCEPT !.stage = "devices",
                  !.devices = Reports(first, second, Those(known', Range(known') \ (lan \cup hot)))])
    BY DEF ListDevices, Reports
  <2>2. PICK hot \in SUBSET HotspotOnly(lan) :
           \E first \in Orders(lan), second \in Orders(hot), order \in Orders(lan \cup hot) :
             /\ known' = RememberAll(known, order)
             /\ Publish([work EXCEPT !.stage = "devices",
                  !.devices = Reports(first, second, Those(known', Range(known') \ (lan \cup hot)))])
    BY <2>1
  <2>3. lan \in SUBSET Devices /\ hot \in SUBSET Devices /\ lan \cap hot = {}
    BY Reaches DEF HotspotOnly
  <2>4. QED
    BY <2>2, <2>3
<1> DEFINE met == lan \cup hot
           silent == Those(known', Range(known') \ met)
           devices == Reports(first, second, silent)
           both == first \o second
           ids == both \o silent
           next == [work EXCEPT !.stage = "devices", !.devices = devices]
<1>2. lan \in SUBSET Devices /\ hot \in SUBSET Devices /\ lan \cap hot = {}
  BY <1>1
<1>3. /\ first \in Seq(Devices) /\ IsInjective(first) /\ Range(first) = lan
      /\ second \in Seq(Devices) /\ IsInjective(second) /\ Range(second) = hot
      /\ order \in Seq(Devices) /\ IsInjective(order) /\ Range(order) = met
  BY <1>1, <1>2, OrdersFacts
<1>4. /\ known' \in Seq(Identified) /\ IsInjective(known')
      /\ Range(known') = Range(known) \cup (met \cap Identified)
  BY <1>1, <1>3, BeforeFacts, RememberAllFacts
<1> HIDE DEF met
<1>5. /\ silent \in Seq(Devices) /\ IsInjective(silent)
      /\ Range(silent) = Range(known') \cap (Range(known') \ met)
  BY <1>4, KnownAreDevices, ThoseFacts
<1> HIDE DEF silent
<1>6. both \in Seq(Devices) /\ IsInjective(both) /\ Range(both) = met
  BY <1>2, <1>3, Concats DEF met
<1> HIDE DEF both
<1>7. Range(both) \cap Range(silent) = {}
  BY <1>5, <1>6
<1>8. ids \in Seq(Devices) /\ IsInjective(ids) /\ Range(ids) = met \cup Range(silent)
  BY <1>5, <1>6, <1>7, Concats
<1>9. Range(ids) \cap Identified = Range(known')
  BY <1>4, <1>5, <1>8, KnownAreDevices
<1>10. devices \in Seq(DeviceReports) /\ [i \in DOMAIN devices |-> devices[i].id] = ids
  BY <1>3, <1>5, BeforeFacts, ReportsFacts DEF both
<1> HIDE DEF devices, ids
<1>11. next \in Snapshots /\ next.stage = "devices" /\ next.devices = devices /\ next.prompt = work.prompt
  BY <1>10, BeforeFacts DEF Snapshots, Stages
<1>12. Publish(next)
  BY <1>1 DEF devices, silent, met
<1> HIDE DEF next
<1>13. shared'.devices = devices
  BY <1>11, <1>12, BeforeFacts, PublishTyped DEF Snapshots
<1>14. DevicesListed'
  <2>1. Len(ids) = Cardinality(Range(ids))
    BY <1>8, Lengths
  <2>2. [i \in DOMAIN shared'.devices |-> shared'.devices[i].id] = ids
    BY <1>10, <1>13
  <2>3. QED
    BY <1>9, <2>1, <2>2 DEF DevicesListed
<1>15. held = NothingHeld /\ ~work.prompt
  <2>1. pc = "list" /\ pc \in SearchPlaces
    BY DEF ListDevices, SearchPlaces
  <2>2. work.stage = "searching"
    BY <2>1, BeforeFacts DEF Fits, Announced
  <2>3. QED
    BY <2>2 DEF Before, FlowInv, SettledOK, Settled
<1>16. held' = NothingHeld /\ android' = {} /\ Return
  <2>1. android = {}
    BY <1>15, BeforeFacts DEF HeldOK, NothingHeld, OnlyHotspot, OnlyTarget, NoRequest
  <2>2. QED
    BY <1>15, <2>1 DEF ListDevices
<1>17. QED
  BY <1>4, <1>11, <1>12, <1>14, <1>15, <1>16, ReportFits
-------------------------------------------------------------------------------
(* run() and its clients.                                                  *)
LEMMA StopFits ==
    ASSUME Before, Stop, Untaken
    PROVE  FlowInv'
<1>1. /\ held' = NothingHeld /\ android' = {} /\ pc' = "exited"
      /\ work' = [work EXCEPT !.prompt = FALSE]
      /\ shared' = shared /\ here' = here /\ elapsed' = elapsed /\ known' = known
  BY ReleaseReleases, BeforeFacts DEF Stop
<1>2. work' \in Snapshots /\ work'.stage = work.stage /\ ~work'.prompt
  BY <1>1, BeforeFacts DEF Snapshots
<1>3. Fits("exited", work', here)
  BY <1>2, BeforeFacts, Kinds
  DEF Fits, Announced, Counted, SearchPlaces, ScanPlaces, JoinPlaces, FindingPlaces, SavingPlaces
<1>4. FlowOK'
  BY <1>1, <1>2, <1>3, BeforeFacts DEF FlowOK
<1>5. WantsOK' /\ SettledOK'
  BY <1>1, <1>2 DEF WantsOK, SettledOK, Before, FlowInv
<1>6. HotspotOK' /\ DevicesListed'
  BY <1>1 DEF HotspotOK, DevicesListed, ScanPlaces, Before, FlowInv
<1>7. ReportsOK'
  BY <1>1 DEF ReportsOK, NoSilentEnd, Requests, Untaken, Before, FlowInv
<1>8. QED
  BY <1>4, <1>5, <1>6, <1>7 DEF FlowInv

LEMMA TakeFits ==
    ASSUME Before, Take
    PROVE  FlowInv' /\ NumbersOK'
<1> DEFINE locals == [Nowhere EXCEPT !.argument = slot.argument, !.password = slot.password]
<1>1. /\ pc = "waiting" /\ slot.command # "none" /\ slot' = Taken(slot) /\ current' = slot.pending
      /\ here' = locals /\ pc' = slot.command
      /\ UNCHANGED <<shared, work, elapsed, known, held, android>>
  BY DEF Take, With
<1>2. /\ slot \in Slots(Int, Passphrases \cup {NoPassword}) /\ slot.command \in Requests \cup {"stop"}
      /\ current \in Nat /\ current <= slot.pending /\ slot.pending <= slot.sequence
      /\ slot.command \in Requests => current < slot.pending
      /\ slot.pending \in Nat /\ slot.sequence \in Nat
  BY <1>1 DEF Before, NumbersOK, Slots, Commands
<1>3. locals \in Locals
  BY <1>2, Empties DEF Locals, Slots, Nowhere
<1> HIDE DEF locals
<1>4. /\ pc' \in Labels /\ pc' # "waiting" /\ pc' # "exited"
      /\ pc' \notin SearchPlaces \cup ScanPlaces \cup JoinPlaces
           \cup {"contact", "hotspot", "ask", "poll hotspot", "wait hotspot"}
  BY <1>1, <1>2 DEF Requests, Labels, Commands, SearchPlaces, ScanPlaces, JoinPlaces,
                    FindingPlaces, SavingPlaces
<1>5. Fits(pc', work, locals)
  BY <1>3, <1>4, BeforeFacts
  DEF Fits, Announced, Counted, SearchPlaces, ScanPlaces, JoinPlaces, FindingPlaces, SavingPlaces
<1>6. FlowOK'
  BY <1>1, <1>5, BeforeFacts DEF FlowOK
<1>7. WantsOK' /\ SettledOK' /\ DevicesListed'
  BY <1>1 DEF WantsOK, SettledOK, DevicesListed, Before, FlowInv
<1>8. HotspotOK'
  BY <1>1, <1>4 DEF HotspotOK, Before, FlowInv
<1>9. ReportsOK'
  <2>1. shared.command <= current /\ shared.command \in Nat
    BY BeforeFacts DEF Before, FlowInv, ReportsOK, Snapshots
  <2> DEFINE m == shared.command
             n == slot.pending
  <2>2. m \in Nat /\ n \in Nat /\ current \in Nat /\ m <= current /\ current <= n
        /\ (slot.command \in Requests => current < n)
    BY <1>2, <2>1
  <2> HIDE DEF m, n
  <2>3. m <= n /\ (slot.command \in Requests => m < n)
    BY <2>2
  <2>4. shared'.command = m /\ current' = n
    BY <1>1 DEF m, n
  <2>5. QED
    BY <1>1, <1>4, <2>3, <2>4 DEF ReportsOK, NoSilentEnd
<1>10. NumbersOK'
  <2>1. /\ slot' \in Slots(Int, Passphrases \cup {NoPassword}) /\ slot'.command = "none"
        /\ slot'.interrupted = FALSE /\ slot'.pending = slot.pending /\ slot'.sequence = slot.sequence
    BY <1>1, <1>2 DEF Taken, Slots, Commands
  <2>2. QED
    BY <1>1, <1>2, <2>1 DEF NumbersOK, Requests
<1>11. QED
  BY <1>6, <1>7, <1>8, <1>9, <1>10 DEF FlowInv

(* A step of the session's owner changes the slot alone.                   *)
LEMMA OwnerFits ==
    ASSUME Before, slot'.command # "none", NumbersOK',
           UNCHANGED <<shared, work, current, known, held, pc, here, elapsed, android>>
    PROVE  FlowInv'
<1> USE DEF Before, FlowInv
<1>1. FlowOK' /\ WantsOK' /\ SettledOK' /\ HotspotOK' /\ DevicesListed'
  BY DEF FlowOK, WantsOK, SettledOK, HotspotOK, DevicesListed
<1>2. ReportsOK'
  BY DEF ReportsOK, NoSilentEnd
<1>3. QED
  BY <1>1, <1>2

LEMMA CommandFits ==
    ASSUME Before, NEW command \in Requests, NEW argument \in Int,
           NEW password \in Passphrases \cup {NoPassword}, Command(command, argument, password)
    PROVE  FlowInv' /\ NumbersOK'
<1>1. /\ slot.command # "stop" /\ slot' = Sent(slot, command, argument, password)
      /\ UNCHANGED <<shared, work, current, known, held, pc, here, elapsed, android>>
  BY DEF Command, Alive, Continue, With
<1>2. /\ slot \in Slots(Int, Passphrases \cup {NoPassword}) /\ current \in Nat
      /\ current <= slot.pending /\ slot.pending <= slot.sequence
      /\ slot.pending \in Nat /\ slot.sequence \in Nat
  BY DEF Before, NumbersOK, Slots
<1> DEFINE n == slot.sequence
           m == slot.pending
<1>3. slot' = [command |-> command, argument |-> argument, password |-> password,
               sequence |-> n + 1, pending |-> n + 1, interrupted |-> TRUE]
  BY <1>1 DEF Sent
<1>4. n \in Nat /\ m \in Nat /\ current \in Nat /\ current <= m /\ m <= n
  BY <1>2
<1> HIDE DEF n, m
<1>5. n + 1 \in Nat /\ current < n + 1 /\ current <= n + 1 /\ n + 1 <= n + 1
  BY <1>4
<1>6. command \in Commands /\ command # "none"
  BY DEF Commands, Requests
<1>7. slot' \in Slots(Int, Passphrases \cup {NoPassword})
  BY <1>3, <1>5, <1>6 DEF Slots
<1>8. slot'.command = command /\ slot'.pending = n + 1 /\ slot'.sequence = n + 1 /\ slot'.interrupted = TRUE
  BY <1>3
<1>9. NumbersOK'
  BY <1>1, <1>2, <1>5, <1>6, <1>7, <1>8 DEF NumbersOK
<1>10. QED
  BY <1>1, <1>6, <1>8, <1>9, OwnerFits

LEMMA DestroyFits ==
    ASSUME Before, Destroy
    PROVE  FlowInv' /\ NumbersOK'
<1>1. /\ slot' = Stopped(slot)
      /\ UNCHANGED <<shared, work, current, known, held, pc, here, elapsed, android>>
  BY DEF Destroy, Continue, With
<1>2. /\ slot' \in Slots(Int, Passphrases \cup {NoPassword}) /\ slot'.command = "stop"
      /\ slot'.pending = slot.pending /\ slot'.sequence = slot.sequence /\ slot'.interrupted = TRUE
  BY <1>1 DEF Stopped, Slots, Commands, Before, NumbersOK
<1>3. NumbersOK'
  BY <1>1, <1>2 DEF Before, NumbersOK, Requests
<1>4. QED
  BY <1>1, <1>2, <1>3, OwnerFits

LEMMA TickFits ==
    ASSUME Before, Tick
    PROVE  FlowInv' /\ NumbersOK'
<1>1. elapsed' \in 0 .. 2
  <2>1. elapsed \in 0 .. 2 /\ elapsed < 2 /\ elapsed' = elapsed + 1
    BY BeforeFacts DEF Tick
  <2>2. QED
    BY <2>1
<1>2. UNCHANGED <<slot, current, shared, work, here, pc, known, held, android>>
  BY DEF Tick
<1> USE DEF Before, FlowInv
<1>3. FlowOK' /\ WantsOK' /\ SettledOK' /\ HotspotOK' /\ DevicesListed'
  BY <1>1, <1>2 DEF FlowOK, WantsOK, SettledOK, HotspotOK, DevicesListed
<1>4. ReportsOK' /\ NumbersOK'
  BY <1>2 DEF ReportsOK, NoSilentEnd, NumbersOK
<1>5. QED
  BY <1>3, <1>4
-------------------------------------------------------------------------------
(* The Chromecasts.                                                        *)
LEMMA CastChanged ==
    ASSUME CastsOK, NEW x, NEW c, x \in Devices => c \in Casts, cast' = [cast EXCEPT ![x] = c]
    PROVE  CastsOK'
  BY DEF CastsOK

LEMMA CastFields ==
    ASSUME CastsOK, NEW x \in Devices
    PROVE  cast[x] \in Casts
  BY DEF CastsOK

LEMMA ConnectCasts ==
    ASSUME Before, Connect
    PROVE  CastsOK'
<1>1. CastsOK /\ pc = "connect" /\ pc \in JoinPlaces
  BY BeforeFacts DEF Connect, JoinPlaces
<1>2. work.target \in Networks /\ here \in Locals /\ here.device.id \in Devices
      /\ here.device \in DeviceReports
  BY <1>1, JoiningFacts
<1>3. ASSUME NEW keep \in {FALSE, here.device.hotspot}, cast' = Configured(here.device.id, keep)
      PROVE  CastsOK'
  <2> DEFINE x == here.device.id
             good == (work.target \in Unsecured \/ here.password = "right")
             c == [cast[x] EXCEPT !.trying = work.target, !.good = good, !.keep = keep]
  <2>1. keep \in BOOLEAN /\ good \in BOOLEAN
    BY <1>2 DEF DeviceReports
  <2> HIDE DEF good
  <2>2. cast[x] \in Casts
    BY <1>1, <1>2, CastFields
  <2>3. c \in Casts
    BY <1>2, <2>1, <2>2 DEF Casts
  <2>4. cast' = [cast EXCEPT ![x] = c]
    BY <1>1, <1>2, <1>3, <2>2 DEF Configured, CastsOK, Casts, good
  <2> HIDE DEF c, x
  <2>5. QED
    BY <1>1, <2>3, <2>4, CastChanged
<1>4. CASE UNCHANGED cast
  BY <1>1, <1>4 DEF CastsOK
<1>5. QED
  BY <1>3, <1>4 DEF Connect

LEMMA SaveCasts ==
    ASSUME Before, Save
    PROVE  CastsOK'
<1>1. CastsOK
  BY BeforeFacts
<1>2. ASSUME NEW x \in Devices, cast' \in SavedBy(x) PROVE CastsOK'
  <2>1. CASE cast' = cast
    BY <1>1, <2>1 DEF CastsOK
  <2>2. ASSUME NEW state \in {"connected", "saved", "pending"}, cast[x].state = "unsaved",
               cast' = [cast EXCEPT ![x].saved = @ \cup {cast[x].ssid}, ![x].state = state,
                                    ![x].hotspot = FALSE]
        PROVE  CastsOK'
    <3> DEFINE c == [cast[x] EXCEPT !.saved = @ \cup {cast[x].ssid}, !.state = state, !.hotspot = FALSE]
    <3>1. cast[x] \in Casts
      BY <1>1, CastFields
    <3>2. cast[x].ssid \in Networks /\ state \in States
      BY <2>2, <3>1 DEF Casts, ConnectedStates, States
    <3>3. c \in Casts
      BY <3>1, <3>2 DEF Casts
    <3>4. cast' = [cast EXCEPT ![x] = c]
      BY <1>1, <2>2, <3>1 DEF CastsOK, Casts
    <3> HIDE DEF c
    <3>5. QED
      BY <1>1, <3>3, <3>4, CastChanged
  <2>3. QED
    BY <1>2, <2>1, <2>2 DEF SavedBy
<1>3. CASE UNCHANGED cast
  BY <1>1, <1>3 DEF CastsOK
<1>4. QED
  BY <1>2, <1>3, Reaches DEF Save

LEMMA WorldCasts ==
    ASSUME CastsOK, NEW x \in Devices, CastLeaves(x) \/ CastSettles(x) \/ CastDrops(x)
    PROVE  CastsOK'
<1> DEFINE d == cast[x]
<1>1. d \in Casts
  BY CastFields
<1>2. CASE CastLeaves(x)
  <2> DEFINE c == [d EXCEPT !.state = "joining", !.ssid = NoNetwork, !.hotspot = @ /\ d.keep]
  <2>1. cast' = [cast EXCEPT ![x] = c]
    BY <1>1, <1>2 DEF CastLeaves, CastsOK, Casts
  <2>2. (d.hotspot /\ d.keep) \in BOOLEAN
    BY <1>1 DEF Casts
  <2>3. c \in Casts
    BY <1>1, <2>2 DEF Casts, States, ConnectedStates, FailedStates
  <2> HIDE DEF c
  <2>4. QED
    BY <2>1, <2>3, CastChanged
<1>3. CASE CastDrops(x)
  <2> DEFINE c == [d EXCEPT !.ssid = NoNetwork, !.state = "idle", !.hotspot = TRUE]
  <2>1. cast' = [cast EXCEPT ![x] = c]
    BY <1>1, <1>3 DEF CastDrops, CastsOK, Casts
  <2>2. c \in Casts
    BY <1>1 DEF Casts, States, ConnectedStates, FailedStates
  <2> HIDE DEF c
  <2>3. QED
    BY <2>1, <2>2, CastChanged
<1>4. CASE CastSettles(x)
  <2>1. PICK c \in CastOutcomes(d) :
           cast' = [cast EXCEPT ![x] = [c EXCEPT !.trying = NoNetwork, !.good = FALSE, !.keep = FALSE]]
    BY <1>4 DEF CastSettles
  <2>2. d.trying \in Networks /\ d.saved \subseteq Networks /\ d.state = "joining"
    BY <1>1, <1>4 DEF CastSettles, Casts
  <2>3. c \in Casts
    <3> HIDE DEF d
    <3>1. CASE c = [d EXCEPT !.state = "wrong", !.hotspot = TRUE]
      BY <1>1, <3>1 DEF Casts, States, ConnectedStates, FailedStates
    <3>2. CASE c = [d EXCEPT !.ssid = d.trying,
                             !.state = IF d.trying \in d.saved THEN "connected" ELSE "unsaved"]
      BY <1>1, <2>2, <3>2 DEF Casts, States, ConnectedStates, FailedStates
    <3>3. CASE c = [d EXCEPT !.ssid = d.trying, !.state = "failed"]
      BY <1>1, <2>2, <3>3 DEF Casts, States, ConnectedStates, FailedStates
    <3>4. CASE c = [d EXCEPT !.state = "failed", !.hotspot = TRUE]
      BY <1>1, <3>4 DEF Casts, States, ConnectedStates, FailedStates
    <3>5. ASSUME NEW n \in d.saved, c = [d EXCEPT !.ssid = n, !.state = "connected", !.hotspot = FALSE]
          PROVE  c \in Casts
      <4>1. n \in Networks
        BY <2>2
      <4>2. QED
        BY <1>1, <3>5, <4>1 DEF Casts, States, ConnectedStates, FailedStates
    <3>6. QED
      BY <2>1, <3>1, <3>2, <3>3, <3>4, <3>5 DEF CastOutcomes
  <2>4. [c EXCEPT !.trying = NoNetwork, !.good = FALSE, !.keep = FALSE] \in Casts
    BY <2>3 DEF Casts
  <2>5. QED
    BY <2>1, <2>4, CastChanged
<1>5. QED
  BY <1>2, <1>3, <1>4

LEMMA WorldFits ==
    ASSUME Before, World
    PROVE  FlowInv' /\ NumbersOK' /\ CastsOK'
<1>1. UNCHANGED <<slot, current, shared, work, here, elapsed, known, held, pc, android>>
  BY DEF World
<1>2. CastsOK'
  BY WorldCasts, BeforeFacts DEF World
<1> USE DEF Before, FlowInv
<1>3. FlowOK' /\ WantsOK' /\ SettledOK' /\ HotspotOK' /\ DevicesListed'
  BY <1>1 DEF FlowOK, WantsOK, SettledOK, HotspotOK, DevicesListed
<1>4. ReportsOK' /\ NumbersOK'
  BY <1>1 DEF ReportsOK, NoSilentEnd, NumbersOK
<1>5. QED
  BY <1>2, <1>3, <1>4
-------------------------------------------------------------------------------
(* All of it.                                                              *)
LEMMA FlowFits ==
    ASSUME Before, PlaceOK, Flow \/ Connect \/ Save, Untaken
    PROVE  FlowInv'
<1>1. CASE RunSearch \/ Discover \/ ListDevices \/ RunOpen \/ Rescan \/ Contact \/ Stop
  BY <1>1, RunSearchFits, DiscoverFits, ListDevicesFits, OpeningFits, ContactFits, StopFits
<1>2. CASE JoinHotspot \/ AskForHotspot \/ PollHotspot \/ WaitHotspot
           \/ Scan \/ StartScan \/ WaitScan \/ ReadScan
  BY <1>2, JoinHotspotFits, AskForHotspotFits, PollHotspotFits, ScanFits, StartScanFits, ReadScanFits
<1>3. CASE RunJoin \/ Send \/ Connect \/ WaitJoin \/ ReadJoin \/ EndJoin \/ Find \/ WaitFind
  BY <1>3, RunJoinFits, SendFits, ConnectFits, WaitJoinFits, ReadJoinFits, EndJoinFits, FindingFits
<1>4. CASE WaitSave \/ Reach \/ CheckSave \/ Save \/ EndSave \/ NotSaved \/ Verify \/ WaitVerify \/ Done
  BY <1>4, WaitSaveFits, ReachFits, CheckSaveFits, SaveFits, EndSaveFits, NotSavedFits, VerifyFits,
     DoneFits
<1>5. QED
  BY <1>1, <1>2, <1>3, <1>4 DEF Flow

FullInv == IInv /\ FlowInv /\ NumbersOK /\ CastsOK

LEMMA InitFits == Init => FullInv
<1> SUFFICES ASSUME Init PROVE FullInv
  OBVIOUS
<1> USE DEF Init
<1>1. CastsOK
  BY ConstantsAssumption DEF CastsOK
<1>2. NumbersOK
  BY DEF NumbersOK, Slots, EmptySlot, Commands, Requests, NoArgument
<1>3. Fits("waiting", NoSnapshot, Nowhere)
  BY Empties, Kinds
  DEF Fits, Announced, Counted, SearchPlaces, ScanPlaces, JoinPlaces, FindingPlaces, SavingPlaces
<1>4. FlowOK
  BY <1>3, Empties, ConstantsAssumption DEF FlowOK
<1>5. WantsOK /\ SettledOK
  BY DEF WantsOK, SettledOK, NoSnapshot
<1>6. HotspotOK /\ DevicesListed
  BY DEF HotspotOK, DevicesListed, NoSnapshot, ScanPlaces
<1>7. ReportsOK
  BY DEF ReportsOK, NoSilentEnd, NoSnapshot, Requests
<1>8. QED
  BY <1>1, <1>2, <1>4, <1>5, <1>6, <1>7, InitEstablishesIInv DEF FullInv, FlowInv

(* The steps of the worker, the clock and the Chromecasts, and any command *)
(* that a client may send.                                                 *)
LEMMA BeforeHolds == FullInv => Before /\ PlaceOK
  BY DEF FullInv, Before, IInv

LEMMA NumbersStay ==
    ASSUME NumbersOK, Untaken
    PROVE  NumbersOK'
  BY DEF NumbersOK, Untaken

LEMMA WorkerFits ==
    ASSUME FullInv, Worker
    PROVE  FlowInv' /\ NumbersOK' /\ CastsOK'
<1>1. Before /\ PlaceOK /\ NumbersOK /\ CastsOK
  BY BeforeHolds DEF FullInv
<1>2. CASE Take
  BY <1>1, <1>2, TakeFits DEF Take, CastsOK
<1>3. CASE Flow /\ UNCHANGED <<slot, current, cast>>
  <2>1. Untaken /\ CastsOK'
    BY <1>1, <1>3 DEF Untaken, CastsOK
  <2>2. QED
    BY <1>1, <1>3, <2>1, FlowFits, NumbersStay
<1>4. CASE (Connect \/ Save) /\ UNCHANGED <<slot, current>>
  <2>1. Untaken
    BY <1>4 DEF Untaken
  <2>2. QED
    BY <1>1, <1>4, <2>1, FlowFits, NumbersStay, ConnectCasts, SaveCasts
<1>5. QED
  BY <1>2, <1>3, <1>4 DEF Worker

LEMMA ClientFits ==
    ASSUME FullInv, Client
    PROVE  FlowInv' /\ NumbersOK' /\ CastsOK'
<1>1. Before /\ CastsOK
  BY BeforeHolds DEF FullInv
<1>2. CastsOK'
  BY <1>1 DEF Client, Command, Destroy, CastsOK
<1>3. /\ NoArgument \in Int /\ NoPassword \in Passphrases \cup {NoPassword}
      /\ Requests = {"search", "open", "rescan", "join"}
  BY DEF NoArgument, Requests
<1>4. CASE Command("search", NoArgument, NoPassword) \/ Command("rescan", NoArgument, NoPassword)
  BY <1>1, <1>2, <1>3, <1>4, CommandFits
<1>5. ASSUME NEW i \in (1 .. Cardinality(Devices)) \cup {NoArgument}, Command("open", i, NoPassword)
      PROVE  FlowInv' /\ NumbersOK'
  <2>1. i \in Int
    BY <1>3, ConstantsAssumption, FS_CardinalityType
  <2>2. QED
    BY <1>1, <1>3, <1>5, <2>1, CommandFits
<1>6. ASSUME NEW i \in DOMAIN shared.networks, NEW p \in Passphrases, Command("join", i, p)
      PROVE  FlowInv' /\ NumbersOK'
  <2>1. shared.networks \in Seq(Networks)
    BY <1>1, BeforeFacts DEF Snapshots
  <2>2. i \in Int
    BY <2>1
  <2>3. QED
    BY <1>1, <1>3, <1>6, <2>2, CommandFits
<1>7. CASE Destroy
  BY <1>1, <1>2, <1>7, DestroyFits
<1>8. QED
  BY <1>2, <1>4, <1>5, <1>6, <1>7 DEF Client

LEMMA StepFits == FullInv /\ [Next]_vars => FullInv'
<1> SUFFICES ASSUME FullInv, [Next]_vars PROVE FullInv'
  OBVIOUS
<1>1. IInv'
  BY StepPreservesIInv DEF FullInv
<1>2. Before /\ CastsOK
  BY BeforeHolds DEF FullInv
<1>3. ASSUME Tick PROVE FlowInv' /\ NumbersOK' /\ CastsOK'
  BY <1>2, <1>3, TickFits DEF Tick, CastsOK
<1>4. ASSUME UNCHANGED vars PROVE FlowInv' /\ NumbersOK' /\ CastsOK'
  <2>1. UNCHANGED <<slot, shared, work, current, known, held, pc, here, elapsed, android, cast>>
    BY <1>4 DEF vars
  <2>2. FlowOK' /\ WantsOK' /\ SettledOK' /\ HotspotOK' /\ DevicesListed'
    BY <1>2, <2>1 DEF Before, FlowInv, FlowOK, WantsOK, SettledOK, HotspotOK, DevicesListed
  <2>3. ReportsOK' /\ NumbersOK' /\ CastsOK'
    BY <1>2, <2>1 DEF Before, FlowInv, ReportsOK, NoSilentEnd, NumbersOK, CastsOK
  <2>4. QED
    BY <2>2, <2>3 DEF FlowInv
<1>5. FlowInv' /\ NumbersOK' /\ CastsOK'
  BY <1>2, <1>3, <1>4, WorkerFits, ClientFits, WorldFits DEF Next
<1>6. QED
  BY <1>1, <1>5 DEF FullInv

LEMMA FullInvariant == Spec => []FullInv
<1>1. Init => FullInv
  BY InitFits
<1>2. FullInv /\ [Next]_vars => FullInv'
  BY StepFits
<1>3. QED
  BY <1>1, <1>2, PTL DEF Spec

(* Snapshots, locals, requests, the slot and the Chromecasts have their    *)
(* types: no flow joins a network that is not listed, opens a device that  *)
(* cannot be, or counts an attempt too many (session.cc).                  *)
THEOREM TypesKept == Spec => []TypeOK
<1>1. FullInv => TypeOK
  <2> SUFFICES ASSUME FullInv PROVE TypeOK
    OBVIOUS
  <2>1. /\ slot \in Slots(Int, Passphrases \cup {NoPassword}) /\ current \in Nat
        /\ cast \in [Devices -> Casts]
    BY DEF FullInv, NumbersOK, CastsOK
  <2>2. /\ shared \in Snapshots /\ work \in Snapshots /\ here \in Locals /\ pc \in Labels
        /\ known \in Seq(Identified) /\ elapsed \in 0 .. 2 /\ HeldOK
    BY BeforeHolds, BeforeFacts
  <2>3. held \in [hotspot : {NoRequest, 0}, target : {NoRequest, 0}]
    BY <2>2 DEF HeldOK, NothingHeld, OnlyHotspot, OnlyTarget
  <2>4. \A r \in android : r.wants \in Wanted
    BY DEF FullInv, FlowInv, WantsOK
  <2>5. QED
    BY <2>1, <2>2, <2>3, <2>4 DEF TypeOK, Wanted
<1>2. QED
  BY <1>1, FullInvariant, PTL

(* What the screen shows at rest leaves no Wi-Fi request behind and no     *)
(* prompt announced, on every path through every flow (fail(), run_search()*)
(* and the end of finish()).                                               *)
THEOREM RequestsSettled == Spec => []SettledReleases
<1>1. FullInv => SettledReleases
  <2> SUFFICES ASSUME FullInv, shared.stage \in {"searching", "devices", "done", "failed"}
               PROVE  android = {} /\ ~shared.prompt
    BY DEF SettledReleases
  <2>1. work.stage = shared.stage /\ HeldOK
    BY BeforeHolds, BeforeFacts
  <2>2. held = NothingHeld /\ ~shared.prompt
    BY <2>1 DEF FullInv, FlowInv, SettledOK, Settled
  <2>3. QED
    BY <2>1, <2>2 DEF HeldOK, NothingHeld, OnlyHotspot, OnlyTarget, NoRequest
<1>2. QED
  BY <1>1, FullInvariant, PTL

(* Networks listed over a hotspot stay joinable: the phone keeps the       *)
(* request that holds it, through a replaced command too (open(), scan()). *)
THEOREM HotspotStaysHeld == Spec => []HotspotKept
<1>1. FullInv => HotspotKept
  <2> SUFFICES ASSUME FullInv, shared.stage = "networks", shared.device.hotspot,
                      shared.device.id \notin PhoneHotspots, pc = "waiting"
               PROVE  held.hotspot # NoRequest
    BY DEF HotspotKept
  <2>1. work.stage = "networks"
    BY BeforeHolds, BeforeFacts
  <2>2. QED
    BY <2>1 DEF FullInv, FlowInv, HotspotOK, OverHotspot
<1>2. QED
  BY <1>1, FullInvariant, PTL

(* A flow that was not replaced and that published anything says how it    *)
(* ended: no path of session.cc returns to run() in silence.               *)
THEOREM NoEndIsSilent == Spec => []NoSilentEnd
<1>1. FullInv => NoSilentEnd
  BY DEF FullInv, FlowInv, ReportsOK
<1>2. QED
  BY <1>1, FullInvariant, PTL

(* A finished search lists each Chromecast known once and no other, for    *)
(* any number of devices, answers and repetitions (run_search(),           *)
(* add_device(), remember()).                                              *)
THEOREM DevicesStayListed == Spec => []DevicesListed
<1>1. FullInv => DevicesListed
  BY DEF FullInv, FlowInv
<1>2. QED
  BY <1>1, FullInvariant, PTL
-------------------------------------------------------------------------------
(* What finish() relies on when it claims success.  It asks for one network*)
(* to be saved, and the Chromecast saves the one that it is on: they are   *)
(* the same unless a join that was replaced moves the Chromecast meanwhile.*)
FirstCasts ==
    \A c \in CastsFirst : \A x \in Devices : c[x].state = "saved" => c[x].ssid \in c[x].saved

(* While saving is asked for, a Chromecast that can save is on the target; *)
(* once it has said so, or its list has, the target is saved.              *)
AskingPoints == {"check save", "save", "check again"}
VerifyPoints == {"verify", "wait verify"}
SavedPoints == {"end save"} \cup VerifyPoints
Undisturbed ==
    pc \in AskingPoints => cast[here.device.id].trying \in {NoNetwork, work.target}
Saved(w, locals) == w.target \in cast[locals.device.id].saved
Asked(w, locals) ==
    /\ cast[locals.device.id].state \in {"saved", "unsaved"} => cast[locals.device.id].ssid = w.target
    /\ locals.device.state = "saved" => Saved(w, locals)
Confirmed(label, w, locals) ==
    /\ label \in SavingPlaces => w.joined
    /\ label \in AskingPoints => Asked(w, locals)
    /\ locals.saved => label \in SavedPoints /\ Saved(w, locals)
    /\ label \in VerifyPoints => Saved(w, locals)

CastsKnow ==
    \A x \in Devices : cast[x].state = "saved" => cast[x].ssid \in cast[x].saved
DoneOK == shared.stage = "done" => shared.device.id \in Devices
ConfirmedInv == Confirmed(pc, work, here) /\ CastsKnow /\ DoneOK /\ DoneIsVerified

LEMMA Points ==
    /\ AskingPoints \cup SavedPoints \cup VerifyPoints \subseteq SavingPlaces
    /\ SavingPlaces \cup FindingPlaces \subseteq JoinPlaces
    /\ FindingPlaces \cap SavingPlaces = {}
    /\ VerifyPoints \subseteq SavedPoints /\ AskingPoints \cap SavedPoints = {}
  BY DEF AskingPoints, SavedPoints, VerifyPoints, SavingPlaces, FindingPlaces, JoinPlaces

(* Most steps leave the Chromecasts alone and are not sure of anything.    *)
Unsure ==
    /\ pc' \in SavingPlaces => work'.joined
    /\ pc' \notin AskingPoints \cup VerifyPoints
    /\ ~here'.saved
    /\ UNCHANGED shared \/ work'.stage # "done"

(* A step that may change the list of what was claimed keeps the claim.    *)
LEMMA ClaimKept ==
    ASSUME ConfirmedInv, CastsOK, UNCHANGED shared,
           \A x \in Devices : cast[x].saved \subseteq cast'[x].saved
    PROVE  DoneOK' /\ DoneIsVerified'
  BY DEF ConfirmedInv, DoneOK, DoneIsVerified

LEMMA ClaimsMade ==
    ASSUME FlowInv', work'.stage # "done"
    PROVE  DoneOK' /\ DoneIsVerified'
<1>1. shared'.stage = work'.stage
  BY DEF FlowInv, FlowOK
<1>2. QED
  BY <1>1 DEF DoneOK, DoneIsVerified

LEMMA SameCasts ==
    ASSUME Before, ConfirmedInv, FlowInv', UNCHANGED cast, Confirmed(pc', work', here'),
           UNCHANGED shared \/ work'.stage # "done"
    PROVE  ConfirmedInv'
<1>1. Confirmed(pc, work, here)'
  BY DEF Confirmed, Asked, Saved
<1>2. CastsKnow'
  BY DEF CastsKnow, ConfirmedInv
<1>3. DoneOK' /\ DoneIsVerified'
  BY ClaimKept, ClaimsMade DEF Before
<1>4. QED
  BY <1>1, <1>2, <1>3 DEF ConfirmedInv

LEMMA UnsureConfirms ==
    ASSUME Before, ConfirmedInv, FlowInv', UNCHANGED cast, Unsure
    PROVE  ConfirmedInv'
<1>1. Confirmed(pc', work', here')
  BY DEF Unsure, Confirmed
<1>2. QED
  BY <1>1, SameCasts DEF Unsure

LEMMA Sureness ==
    ASSUME Before, ConfirmedInv
    PROVE  /\ work \in Snapshots /\ here \in Locals
           /\ pc \in SavingPlaces => work.joined
           /\ pc \notin SavedPoints => ~here.saved
  BY BeforeFacts DEF ConfirmedInv, Confirmed

(* The ways a step can end, once more.                                     *)
LEMMA Apart ==
    /\ {"waiting", "exited"} \cap JoinPlaces = {} /\ Commands \cap JoinPlaces = {}
    /\ (SearchPlaces \cup ScanPlaces \cup {"contact", "hotspot", "ask", "poll hotspot", "wait hotspot"})
         \cap JoinPlaces = {}
  BY DEF JoinPlaces, SavingPlaces, FindingPlaces, SearchPlaces, ScanPlaces, Commands, Requests

LEMMA OutsideIsUnsure ==
    ASSUME pc' \notin JoinPlaces, ~here'.saved,
           UNCHANGED shared \/ work'.stage # "done"
    PROVE  Unsure
  BY Points DEF Unsure

LEMMA FailUnsure ==
    ASSUME Before, ConfirmedInv, NEW w \in Snapshots, w.networks = work.networks,
           NEW retry, Fail(w, retry)
    PROVE  Unsure
<1>1. /\ work' = [w EXCEPT !.prompt = FALSE, !.failed = w.stage, !.stage = "failed", !.retry = retry]
      /\ pc' = "waiting" /\ here' = Nowhere
  BY DEF Fail, Failed, Publish, Return
<1>2. work'.networks = work.networks /\ work'.stage = "failed" /\ ~here'.saved
  BY <1>1 DEF Snapshots, Nowhere
<1>3. QED
  BY <1>1, <1>2, Sureness, Apart, OutsideIsUnsure

LEMMA DropUnsure ==
    ASSUME Before, ConfirmedInv, Drop
    PROVE  Unsure
<1>1. work' = work /\ shared' = shared /\ pc' = "waiting" /\ ~here'.saved
  BY DEF Drop, Return, Nowhere
<1>2. QED
  BY <1>1, Sureness, Apart, OutsideIsUnsure

LEMMA WithUnsure ==
    ASSUME Before, ConfirmedInv, NEW locals, NEW label, With(locals, label), ~locals.saved,
           label \in JoinPlaces => pc \in JoinPlaces,
           label \in SavingPlaces => pc \in SavingPlaces,
           label \notin AskingPoints \cup VerifyPoints
    PROVE  Unsure
  BY Sureness DEF Unsure, With

LEMMA PauseUnsure ==
    ASSUME Before, ConfirmedInv, NEW label, NEW next, Pause(label, next), label \notin SavedPoints,
           next \in JoinPlaces => label \in JoinPlaces,
           next \in SavingPlaces => label \in SavingPlaces,
           next \notin AskingPoints \cup VerifyPoints
    PROVE  Unsure
<1>1. pc = label /\ (With(here, next) \/ Drop) /\ ~here.saved
  BY Sureness DEF Pause, Continue
<1>2. QED
  BY <1>1, DropUnsure, WithUnsure

LEMMA RequestTargetUnsure ==
    ASSUME Before, ConfirmedInv, NEW locals, NEW after, RequestTarget(locals, after), ~locals.saved,
           pc \in FindingPlaces \cup SavingPlaces,
           after \in FindingPlaces \cup SavingPlaces,
           after \in SavingPlaces => pc \in SavingPlaces,
           after \notin AskingPoints \cup VerifyPoints
    PROVE  Unsure
<1>1. pc \in JoinPlaces /\ after \in JoinPlaces
  BY Points
<1>2. CASE With(locals, after)
  BY <1>1, <1>2, WithUnsure
<1>3. CASE Fail(work, FALSE)
  BY <1>3, FailUnsure, Sureness
<1>4. CASE Publish([work EXCEPT !.prompt = TRUE]) /\ here' = locals /\ pc' = after
  <2>1. /\ work' = [work EXCEPT !.prompt = TRUE] /\ work \in Snapshots
        /\ here' = locals /\ pc' = after
    BY <1>4, Sureness DEF Publish
  <2>2. /\ work'.networks = work.networks /\ work'.target = work.target
        /\ work'.joined = work.joined /\ work'.stage = work.stage
    BY <2>1 DEF Snapshots
  <2>3. work.stage \in {"finding", "saving"}
    BY BeforeFacts DEF Fits, Announced
  <2>4. QED
    BY <1>1, <2>1, <2>2, <2>3, Sureness DEF Unsure
<1>5. QED
  BY <1>2, <1>3, <1>4 DEF RequestTarget

(* Before a network is joined.                                             *)
LEMMA SearchUnsure ==
    ASSUME Before, ConfirmedInv, RunSearch \/ Discover \/ ListDevices
    PROVE  Unsure
<1>1. CASE RunSearch
  <2>1. PICK devices : /\ work' = [NoSnapshot EXCEPT !.devices = devices]
                       /\ pc' = "discover" /\ here' = here /\ pc = "search"
    BY <1>1 DEF RunSearch, Publish
  <2>2. work'.networks = <<>> /\ work'.stage = "searching"
    BY <2>1 DEF NoSnapshot, Range
  <2>3. "discover" \notin JoinPlaces /\ "search" \notin SavedPoints
    BY DEF JoinPlaces, SavingPlaces, FindingPlaces, SavedPoints, VerifyPoints
  <2>4. QED
    BY <2>1, <2>2, <2>3, Sureness, OutsideIsUnsure
<1>2. CASE Discover
  <2>1. pc = "discover" /\ (Drop \/ With(here, "list"))
    BY <1>2 DEF Discover, Abandon, Continue
  <2>2. /\ "list" \notin JoinPlaces /\ "discover" \notin SavedPoints
        /\ "list" \notin SavingPlaces \cup AskingPoints \cup VerifyPoints
    BY DEF JoinPlaces, SavingPlaces, FindingPlaces, SavedPoints, VerifyPoints, AskingPoints
  <2>3. QED
    BY <2>1, <2>2, Sureness, DropUnsure, WithUnsure
<1>3. CASE ListDevices
  <2>1. PICK devices : work' = [work EXCEPT !.stage = "devices", !.devices = devices]
    BY <1>3 DEF ListDevices, Publish
  <2>2. pc' = "waiting" /\ here' = Nowhere
    BY <1>3 DEF ListDevices, Return
  <2>3. work'.networks = work.networks /\ work'.stage = "devices" /\ ~here'.saved
    BY <2>1, <2>2, Sureness DEF Snapshots, Nowhere
  <2>4. QED
    BY <2>2, <2>3, Sureness, Apart, OutsideIsUnsure
<1>4. QED
  BY <1>1, <1>2, <1>3

LEMMA AnnounceUnsure ==
    ASSUME Before, ConfirmedInv, NEW next, NEW label, Announce(next, here, label),
           next.stage # "done", label \notin JoinPlaces,
           pc \notin SavedPoints
    PROVE  Unsure
<1>1. work' = next /\ here' = here /\ pc' = label
  BY DEF Announce, Publish
<1>2. QED
  BY <1>1, Sureness, OutsideIsUnsure

LEMMA OpeningUnsure ==
    ASSUME Before, ConfirmedInv, RunOpen \/ Rescan \/ Contact
    PROVE  Unsure
<1>1. /\ {"open", "rescan", "contact", "scan", "hotspot"} \cap SavedPoints = {}
      /\ {"contact", "scan", "hotspot"} \cap JoinPlaces = {}
  BY DEF JoinPlaces, SavingPlaces, FindingPlaces, SavedPoints, VerifyPoints
<1>2. ASSUME NEW device, Open(device), pc \in {"open", "rescan"} PROVE Unsure
  <2>1. /\ work' = Opening(device) /\ here' = [here EXCEPT !.device = device] /\ pc' = "contact"
    BY <1>2 DEF Open, Announce, Publish
  <2>2. work'.networks = <<>> /\ work'.stage = "scanning" /\ here'.saved = here.saved
        /\ Range(<<>>) = {}
    BY <2>1, Sureness DEF Opening, Snapshots, Locals, Range
  <2>3. QED
    BY <1>1, <1>2, <2>1, <2>2, Sureness, OutsideIsUnsure
<1>3. CASE Contact
  <2>1. pc = "contact"
    BY <1>3 DEF Contact
  <2>2. CASE Abandon
    BY <2>2, DropUnsure DEF Abandon
  <2>3. ASSUME NEW next, NEW device, NEW reachable, NEW hotspot, UNCHANGED shared,
               pc' \in {"scan", "hotspot"},
               \/ work' = [work EXCEPT !.device = device]
               \/ work' = [work EXCEPT !.prompt = FALSE],
               \/ here' = [here EXCEPT !.device = device]
               \/ here' = [here EXCEPT !.device.reachable = FALSE, !.device.hotspot = FALSE]
        PROVE  Unsure
    <3>1. work'.networks = work.networks
      BY <2>3, Sureness DEF Snapshots
    <3>2. here'.saved = here.saved
      BY <2>3, Sureness DEF Locals
    <3>3. QED
      BY <1>1, <2>1, <2>3, <3>1, <3>2, Sureness, OutsideIsUnsure
  <2>4. QED
    BY <1>3, <2>2, <2>3 DEF Contact
<1>4. QED
  BY <1>2, <1>3 DEF RunOpen, Rescan

LEMMA HotspotUnsure ==
    ASSUME Before, ConfirmedInv, JoinHotspot \/ AskForHotspot \/ PollHotspot \/ WaitHotspot
    PROVE  Unsure
<1>1. /\ {"hotspot", "ask", "poll hotspot", "wait hotspot"} \cap SavedPoints = {}
      /\ {"ask", "poll hotspot", "wait hotspot", "scan"} \cap JoinPlaces = {}
  BY DEF JoinPlaces, SavingPlaces, FindingPlaces, SavedPoints, VerifyPoints
<1>2. ASSUME NEW label \in {"ask", "poll hotspot", "wait hotspot"}, NEW widened, UNCHANGED <<shared, work>>,
             here' = here \/ here' = [here EXCEPT !.widened = widened],
             pc' = label, pc \in {"ask", "poll hotspot"}
      PROVE  Unsure
  <2>1. here'.saved = here.saved /\ pc' \notin JoinPlaces /\ pc \notin SavedPoints
    BY <1>1, <1>2, Sureness DEF Locals
  <2>2. QED
    BY <1>2, <2>1, Sureness, OutsideIsUnsure
<1>3. ASSUME Fail(work, FALSE) PROVE Unsure
  BY <1>3, FailUnsure, Sureness
<1>4. CASE JoinHotspot
  <2>1. pc = "hotspot" /\ Announce([work EXCEPT !.stage = "hotspot", !.prompt = TRUE], here, "ask")
    BY <1>4 DEF JoinHotspot
  <2> DEFINE next == [work EXCEPT !.stage = "hotspot", !.prompt = TRUE]
  <2>2. next.networks = work.networks /\ next.stage = "hotspot"
    BY Sureness DEF Snapshots
  <2>3. Announce(next, here, "ask")
    BY <2>1
  <2> HIDE DEF next
  <2>4. QED
    BY <1>1, <2>1, <2>2, <2>3, Sureness, AnnounceUnsure
<1>5. CASE AskForHotspot
  <2>1. pc = "ask"
    BY <1>5 DEF AskForHotspot
  <2>2. ASSUME NEW widened, here' = [here EXCEPT !.widened = widened],
               pc' \in {"poll hotspot", "wait hotspot"}, UNCHANGED <<shared, work>>
        PROVE  Unsure
    BY <1>2, <2>1, <2>2
  <2>3. QED
    BY <1>3, <1>5, <2>2 DEF AskForHotspot
<1>6. CASE PollHotspot
  <2>1. pc = "poll hotspot"
    BY <1>6 DEF PollHotspot
  <2>2. CASE Abandon
    BY <2>2, DropUnsure DEF Abandon
  <2>3. CASE HotspotAnswers
    <3>1. PICK device : here' = [here EXCEPT !.device = device]
      BY <2>3 DEF HotspotAnswers
    <3>2. /\ work' = [work EXCEPT !.prompt = FALSE, !.device = here'.device]
          /\ pc' = "scan" /\ UNCHANGED shared
      BY <2>3 DEF HotspotAnswers
    <3>3. work'.networks = work.networks /\ here'.saved = here.saved
      BY <3>1, <3>2, Sureness DEF Snapshots, Locals
    <3>4. QED
      BY <1>1, <2>1, <3>2, <3>3, Sureness, OutsideIsUnsure
  <2>4. CASE Continue("wait hotspot")
    BY <1>2, <2>1, <2>4 DEF Continue, With
  <2>5. CASE WidenHotspot
    BY <1>2, <1>3, <2>1, <2>5 DEF WidenHotspot
  <2>6. QED
    BY <1>3, <1>6, <2>2, <2>3, <2>4, <2>5 DEF PollHotspot
<1>7. CASE WaitHotspot
  <2>1. /\ "poll hotspot" \notin SavingPlaces \cup AskingPoints \cup VerifyPoints \cup JoinPlaces
        /\ "wait hotspot" \notin SavedPoints
    BY <1>1, Points
  <2>2. QED
    BY <1>7, <2>1, PauseUnsure DEF WaitHotspot
<1>8. QED
  BY <1>4, <1>5, <1>6, <1>7

LEMMA ScanUnsure ==
    ASSUME Before, ConfirmedInv, Scan \/ StartScan \/ WaitScan \/ ReadScan
    PROVE  Unsure
<1>1. /\ {"scan", "start scan", "wait scan", "read scan"} \cap SavedPoints = {}
      /\ {"start scan", "wait scan", "read scan"} \cap JoinPlaces = {}
  BY DEF JoinPlaces, SavingPlaces, FindingPlaces, SavedPoints, VerifyPoints
<1>2. ASSUME NEW tries, With([here EXCEPT !.tries = tries], "wait scan"), pc \notin SavedPoints
      PROVE  Unsure
  <2>1. work' = work /\ shared' = shared /\ pc' = "wait scan" /\ here' = [here EXCEPT !.tries = tries]
    BY <1>2 DEF With
  <2>2. here'.saved = here.saved
    BY <2>1, Sureness DEF Locals
  <2>3. QED
    BY <1>1, <1>2, <2>1, <2>2, Sureness, OutsideIsUnsure
<1>3. ASSUME NEW retry, Fail(work, retry) PROVE Unsure
  BY <1>3, FailUnsure, Sureness
<1>4. CASE Scan
  <2> DEFINE next == [work EXCEPT !.stage = "scanning", !.networks = <<>>]
  <2>1. pc = "scan" /\ Announce(next, here, "start scan")
    BY <1>4 DEF Scan
  <2>2. Range(next.networks) = {} /\ next.stage = "scanning"
    BY Sureness DEF Snapshots, Range
  <2> HIDE DEF next
  <2>3. QED
    BY <1>1, <2>1, <2>2, AnnounceUnsure
<1>5. CASE StartScan
  BY <1>1, <1>2, <1>3, <1>5 DEF StartScan
<1>6. CASE WaitScan
  <2>1. /\ "read scan" \notin SavingPlaces \cup AskingPoints \cup VerifyPoints \cup JoinPlaces
        /\ "wait scan" \notin SavedPoints
    BY <1>1, Points
  <2>2. QED
    BY <1>6, <2>1, PauseUnsure DEF WaitScan
<1>7. CASE ReadScan
  <2>1. pc \notin SavedPoints
    BY <1>1, <1>7 DEF ReadScan
  <2>2. PICK scan \in {ScanError} \cup (IF At(here.device) # {} THEN Scans ELSE {}) :
            \/ With([here EXCEPT !.tries = @ + 1], "wait scan")
            \/ Fail(work, TRUE)
            \/ /\ scan # ScanError
               /\ Publish([work EXCEPT !.networks = scan, !.stage = "networks"])
               /\ Return
    BY <1>7 DEF ReadScan
  <2>3. CASE With([here EXCEPT !.tries = @ + 1], "wait scan")
    BY <1>2, <2>1, <2>3
  <2>4. CASE /\ scan # ScanError
             /\ Publish([work EXCEPT !.networks = scan, !.stage = "networks"])
             /\ Return
    <3>1. scan \in Scans
      BY <2>2, <2>4
    <3>2. work' = [work EXCEPT !.networks = scan, !.stage = "networks"] /\ pc' = "waiting"
          /\ here' = Nowhere
      BY <2>4 DEF Publish, Return
    <3>3. work'.networks = scan /\ work'.stage = "networks" /\ ~here'.saved
      BY <3>2, Sureness DEF Snapshots, Nowhere
    <3>4. QED
      BY <3>2, <3>3, Apart, OutsideIsUnsure
  <2>5. QED
    BY <1>3, <2>2, <2>3, <2>4
<1>8. QED
  BY <1>4, <1>5, <1>6, <1>7

(* While a network is joined, up to the start of finish().                 *)
LEMMA FinishUnsure ==
    ASSUME Before, ConfirmedInv, pc \in JoinPlaces, NEW device, Finish(device)
    PROVE  Unsure
<1>1. /\ work' = [work EXCEPT !.joined = TRUE, !.prompt = FALSE, !.stage = "saving", !.device = device]
      /\ here' = [here EXCEPT !.device = device, !.tries = 0, !.saved = FALSE] /\ pc' = "reach"
  BY DEF Finish, Announce, Publish
<1>2. /\ work'.networks = work.networks /\ work'.target = work.target /\ work'.joined
      /\ work'.stage = "saving" /\ ~here'.saved
  BY <1>1, Sureness DEF Snapshots, Locals
<1>3. "reach" \notin AskingPoints \cup VerifyPoints
  BY DEF AskingPoints, VerifyPoints
<1>4. QED
  BY <1>1, <1>2, <1>3, Sureness DEF Unsure

LEMMA JoinUnsure ==
    ASSUME Before, ConfirmedInv, RunJoin \/ Send \/ WaitJoin \/ ReadJoin \/ EndJoin \/ Find \/ WaitFind
    PROVE  Unsure
<1>1. /\ {"join", "send", "wait join", "read join", "end join", "find", "wait find"} \cap SavedPoints = {}
      /\ {"send", "connect", "wait join", "read join", "end join", "find", "wait find"}
           \cap (AskingPoints \cup VerifyPoints \cup SavingPlaces) = {}
      /\ {"send", "connect", "wait join", "read join", "end join", "find", "wait find"}
           \subseteq JoinPlaces
      /\ {"find", "wait find"} \subseteq FindingPlaces
  BY DEF JoinPlaces, SavingPlaces, FindingPlaces, SavedPoints, VerifyPoints, AskingPoints
<1>2. ASSUME NEW retry, Fail(work, retry) PROVE Unsure
  BY <1>2, FailUnsure, Sureness
<1>3. CASE RunJoin
  <2>1. pc = "join"
    BY <1>3 DEF RunJoin
  <2>2. CASE Drop
    BY <2>2, DropUnsure
  <2>3. CASE /\ here.argument \in DOMAIN work.networks
             /\ Announce(Joining(work.networks[here.argument]), [here EXCEPT !.device = work.device], "send")
    <3> DEFINE target == work.networks[here.argument]
    <3>1. target \in Range(work.networks)
      BY <2>3 DEF Range
    <3>2. /\ work' = Joining(target) /\ here' = [here EXCEPT !.device = work.device] /\ pc' = "send"
      BY <2>3 DEF Announce, Publish
    <3>3. here'.saved = here.saved
      BY <3>2, Sureness DEF Locals
    <3> HIDE DEF target
    <3>4. work'.networks = work.networks /\ work'.target = target /\ work'.stage = "sending"
      BY <3>2, Sureness DEF Joining, Snapshots
    <3>5. ~here'.saved
      BY <1>1, <2>1, <3>3, Sureness
    <3>6. pc' \notin SavingPlaces \cup AskingPoints \cup VerifyPoints /\ work'.stage # "done"
      BY <1>1, <3>2, <3>4
    <3>7. QED
      BY <3>4, <3>5, <3>6 DEF Unsure
  <2>4. QED
    BY <1>3, <2>2, <2>3 DEF RunJoin
<1>4. CASE Send
  <2>1. pc = "send"
    BY <1>4 DEF Send
  <2>2. CASE With([here EXCEPT !.device = Reported(here.device.id, here.device)], "connect")
    <3> DEFINE device == Reported(here.device.id, here.device)
               locals == [here EXCEPT !.device = device]
    <3> HIDE DEF device
    <3>1. locals.saved = here.saved
      BY Sureness DEF Locals
    <3>2. With(locals, "connect")
      BY <2>2 DEF device
    <3> HIDE DEF locals
    <3>3. QED
      BY <1>1, <2>1, <3>1, <3>2, Sureness, WithUnsure
  <2>3. QED
    BY <1>2, <1>4, <2>2 DEF Send
<1>5. CASE WaitJoin
  BY <1>1, <1>5, PauseUnsure DEF WaitJoin
<1>6. CASE ReadJoin
  <2>1. pc = "read join"
    BY <1>6 DEF ReadJoin
  <2>2. ASSUME NEW device, NEW left, NEW misses, PollOn(device, left, misses)
        PROVE  Unsure
    <3> DEFINE locals == [here EXCEPT !.device = device, !.left = left, !.tries = misses]
    <3>1. locals.saved = here.saved
      BY Sureness DEF Locals
    <3>2. With(locals, "end join") \/ With(locals, "wait join")
      BY <2>2 DEF PollOn
    <3> HIDE DEF locals
    <3>3. QED
      BY <1>1, <2>1, <3>1, <3>2, Sureness, WithUnsure
  <2>3. QED
    BY <1>1, <1>2, <1>6, <2>1, <2>2, FinishUnsure DEF ReadJoin
<1>7. CASE EndJoin
  <2>1. pc = "end join"
    BY <1>7 DEF EndJoin
  <2>2. CASE Publish([work EXCEPT !.stage = "finding"]) /\ pc' = "find" /\ UNCHANGED here
    <3>1. work' = [work EXCEPT !.stage = "finding"]
      BY <2>2 DEF Publish
    <3>2. work'.networks = work.networks /\ work'.target = work.target /\ work'.stage = "finding"
      BY <3>1, Sureness DEF Snapshots
    <3>3. QED
      BY <1>1, <2>1, <2>2, <3>2, Sureness DEF Unsure
  <2>3. QED
    BY <1>2, <1>7, <2>2 DEF EndJoin
<1>8. CASE Find
  <2>1. pc = "find"
    BY <1>8 DEF Find
  <2>2. CASE Abandon
    BY <2>2, DropUnsure DEF Abandon
  <2>3. CASE Continue("wait find")
    BY <1>1, <2>1, <2>3, Sureness, WithUnsure DEF Continue
  <2>4. CASE RequestTarget(here, "wait find")
    BY <1>1, <2>1, <2>4, Sureness, RequestTargetUnsure
  <2>5. ASSUME NEW device, Finish(device) PROVE Unsure
    BY <1>1, <2>1, <2>5, FinishUnsure
  <2>6. QED
    BY <1>2, <1>8, <2>2, <2>3, <2>4, <2>5 DEF Find
<1>9. CASE WaitFind
  BY <1>1, <1>9, PauseUnsure DEF WaitFind
<1>10. QED
  BY <1>3, <1>4, <1>5, <1>6, <1>7, <1>8, <1>9

(* The Chromecast is given the network that is joined.                     *)
LEMMA ConnectConfirms ==
    ASSUME Before, ConfirmedInv, FlowInv', Connect
    PROVE  ConfirmedInv'
<1>1. /\ pc = "connect" /\ pc \in JoinPlaces /\ pc \notin SavedPoints /\ "wait join" \in JoinPlaces
      /\ "wait join" \notin SavingPlaces \cup AskingPoints \cup VerifyPoints
  BY DEF Connect, JoinPlaces, SavingPlaces, FindingPlaces, SavedPoints, VerifyPoints, AskingPoints
<1>2. /\ work \in Snapshots /\ here \in Locals /\ ~here.saved
      /\ here.device.id \in Devices
  BY <1>1, Sureness, JoiningFacts
<1>3. CASE Fail(work, FALSE) /\ UNCHANGED cast
  BY <1>2, <1>3, FailUnsure, UnsureConfirms
<1>4. CASE \E answered \in BOOLEAN, keep \in {FALSE, here.device.hotspot} :
             /\ cast' = Configured(here.device.id, keep) \/ UNCHANGED cast
             /\ Publish([work EXCEPT !.stage = "joining", !.device = here.device])
             /\ here' = [here EXCEPT !.left = ~answered, !.tries = 0]
             /\ pc' = "wait join"
  <2>1. PICK answered \in BOOLEAN, keep \in {FALSE, here.device.hotspot} :
             /\ cast' = Configured(here.device.id, keep) \/ UNCHANGED cast
             /\ work' = [work EXCEPT !.stage = "joining", !.device = here.device]
             /\ here' = [here EXCEPT !.left = ~answered, !.tries = 0]
             /\ pc' = "wait join"
    BY <1>4 DEF Publish
  <2>2. /\ work'.networks = work.networks /\ work'.target = work.target /\ work'.stage = "joining"
    BY <1>2, <2>1 DEF Snapshots
  <2>3. here'.saved = here.saved
    BY <1>2, <2>1 DEF Locals
  <2>4. Confirmed(pc, work, here)'
    BY <1>1, <1>2, <2>1, <2>2, <2>3 DEF Confirmed
  <2>5. CastsKnow'
    <3>1. CASE UNCHANGED cast
      BY <3>1 DEF ConfirmedInv, CastsKnow
    <3>2. CASE cast' = Configured(here.device.id, keep)
      <4>1. cast \in [Devices -> Casts]
        BY BeforeFacts DEF CastsOK
      <4> DEFINE x == here.device.id
                 good == (work.target \in Unsecured \/ here.password = "right")
                 c == [cast[x] EXCEPT !.trying = work.target, !.good = good, !.keep = keep]
      <4> HIDE DEF good
      <4>2. c.trying = work.target /\ c.state = cast[x].state /\ c.ssid = cast[x].ssid
            /\ c.saved = cast[x].saved
        BY <1>2, <4>1 DEF Casts
      <4>3. cast' = [cast EXCEPT ![x] = c]
        BY <1>2, <3>2, <4>1 DEF Configured, Casts, good
      <4> HIDE DEF c, x
      <4>4. \A y \in Devices : cast'[y] = cast[y] \/ (y = x /\ cast'[y] = c)
        BY <4>1, <4>3
      <4>5. QED
        BY <1>2, <4>2, <4>4 DEF ConfirmedInv, CastsKnow
    <3>3. QED
      BY <2>1, <3>1, <3>2
  <2>6. DoneOK' /\ DoneIsVerified'
    BY <2>2, ClaimsMade
  <2>7. QED
    BY <2>4, <2>5, <2>6 DEF ConfirmedInv
<1>5. QED
  BY <1>3, <1>4 DEF Connect
-------------------------------------------------------------------------------
(* finish().                                                               *)
LEMMA SavingKnows ==
    ASSUME Before, ConfirmedInv, pc \in SavingPlaces
    PROVE  /\ work \in Snapshots /\ here \in Locals /\ here.device \in DeviceReports
           /\ here.device.id \in Devices /\ work.joined /\ work.stage = "saving"
           /\ pc \notin SavedPoints => ~here.saved
           /\ pc \in AskingPoints => Asked(work, here)
           /\ here.saved \/ pc \in VerifyPoints => Saved(work, here)
<1>1. pc \in JoinPlaces
  BY Points
<1>2. QED
  BY <1>1, Sureness, SavingFacts DEF ConfirmedInv, Confirmed

LEMMA AgainUnsure ==
    ASSUME Before, ConfirmedInv, pc \in SavingPlaces, pc \notin SavedPoints
    PROVE  /\ ~Again.saved
           /\ AgainAt \in SavingPlaces /\ AgainAt \in JoinPlaces
           /\ AgainAt \notin AskingPoints \cup VerifyPoints
<1>1. here \in Locals /\ ~here.saved
  BY SavingKnows
<1>2. ~Again.saved
  <2> DEFINE n == here.tries + 1
  <2>1. Again = [here EXCEPT !.tries = n]
    BY <1>1 DEF Again, Locals
  <2> HIDE DEF n
  <2>2. QED
    BY <1>1, <2>1 DEF Locals
<1>3. AgainAt \in {"end save", "wait save"}
  BY DEF AgainAt
<1>4. /\ {"end save", "wait save"} \subseteq SavingPlaces
      /\ {"end save", "wait save"} \cap (AskingPoints \cup VerifyPoints) = {}
  BY DEF SavingPlaces, AskingPoints, VerifyPoints
<1>5. QED
  BY <1>2, <1>3, <1>4, Points

LEMMA WithConfirms ==
    ASSUME Before, ConfirmedInv, FlowInv', UNCHANGED cast, NEW locals, NEW label,
           With(locals, label), Confirmed(label, work, locals)
    PROVE  ConfirmedInv'
<1>1. work' = work /\ here' = locals /\ pc' = label /\ shared' = shared
  BY DEF With
<1>2. QED
  BY <1>1, SameCasts

(* What was said of the Chromecast is true of it now.                      *)
LEMMA SaidIsTrue ==
    ASSUME Before, ConfirmedInv, NEW d \in Reachable, here.device.id \in Devices,
           here.device \in DeviceReports
    PROVE  /\ d.id = here.device.id
           /\ d.ssid = cast[d.id].ssid /\ d.state = cast[d.id].state
<1>1. \/ d = Reported(here.device.id, here.device)
      \/ d = [Reported(here.device.id, NoSuchDevice) EXCEPT !.reachable = TRUE, !.hotspot = FALSE]
  BY DEF Reachable, Found
<1>2. NoSuchDevice \in DeviceReports
  BY Empties
<1>3. QED
  BY <1>1, <1>2 DEF Reported, DeviceReports

LEMMA ReachConfirms ==
    ASSUME Before, ConfirmedInv, FlowInv', UNCHANGED cast, Reach
    PROVE  ConfirmedInv'
<1>1. /\ pc = "reach" /\ pc \in SavingPlaces /\ pc \notin SavedPoints
      /\ "check save" \in AskingPoints /\ "check save" \in SavingPlaces
      /\ "check save" \notin SavedPoints
  BY DEF Reach, SavingPlaces, SavedPoints, VerifyPoints, AskingPoints
<1>2. CASE Abandon
  BY <1>2, DropUnsure, UnsureConfirms DEF Abandon
<1>3. CASE RequestTarget(Again, AgainAt)
  <2>1. Unsure
    BY <1>1, <1>3, AgainUnsure, RequestTargetUnsure
  <2>2. QED
    BY <2>1, UnsureConfirms
<1>4. CASE Fail([work EXCEPT !.joined = FALSE], TRUE)
  <2> DEFINE w == [work EXCEPT !.joined = FALSE]
  <2>1. w \in Snapshots /\ w.networks = work.networks
    BY Sureness DEF Snapshots
  <2>2. Fail(w, TRUE)
    BY <1>4
  <2> HIDE DEF w
  <2>3. QED
    BY <2>1, <2>2, FailUnsure, UnsureConfirms
<1>5. ASSUME NEW d \in Reachable, OnTarget(d), With([here EXCEPT !.device = d], "check save")
      PROVE  ConfirmedInv'
  <2> DEFINE locals == [here EXCEPT !.device = d]
  <2>1. /\ d.id = here.device.id /\ d.id \in Devices
        /\ d.ssid = cast[d.id].ssid /\ d.state = cast[d.id].state /\ d.ssid = work.target
    BY <1>1, <1>5, SavingKnows, SaidIsTrue DEF OnTarget
  <2>2. locals.device = d /\ ~locals.saved
    BY <1>1, SavingKnows DEF Locals
  <2>3. With(locals, "check save")
    BY <1>5
  <2> HIDE DEF locals
  <2>4. Asked(work, locals)
    BY <2>1, <2>2 DEF Asked, Saved, ConfirmedInv, CastsKnow
  <2>5. "check save" \notin VerifyPoints
    BY <1>1, Points
  <2>6. Confirmed("check save", work, locals)
    BY <1>1, <2>2, <2>4, <2>5, SavingKnows DEF Confirmed
  <2>7. QED
    BY <2>3, <2>6, WithConfirms
<1>6. QED
  BY <1>2, <1>3, <1>4, <1>5 DEF Reach

LEMMA CheckSaveConfirms ==
    ASSUME Before, ConfirmedInv, FlowInv', UNCHANGED cast, CheckSave
    PROVE  ConfirmedInv'
<1>1. /\ pc \in AskingPoints /\ pc \in SavingPlaces /\ pc \notin SavedPoints
      /\ "end save" \in SavedPoints /\ "end save" \in SavingPlaces
      /\ "end save" \notin AskingPoints \cup VerifyPoints
      /\ "save" \in AskingPoints /\ "save" \in SavingPlaces /\ "save" \notin SavedPoints
  BY DEF CheckSave, SavingPlaces, SavedPoints, VerifyPoints, AskingPoints
<1>2. /\ here \in Locals /\ ~here.saved /\ Asked(work, here)
      /\ work.joined
  BY <1>1, SavingKnows
<1>3. PICK saved \in NetworkSaved :
           IF saved THEN With([here EXCEPT !.saved = TRUE], "end save")
           ELSE IF pc = "check save" THEN With(here, "save") ELSE With(Again, AgainAt)
  BY DEF CheckSave, Continue
<1>4. CASE saved /\ With([here EXCEPT !.saved = TRUE], "end save")
  <2> DEFINE locals == [here EXCEPT !.saved = TRUE]
  <2>1. locals.device = here.device /\ With(locals, "end save")
    BY <1>2, <1>4 DEF Locals
  <2>2. Saved(work, here)
    <3>1. CASE here.device.state = "saved"
      BY <1>2, <3>1 DEF Asked
    <3>2. CASE here.device.state = "unsaved"
      BY <1>3, <1>4, <3>2 DEF NetworkSaved
    <3>3. CASE here.device.state \notin {"saved", "unsaved"}
      BY <1>3, <1>4, <3>3 DEF NetworkSaved, Saved
    <3>4. QED
      BY <3>1, <3>2, <3>3
  <2> HIDE DEF locals
  <2>3. Saved(work, locals)
    BY <2>1, <2>2 DEF Saved
  <2>4. Confirmed("end save", work, locals)
    BY <1>1, <1>2, <2>3 DEF Confirmed
  <2>5. QED
    BY <2>1, <2>4, WithConfirms
<1>5. CASE With(here, "save")
  <2>1. Confirmed("save", work, here)
    BY <1>1, <1>2, Points DEF Confirmed
  <2>2. QED
    BY <1>5, <2>1, WithConfirms
<1>6. CASE With(Again, AgainAt)
  <2>1. Unsure
    BY <1>1, <1>6, Points, AgainUnsure, WithUnsure
  <2>2. QED
    BY <2>1, UnsureConfirms
<1>7. QED
  BY <1>3, <1>4, <1>5, <1>6

(* The Chromecast saves the network that it is on.                         *)
LEMMA SavesTarget ==
    ASSUME Before, ConfirmedInv, pc \in AskingPoints, NEW x \in Devices, x = here.device.id,
           cast' \in SavedBy(x)
    PROVE  /\ CastsKnow' /\ \A y \in Devices : cast[y].saved \subseteq cast'[y].saved
           /\ cast'[x].state \in {"saved", "unsaved"} => cast'[x].ssid = work.target
<1>1. cast \in [Devices -> Casts] /\ CastsKnow
  BY BeforeFacts DEF CastsOK, ConfirmedInv
<1>2. cast[x].state \in {"saved", "unsaved"} => cast[x].ssid = work.target
  BY Points, SavingKnows DEF Asked
<1>3. CASE cast' = cast
  BY <1>1, <1>2, <1>3 DEF CastsKnow
<1>4. ASSUME NEW state \in {"connected", "saved", "pending"}, cast[x].state = "unsaved",
             cast' = [cast EXCEPT ![x].saved = @ \cup {cast[x].ssid}, ![x].state = state,
                                  ![x].hotspot = FALSE]
      PROVE  /\ CastsKnow' /\ \A y \in Devices : cast[y].saved \subseteq cast'[y].saved
             /\ cast'[x].ssid = work.target
  <2> DEFINE c == [cast[x] EXCEPT !.saved = @ \cup {cast[x].ssid}, !.state = state, !.hotspot = FALSE]
  <2>1. /\ c.trying = cast[x].trying /\ c.ssid = cast[x].ssid
        /\ c.saved = cast[x].saved \cup {cast[x].ssid}
    BY <1>1 DEF Casts
  <2>2. cast' = [cast EXCEPT ![x] = c]
    BY <1>1, <1>4 DEF Casts
  <2> HIDE DEF c
  <2>3. \A y \in Devices : (y # x => cast'[y] = cast[y]) /\ cast'[x] = c
    BY <1>1, <2>2
  <2>4. cast'[x].ssid = work.target
    BY <1>2, <1>4, <2>1, <2>3
  <2>5. \A y \in Devices : cast[y].saved \subseteq cast'[y].saved
    BY <2>1, <2>3
  <2>6. c.ssid \in c.saved
    BY <1>1, <2>1 DEF CastsKnow
  <2>7. CastsKnow'
    BY <1>1, <2>3, <2>6 DEF CastsKnow
  <2>8. QED
    BY <2>4, <2>5, <2>7
<1>5. QED
  BY <1>3, <1>4 DEF SavedBy

LEMMA SaveConfirms ==
    ASSUME Before, ConfirmedInv, FlowInv', Save
    PROVE  ConfirmedInv'
<1>1. /\ pc = "save" /\ pc \in AskingPoints /\ pc \in SavingPlaces /\ pc \notin SavedPoints
      /\ "check again" \in AskingPoints /\ "check again" \in SavingPlaces
      /\ "check again" \notin VerifyPoints /\ "check again" \in JoinPlaces
  BY DEF Save, SavingPlaces, SavedPoints, VerifyPoints, AskingPoints, JoinPlaces
<1>2. /\ here \in Locals /\ ~here.saved /\ Asked(work, here)
      /\ work.joined
      /\ here.device \in DeviceReports /\ here.device.id \in Devices
  BY <1>1, SavingKnows
<1> DEFINE x == here.device.id
<1>3. CASE UNCHANGED cast /\ With(Again, AgainAt)
  <2>1. Unsure
    BY <1>1, <1>3, Points, AgainUnsure, WithUnsure
  <2>2. QED
    BY <1>3, <2>1, UnsureConfirms
<1>4. ASSUME cast' \in SavedBy(x), UNCHANGED shared, Confirmed(pc, work, here)'
      PROVE  ConfirmedInv'
  <2>1. CastsKnow' /\ \A y \in Devices : cast[y].saved \subseteq cast'[y].saved
    BY <1>1, <1>2, <1>4, SavesTarget
  <2>2. DoneOK' /\ DoneIsVerified'
    BY <1>4, <2>1, ClaimKept, BeforeFacts
  <2>3. QED
    BY <1>4, <2>1, <2>2 DEF ConfirmedInv
<1>5. ASSUME cast' \in SavedBy(x), With(Again, AgainAt) PROVE ConfirmedInv'
  <2>1. work' = work /\ shared' = shared /\ here' = Again /\ pc' = AgainAt
    BY <1>5 DEF With
  <2>2. Confirmed(pc, work, here)'
    BY <1>1, <1>2, <2>1, AgainUnsure DEF Confirmed
  <2>3. QED
    BY <1>4, <1>5, <2>1, <2>2
<1>6. ASSUME NEW state, state = cast'[x].state, cast' \in SavedBy(x),
             With([here EXCEPT !.device.state = IF state \in ConnectedStates THEN state ELSE @],
                  "check again")
      PROVE  ConfirmedInv'
  <2> DEFINE now == IF state \in ConnectedStates THEN state ELSE here.device.state
  <2>1. /\ work' = work /\ shared' = shared /\ pc' = "check again"
        /\ here' = [here EXCEPT !.device.state = now]
    BY <1>2, <1>6 DEF With, Locals, DeviceReports
  <2> HIDE DEF now
  <2>2. here'.device.id = x /\ here'.device.state = now /\ ~here'.saved
    BY <1>2, <2>1 DEF Locals, DeviceReports
  <2>3. /\ CastsKnow' /\ cast[x].saved \subseteq cast'[x].saved
        /\ cast'[x].state \in {"saved", "unsaved"} => cast'[x].ssid = work.target
    BY <1>1, <1>2, <1>6, SavesTarget
  <2>4. now = "saved" => work.target \in cast'[x].saved
    <3>1. CASE now = cast'[x].state
      BY <1>2, <2>3, <3>1 DEF CastsKnow
    <3>2. CASE now = here.device.state
      BY <1>2, <2>3, <3>2 DEF Asked, Saved
    <3>3. QED
      BY <1>6, <3>1, <3>2 DEF now
  <2>5. Asked(work, here)'
    BY <2>1, <2>2, <2>3, <2>4 DEF Asked, Saved
  <2>6. Confirmed(pc, work, here)'
    BY <1>1, <1>2, <2>1, <2>2, <2>5 DEF Confirmed
  <2>7. QED
    BY <1>4, <1>6, <2>1, <2>6
<1>7. QED
  BY <1>3, <1>5, <1>6 DEF Save

LEMMA EndSaveConfirms ==
    ASSUME Before, ConfirmedInv, FlowInv', UNCHANGED cast, WaitSave \/ EndSave \/ NotSaved
    PROVE  ConfirmedInv'
<1>1. CASE WaitSave
  <2>1. /\ "wait save" \in SavingPlaces /\ "wait save" \notin SavedPoints
        /\ "reach" \notin AskingPoints \cup VerifyPoints
    BY DEF SavingPlaces, SavedPoints, VerifyPoints, AskingPoints
  <2>2. QED
    BY <1>1, <2>1, Points, PauseUnsure, UnsureConfirms DEF WaitSave
<1>2. CASE NotSaved
  BY <1>2, FailUnsure, Sureness, UnsureConfirms DEF NotSaved
<1>3. CASE EndSave
  <2>1. /\ pc = "end save" /\ pc \in SavingPlaces
        /\ "verify" \in SavedPoints /\ "verify" \in SavingPlaces /\ "verify" \notin AskingPoints
        /\ "not saved" \in SavingPlaces /\ "not saved" \notin AskingPoints \cup VerifyPoints
    BY <1>3 DEF EndSave, SavingPlaces, SavedPoints, VerifyPoints, AskingPoints
  <2>2. CASE Abandon
    BY <2>2, DropUnsure, UnsureConfirms DEF Abandon
  <2>3. CASE pc' = (IF here.saved THEN "verify" ELSE "not saved") /\ UNCHANGED <<shared, work, here>>
    <3>1. Confirmed(pc', work, here)
      BY <2>1, <2>3, SavingKnows DEF Confirmed
    <3>2. QED
      BY <2>3, <3>1, SameCasts
  <2>4. QED
    BY <1>3, <2>2, <2>3 DEF EndSave
<1>4. QED
  BY <1>1, <1>2, <1>3

LEMMA VerifyConfirms ==
    ASSUME Before, ConfirmedInv, FlowInv', UNCHANGED cast, Verify \/ WaitVerify
    PROVE  ConfirmedInv'
<1>1. /\ pc \in VerifyPoints /\ pc \in SavingPlaces /\ VerifyPoints \cap AskingPoints = {}
      /\ VerifyPoints = {"verify", "wait verify"}
  BY Points DEF Verify, WaitVerify, Pause, VerifyPoints
<1>2. /\ here \in Locals /\ work.joined /\ work \in Snapshots /\ work.stage = "saving"
      /\ here.device.id \in Devices /\ Saved(work, here)
  BY <1>1, SavingKnows
<1>3. ASSUME NEW label \in VerifyPoints, NEW locals, NEW w, w.networks = work.networks,
             w.target = work.target, w.joined, locals.device.id = here.device.id
      PROVE  Confirmed(label, w, locals)
  BY <1>1, <1>2, <1>3, Points DEF Confirmed, Saved
<1>4. CASE Abandon
  BY <1>4, DropUnsure, UnsureConfirms DEF Abandon
<1>5. ASSUME NEW label \in VerifyPoints, NEW locals, locals.device.id = here.device.id,
             With(locals, label)
      PROVE  ConfirmedInv'
  BY <1>2, <1>3, <1>5, WithConfirms
<1>6. CASE WaitVerify
  <2>1. With(here, "verify") \/ Drop
    BY <1>6 DEF WaitVerify, Pause, Continue
  <2>2. QED
    BY <1>1, <1>5, <2>1, DropUnsure, UnsureConfirms
<1>7. CASE RequestTarget(here, "wait verify")
  <2>1. CASE Fail(work, FALSE)
    BY <1>2, <2>1, FailUnsure, UnsureConfirms
  <2>2. CASE Publish([work EXCEPT !.prompt = TRUE]) /\ here' = here /\ pc' = "wait verify"
    <3>1. work' = [work EXCEPT !.prompt = TRUE]
      BY <2>2 DEF Publish
    <3>2. /\ work'.networks = work.networks /\ work'.target = work.target /\ work'.joined
          /\ work'.stage = "saving"
      BY <1>2, <3>1 DEF Snapshots
    <3>3. Confirmed(pc', work', here')
      BY <1>1, <1>3, <2>2, <3>2
    <3>4. QED
      BY <3>2, <3>3, SameCasts
  <2>3. QED
    BY <1>1, <1>5, <1>7, <2>1, <2>2 DEF RequestTarget
<1>8. CASE With([here EXCEPT !.device = Found(here.device.id, FALSE)], "verify")
  <2> DEFINE device == Found(here.device.id, FALSE)
             locals == [here EXCEPT !.device = device]
  <2>1. device.id = here.device.id
    BY <1>2, BeforeFacts, FoundTyped
  <2> HIDE DEF device
  <2>2. locals.device = device
    BY <1>2 DEF Locals
  <2>3. With(locals, "verify")
    BY <1>8 DEF device
  <2> HIDE DEF locals
  <2>4. QED
    BY <1>1, <1>5, <2>1, <2>2, <2>3
<1>9. QED
  BY <1>4, <1>6, <1>7, <1>8 DEF Verify

LEMMA DoneConfirms ==
    ASSUME Before, ConfirmedInv, FlowInv', UNCHANGED cast, Done
    PROVE  ConfirmedInv'
<1>1. pc = "verify" /\ pc \in VerifyPoints /\ pc \in SavingPlaces
  BY DEF Done, VerifyPoints, SavingPlaces
<1>2. CASE Abandon
  BY <1>2, DropUnsure, UnsureConfirms DEF Abandon
<1>3. CASE Fail(work, FALSE)
  BY <1>3, Sureness, FailUnsure, UnsureConfirms
<1>4. CASE /\ ~here.device.hotspot /\ OnTarget(here.device)
           /\ Publish([work EXCEPT !.prompt = FALSE, !.device = here.device, !.stage = "done"])
           /\ Return
  <2>1. /\ work \in Snapshots /\ work.joined /\ here.device.id \in Devices /\ Saved(work, here)
    BY <1>1, SavingKnows
  <2> DEFINE w == [work EXCEPT !.prompt = FALSE, !.device = here.device, !.stage = "done"]
  <2>2. /\ w.networks = work.networks /\ w.target = work.target /\ w.joined
        /\ w.device = here.device
    BY <2>1 DEF Snapshots
  <2>3. /\ work' = w /\ shared' = [w EXCEPT !.command = current] /\ pc' = "waiting"
        /\ here' = Nowhere
    BY <1>4 DEF Publish, Return
  <2>4. w \in Snapshots
    BY <2>3 DEF FlowInv, FlowOK, Fits
  <2> HIDE DEF w
  <2>5. shared'.target = w.target /\ shared'.joined /\ shared'.device = w.device
    BY <2>2, <2>3, <2>4 DEF Snapshots
  <2>6. DoneOK' /\ DoneIsVerified'
    BY <1>4, <2>1, <2>2, <2>5 DEF DoneOK, DoneIsVerified, OnTarget, Saved
  <2>7. Confirmed(pc, work, here)'
    <3>1. ~here'.saved
      BY <2>3 DEF Nowhere
    <3>2. pc' \notin JoinPlaces
      BY <2>3, Apart
    <3>3. QED
      BY <2>1, <2>2, <2>3, <3>1, <3>2, Points DEF Confirmed
  <2>8. QED
    BY <2>6, <2>7 DEF ConfirmedInv, CastsKnow
<1>5. QED
  BY <1>2, <1>3, <1>4 DEF Done

LEMMA StopConfirms ==
    ASSUME Before, ConfirmedInv, FlowInv', UNCHANGED cast, Stop
    PROVE  ConfirmedInv'
<1>1. /\ pc = "stop" /\ "stop" \in Commands /\ work' = [work EXCEPT !.prompt = FALSE]
      /\ shared' = shared /\ here' = here /\ pc' = "exited"
  BY DEF Stop, Commands
<1>2. work'.networks = work.networks
  BY <1>1, Sureness DEF Snapshots
<1>3. pc \notin SavedPoints
  BY <1>1, Apart, Points
<1>4. Unsure
  BY <1>1, <1>2, <1>3, Sureness, Apart, OutsideIsUnsure
<1>5. QED
  BY <1>4, UnsureConfirms

LEMMA TakeConfirms ==
    ASSUME Before, ConfirmedInv, FlowInv', Take
    PROVE  ConfirmedInv'
<1> DEFINE locals == [Nowhere EXCEPT !.argument = slot.argument, !.password = slot.password]
<1>1. With(locals, slot.command) /\ UNCHANGED cast
  BY DEF Take
<1>2. ~locals.saved
  BY DEF Nowhere
<1>3. slot.command \in Commands
  BY DEF Before, NumbersOK, Slots
<1> HIDE DEF locals
<1>4. slot.command \notin JoinPlaces \cup SavingPlaces \cup AskingPoints \cup VerifyPoints
  BY <1>3, Apart, Points
<1>5. Unsure
  BY <1>1, <1>2, <1>4, WithUnsure
<1>6. QED
  BY <1>1, <1>5, UnsureConfirms

LEMMA FlowConfirms ==
    ASSUME Before, ConfirmedInv, FlowInv', Flow, UNCHANGED cast
    PROVE  ConfirmedInv'
<1>1. CASE Stop
  BY <1>1, StopConfirms
<1>2. CASE RunSearch \/ Discover \/ ListDevices
  BY <1>2, SearchUnsure, UnsureConfirms
<1>3. CASE RunOpen \/ Rescan \/ Contact
  BY <1>3, OpeningUnsure, UnsureConfirms
<1>4. CASE JoinHotspot \/ AskForHotspot \/ PollHotspot \/ WaitHotspot
  BY <1>4, HotspotUnsure, UnsureConfirms
<1>5. CASE Scan \/ StartScan \/ WaitScan \/ ReadScan
  BY <1>5, ScanUnsure, UnsureConfirms
<1>6. CASE RunJoin \/ Send \/ WaitJoin \/ ReadJoin \/ EndJoin \/ Find \/ WaitFind
  BY <1>6, JoinUnsure, UnsureConfirms
<1>7. CASE Reach \/ CheckSave \/ Done
  BY <1>7, ReachConfirms, CheckSaveConfirms, DoneConfirms
<1>8. CASE WaitSave \/ EndSave \/ NotSaved \/ Verify \/ WaitVerify
  BY <1>8, EndSaveConfirms, VerifyConfirms
<1>9. QED
  BY <1>1, <1>2, <1>3, <1>4, <1>5, <1>6, <1>7, <1>8 DEF Flow

(* What a Chromecast does on its own: it forgets nothing, says of no new   *)
(* network that it is saved, and is unsure only of the one it was given.   *)
LEMMA WorldChange ==
    ASSUME Before, NEW x \in Devices, CastLeaves(x) \/ CastSettles(x) \/ CastDrops(x)
    PROVE  \E c \in Casts :
             /\ cast' = [cast EXCEPT ![x] = c]
             /\ c.saved = cast[x].saved /\ c.trying \in {NoNetwork, cast[x].trying}
             /\ c.state # "saved"
             /\ c.state = "unsaved" => c.ssid = cast[x].trying /\ cast[x].trying # NoNetwork
<1> DEFINE d == cast[x]
<1>1. d \in Casts /\ cast \in [Devices -> Casts] /\ cast'[x] \in Casts
  BY BeforeFacts, CastFields, WorldCasts DEF CastsOK
<1>2. CASE CastLeaves(x)
  <2> DEFINE c == [d EXCEPT !.state = "joining", !.ssid = NoNetwork, !.hotspot = @ /\ d.keep]
  <2>1. cast' = [cast EXCEPT ![x] = c]
    BY <1>1, <1>2 DEF CastLeaves, Casts
  <2>2. c.saved = d.saved /\ c.trying = d.trying /\ c.state = "joining"
    BY <1>1 DEF Casts
  <2> HIDE DEF c
  <2>3. c \in Casts
    BY <1>1, <2>1
  <2>4. QED
    BY <2>1, <2>2, <2>3
<1>3. CASE CastSettles(x)
  <2>1. PICK e \in CastOutcomes(d) :
               cast' = [cast EXCEPT ![x] = [e EXCEPT !.trying = NoNetwork, !.good = FALSE, !.keep = FALSE]]
    BY <1>3 DEF CastSettles
  <2>2. d.trying # NoNetwork
    BY <1>3 DEF CastSettles
  <2>3. /\ e.saved = d.saved /\ e.state # "saved" /\ DOMAIN e = DOMAIN d
        /\ e.state = "unsaved" => e.ssid = d.trying
    BY <1>1 DEF CastOutcomes, Casts
  <2> DEFINE c == [e EXCEPT !.trying = NoNetwork, !.good = FALSE, !.keep = FALSE]
  <2>4. c.saved = e.saved /\ c.trying = NoNetwork /\ c.state = e.state /\ c.ssid = e.ssid
    BY <1>1, <2>3 DEF Casts
  <2>5. cast' = [cast EXCEPT ![x] = c]
    BY <2>1
  <2> HIDE DEF c
  <2>6. c \in Casts
    BY <1>1, <2>5
  <2>7. QED
    BY <2>2, <2>3, <2>4, <2>5, <2>6
<1>4. CASE CastDrops(x)
  <2> DEFINE c == [d EXCEPT !.ssid = NoNetwork, !.state = "idle", !.hotspot = TRUE]
  <2>1. cast' = [cast EXCEPT ![x] = c]
    BY <1>1, <1>4 DEF CastDrops, Casts
  <2>2. c.saved = d.saved /\ c.trying = d.trying /\ c.state = "idle"
    BY <1>1 DEF Casts
  <2> HIDE DEF c
  <2>3. c \in Casts
    BY <1>1, <2>1
  <2>4. QED
    BY <2>1, <2>2, <2>3
<1>5. QED
  BY <1>2, <1>3, <1>4

LEMMA WorldConfirms ==
    ASSUME Before, ConfirmedInv, Undisturbed, World
    PROVE  ConfirmedInv'
<1>1. UNCHANGED <<shared, work, here, pc>>
  BY DEF World
<1>2. PICK x \in Devices : CastLeaves(x) \/ CastSettles(x) \/ CastDrops(x)
  BY DEF World
<1>3. PICK c \in Casts :
             /\ cast' = [cast EXCEPT ![x] = c]
             /\ c.saved = cast[x].saved /\ c.trying \in {NoNetwork, cast[x].trying}
             /\ c.state # "saved"
             /\ c.state = "unsaved" => c.ssid = cast[x].trying /\ cast[x].trying # NoNetwork
  BY <1>2, WorldChange
<1>4. \A y \in Devices : cast'[y] = IF y = x THEN c ELSE cast[y]
  BY <1>3, BeforeFacts DEF CastsOK
<1>5. CastsKnow' /\ \A y \in Devices : cast'[y].saved = cast[y].saved
  BY <1>3, <1>4 DEF ConfirmedInv, CastsKnow
<1>6. DoneOK' /\ DoneIsVerified'
  BY <1>1, <1>5, ClaimKept, BeforeFacts
<1>7. Confirmed(pc, work, here)'
  <2>1. pc \in SavingPlaces => here.device.id \in Devices
    BY SavingKnows
  <2>2. pc \in SavingPlaces => (Saved(work, here)' <=> Saved(work, here))
    BY <1>1, <1>5, <2>1 DEF Saved
  <2>3. pc \in AskingPoints /\ Asked(work, here) => Asked(work, here)'
    <3> SUFFICES ASSUME pc \in AskingPoints, Asked(work, here) PROVE Asked(work, here)'
      OBVIOUS
    <3>1. CASE here.device.id # x
      BY <1>1, <1>4, <2>1, <2>2, <3>1, Points DEF Asked
    <3>2. CASE here.device.id = x
      <4>1. cast[x].trying \in {NoNetwork, work.target}
        BY <3>2 DEF Undisturbed
      <4>2. c.state \in {"saved", "unsaved"} => c.ssid = work.target
        BY <1>3, <4>1
      <4>3. cast'[here.device.id] = c
        BY <1>4, <3>2
      <4>4. QED
        BY <1>1, <2>2, <4>2, <4>3, Points DEF Asked
    <3>3. QED
      BY <3>1, <3>2
  <2>4. Confirmed(pc, work, here)
    BY DEF ConfirmedInv
  <2>5. QED
    BY <1>1, <2>2, <2>3, <2>4, Points DEF Confirmed
<1>8. QED
  BY <1>5, <1>6, <1>7 DEF ConfirmedInv

LEMMA StillConfirms ==
    ASSUME Before, ConfirmedInv, FlowInv', Tick \/ Client \/ UNCHANGED vars
    PROVE  ConfirmedInv'
<1>1. UNCHANGED <<shared, work, here, pc, cast>>
  BY DEF Tick, Client, Command, Destroy, Continue, With, vars
<1>2. Confirmed(pc', work', here')
  BY <1>1 DEF ConfirmedInv, Confirmed, Asked, Saved
<1>3. QED
  BY <1>1, <1>2, SameCasts

LEMMA StepConfirms ==
    ASSUME FullInv, ConfirmedInv, Undisturbed, [Next]_vars
    PROVE  ConfirmedInv'
<1>1. Before /\ FlowInv'
  BY BeforeHolds, StepFits DEF FullInv
<1>2. CASE Worker
  BY <1>1, <1>2, TakeConfirms, FlowConfirms, ConnectConfirms, SaveConfirms DEF Worker
<1>3. QED
  BY <1>1, <1>2, WorldConfirms, StillConfirms DEF Next

LEMMA InitConfirms == FirstCasts /\ Init => ConfirmedInv
<1> SUFFICES ASSUME FirstCasts, Init PROVE ConfirmedInv
  OBVIOUS
<1>1. /\ shared = NoSnapshot /\ work = NoSnapshot /\ here = Nowhere /\ pc = "waiting"
      /\ cast \in CastsFirst
  BY DEF Init
<1>2. shared.stage = "searching" /\ ~here.saved
  BY <1>1 DEF NoSnapshot, Nowhere
<1>3. pc \notin JoinPlaces
  BY <1>1, Apart
<1>4. Confirmed(pc, work, here)
  BY <1>2, <1>3, Points DEF Confirmed
<1>5. CastsKnow
  BY <1>1 DEF FirstCasts, CastsKnow
<1>6. QED
  BY <1>2, <1>4, <1>5 DEF ConfirmedInv, DoneOK, DoneIsVerified

(* Success is claimed only for the network that the Chromecast has saved   *)
(* and answered on, whatever is lost, replaced or asked again (finish() and*)
(* network_saved()), unless the attempt to join another network that was   *)
(* replaced is still under way on the Chromecast while the worker asks it  *)
(* to save: then what it saves need not be what is reported.               *)
THEOREM DoneVerifiedUnlessDisturbed == FirstCasts /\ Spec /\ []Undisturbed => []DoneIsVerified
<1>1. FirstCasts /\ Init => FullInv /\ ConfirmedInv
  BY InitFits, InitConfirms
<1>2. FullInv /\ ConfirmedInv /\ Undisturbed /\ [Next]_vars => (FullInv /\ ConfirmedInv)'
  BY StepFits, StepConfirms
<1>3. FullInv /\ ConfirmedInv => DoneIsVerified
  BY DEF ConfirmedInv
<1>4. QED
  BY <1>1, <1>2, <1>3, PTL DEF Spec
===============================================================================
