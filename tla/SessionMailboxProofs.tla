------------------------- MODULE SessionMailboxProofs -------------------------
(***************************************************************************)
(* Proofs about SessionMailbox, for every bound: its type invariant, the   *)
(* consistency of the slot, that no notification is lost, and that every   *)
(* step is a step of LatestCommand or a stutter.                           *)
(***************************************************************************)
EXTENDS SessionMailbox, TLAPS

(* What makes the invariants inductive: only a client that has posted its  *)
(* stop can find one in the slot, so send() is never refused and the       *)
(* pending number is always the last one given out.                        *)
StopIsLast ==
    /\ slot.command = "stop" => client \in {"joining", "gone"}
    /\ slot.pending = slot.sequence

IInv == TypeOK /\ SlotConsistent /\ NoLostNotification /\ StopIsLast

(* What LatestCommand asks of the first state and of every step.           *)
LatestSafely == Latest!Init /\ [][Latest!Next]_Latest!vars
-------------------------------------------------------------------------------
(* The worker leaves an empty slot and keeps its numbers.                  *)
LEMMA TakenFacts ==
    ASSUME NEW s \in Slots({NoArgument}, {NoPassword, Secret})
    PROVE  /\ Taken(s) \in Slots({NoArgument}, {NoPassword, Secret})
           /\ Taken(s).command = "none"
           /\ Taken(s).password = NoPassword
           /\ Taken(s).sequence = s.sequence
           /\ Taken(s).pending = s.pending
           /\ Taken(s).interrupted = FALSE
  BY DEF Taken, Slots, Commands

(* The stop takes the place of the pending command and keeps its numbers.  *)
LEMMA StoppedFacts ==
    ASSUME NEW s \in Slots({NoArgument}, {NoPassword, Secret})
    PROVE  /\ Stopped(s) \in Slots({NoArgument}, {NoPassword, Secret})
           /\ Stopped(s).command = "stop"
           /\ Stopped(s).password = s.password
           /\ Stopped(s).sequence = s.sequence
           /\ Stopped(s).pending = s.pending
           /\ Stopped(s).interrupted = TRUE
  BY DEF Stopped, Slots, Commands

(* Two strings that the proofs must tell apart.                            *)
LEMMA SecretIsAPassword == Secret # NoPassword
  BY DEF Secret, NoPassword
-------------------------------------------------------------------------------
LEMMA InitEstablishesIInv == Init => IInv
<1> SUFFICES ASSUME Init PROVE IInv
  OBVIOUS
<1>2. /\ slot \in Slots({NoArgument}, {NoPassword, Secret})
      /\ slot.command = "search" /\ slot.password = NoPassword
      /\ slot.sequence = 1 /\ slot.pending = 1 /\ slot.interrupted = TRUE
  BY DEF Init, EmptySlot, Sent, Slots, Commands, Requests
<1>3. TypeOK
  BY <1>2 DEF Init, TypeOK, Commands
<1>4. SlotConsistent /\ NoLostNotification /\ StopIsLast
  BY <1>2, SecretIsAPassword DEF Init, SlotConsistent, NoLostNotification, StopIsLast
<1>5. QED
  BY <1>3, <1>4 DEF IInv

LEMMA StepPreservesIInv == IInv /\ [Next]_vars => IInv'
<1> SUFFICES ASSUME IInv, [Next]_vars PROVE IInv'
  OBVIOUS
<1> USE DEF IInv
<1>1. ASSUME NEW c \in Requests, Send(c) PROVE IInv'
  <2>1. slot.command # "stop"
    BY <1>1 DEF Send, StopIsLast
  <2>2. PICK p \in {NoPassword, Secret} :
           /\ slot' = Sent(slot, c, NoArgument, p)
           /\ p = Secret => c = "join"
    BY <1>1, SecretIsAPassword DEF Send, Requests
  <2>3. /\ slot' \in Slots({NoArgument}, {NoPassword, Secret})
        /\ slot'.command = c /\ slot'.password = p /\ slot'.interrupted = TRUE
        /\ slot'.sequence = slot.sequence + 1 /\ slot'.pending = slot.sequence + 1
    <3>1. slot \in Slots({NoArgument}, {NoPassword, Secret})
      BY DEF TypeOK
    <3>2. slot' = Sent(slot, c, NoArgument, p)
      BY <2>2
    <3>3. slot' = [command |-> c, argument |-> NoArgument, password |-> p,
                   sequence |-> slot.sequence + 1, pending |-> slot.sequence + 1,
                   interrupted |-> TRUE]
      BY <2>1, <3>2 DEF Sent
    <3>4. QED
      BY <3>1, <3>3 DEF Slots, Commands
  <2>4. slot.sequence \in Nat /\ slot.pending \in Nat
    BY DEF TypeOK, Slots
  <2>5. TypeOK'
    BY <1>1, <2>3, <2>4 DEF TypeOK, Send, workerVars
  <2>6. SlotConsistent'
    BY <1>1, <2>2, <2>3, <2>4 DEF SlotConsistent, TypeOK, Send, workerVars, Requests
  <2>7. NoLostNotification' /\ StopIsLast'
    BY <1>1, <2>3 DEF NoLostNotification, StopIsLast, Send, workerVars, Requests
  <2>8. QED
    BY <2>5, <2>6, <2>7
<1>2. ASSUME Drain PROVE IInv'
  BY <1>2 DEF Drain, TypeOK, SlotConsistent, NoLostNotification, StopIsLast, workerVars
<1>3. ASSUME Copy PROVE IInv'
  BY <1>3 DEF Copy, TypeOK, SlotConsistent, NoLostNotification, StopIsLast, workerVars
<1>4. ASSUME Destroy PROVE IInv'
  <2>1. slot' = Stopped(slot) /\ slot \in Slots({NoArgument}, {NoPassword, Secret})
    BY <1>4 DEF Destroy, TypeOK
  <2>2. QED
    BY <1>4, <2>1, StoppedFacts
    DEF Destroy, TypeOK, SlotConsistent, NoLostNotification, StopIsLast, workerVars
<1>5. ASSUME Joined PROVE IInv'
  <2>1. /\ slot' \in Slots({NoArgument}, {NoPassword, Secret})
        /\ slot'.command = slot.command /\ slot'.password = NoPassword
        /\ slot'.interrupted = slot.interrupted
        /\ slot'.sequence = slot.sequence /\ slot'.pending = slot.pending
    BY <1>5 DEF Joined, TypeOK, Slots
  <2>2. QED
    BY <1>5, <2>1, SecretIsAPassword
    DEF Joined, TypeOK, SlotConsistent, NoLostNotification, StopIsLast, workerVars
<1>6. ASSUME Take PROVE IInv'
  <2>1. slot' = Taken(slot) /\ slot \in Slots({NoArgument}, {NoPassword, Secret})
    BY <1>6 DEF Take, TypeOK
  <2>2. slot.pending \in Nat /\ slot.command \in Commands
    BY <2>1 DEF Slots
  <2>3. TypeOK'
    BY <1>6, <2>1, <2>2, TakenFacts DEF Take, TypeOK, clientVars
  <2>4. SlotConsistent'
    <3>1. /\ slot'.command = "none" /\ slot'.password = NoPassword
          /\ slot'.interrupted = FALSE
          /\ slot'.sequence = slot.sequence /\ slot'.pending = slot.pending
      BY <2>1, TakenFacts
    <3>2. /\ current' = slot.pending /\ current <= slot.pending
          /\ shared' = shared /\ snapshot' = snapshot /\ awaiting' = awaiting
      BY <1>6 DEF Take, clientVars, SlotConsistent
    <3>3. QED
      BY <2>2, <3>1, <3>2, SecretIsAPassword DEF TypeOK, SlotConsistent
  <2>5. NoLostNotification' /\ StopIsLast'
    BY <1>6, <2>1, TakenFacts DEF Take, NoLostNotification, StopIsLast, clientVars
  <2>6. QED
    BY <2>3, <2>4, <2>5
<1>7. ASSUME Store PROVE IInv'
  BY <1>7 DEF Store, TypeOK, SlotConsistent, NoLostNotification, StopIsLast, clientVars
<1>8. ASSUME Notify PROVE IInv'
  BY <1>8 DEF Notify, TypeOK, SlotConsistent, NoLostNotification, StopIsLast, clientVars
<1>9. ASSUME Finish PROVE IInv'
  BY <1>9 DEF Finish, TypeOK, SlotConsistent, NoLostNotification, StopIsLast, clientVars
<1>10. CASE UNCHANGED vars
  BY <1>10 DEF vars, TypeOK, SlotConsistent, NoLostNotification, StopIsLast
<1>11. QED
  BY <1>1, <1>2, <1>3, <1>4, <1>5, <1>6, <1>7, <1>8, <1>9, <1>10 DEF Next, Worker, Client

THEOREM Invariance == Spec => []IInv
<1>1. QED
  BY InitEstablishesIInv, StepPreservesIInv, PTL DEF Spec

(* Every variable of the mailbox keeps its type.                           *)
THEOREM TypeCorrect == Spec => []TypeOK
<1>1. IInv => TypeOK
  BY DEF IInv
<1>2. QED
  BY <1>1, Invariance, PTL

(* send(), run() and destroy() keep the slot's flag, password and numbers  *)
(* consistent in every interleaving.                                       *)
THEOREM SlotStaysConsistent == Spec => []SlotConsistent
<1>1. IInv => SlotConsistent
  BY DEF IInv
<1>2. QED
  BY <1>1, Invariance, PTL

(* publish() against take_snapshot(): an edition nobody has taken is never *)
(* left without a readable eventfd or a thread about to act on it.         *)
THEOREM NotificationsKept == Spec => []NoLostNotification
<1>1. IInv => NoLostNotification
  BY DEF IInv
<1>2. QED
  BY <1>1, Invariance, PTL
-------------------------------------------------------------------------------
LEMMA InitRefines == Init => Latest!Init
  BY DEF Init, Latest!Init

LEMMA StepRefines == IInv /\ [Next]_vars => [Latest!Next]_Latest!vars
<1> SUFFICES ASSUME IInv, [Next]_vars PROVE [Latest!Next]_Latest!vars
  OBVIOUS
<1> USE DEF IInv, Latest!vars
<1>0. /\ slot.pending = slot.sequence /\ slot.sequence = awaiting
      /\ current <= awaiting /\ shared.command <= current
      /\ awaiting \in Nat /\ current \in Nat /\ shared.command \in Nat
  BY DEF SlotConsistent, StopIsLast, TypeOK
<1>1. ASSUME NEW c \in Requests, Send(c) PROVE Latest!Issue
  <2>1. slot.command # "stop"
    BY <1>1 DEF Send, StopIsLast
  <2>2. slot'.sequence = slot.sequence + 1
    BY <1>1, <2>1 DEF Send, Sent
  <2>3. QED
    BY <1>0, <1>1, <2>2 DEF Send, workerVars, Latest!Issue
<1>2. ASSUME Take PROVE Latest!Serve \/ UNCHANGED Latest!vars
  <2>1. current' = awaiting
    BY <1>0, <1>2 DEF Take
  <2>2. CASE current < awaiting
    BY <1>2, <2>1, <2>2 DEF Take, clientVars, Latest!Serve
  <2>3. CASE current = awaiting
    BY <1>2, <2>1, <2>3 DEF Take, clientVars
  <2>4. QED
    BY <1>0, <2>2, <2>3
<1>3. ASSUME Copy PROVE Latest!Show \/ UNCHANGED Latest!vars
  <2>1. CASE shared.command < awaiting
    BY <1>3, <2>1 DEF Copy, workerVars
  <2>2. CASE ~(shared.command < awaiting)
    <3>1. shared.command = awaiting /\ current = awaiting
      BY <1>0, <2>2
    <3>2. snapshot'.command = awaiting
      BY <1>3, <2>2, <3>1 DEF Copy
    <3>3. QED
      BY <1>3, <3>1, <3>2 DEF Copy, workerVars, Latest!Show
  <2>3. QED
    BY <2>1, <2>2
<1>4. ASSUME Destroy PROVE Latest!Close
  BY <1>4 DEF Destroy, workerVars, Latest!Close
<1>5. ASSUME Drain \/ Joined \/ Store \/ Notify \/ Finish PROVE UNCHANGED Latest!vars
  BY <1>5 DEF Drain, Joined, Store, Notify, Finish, workerVars, clientVars
<1>6. CASE UNCHANGED vars
  BY <1>6 DEF vars
<1>7. QED
  BY <1>1, <1>2, <1>3, <1>4, <1>5, <1>6 DEF Next, Worker, Client, Latest!Next

(* "Each command replaces the running one" (session.h): every step of the  *)
(* threads is a step of LatestCommand or leaves it unchanged.  Its         *)
(* fairness, Latest!Spec's other half, is model-checked.                   *)
THEOREM RefinesLatest == Spec => LatestSafely
<1>1. QED
  BY InitRefines, StepRefines, Invariance, PTL DEF Spec, LatestSafely
===============================================================================
