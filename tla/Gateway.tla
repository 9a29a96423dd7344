------------------------------ MODULE Gateway ------------------------------
(***************************************************************************)
(* The CAN task's loop (main.cpp:622-642 and 801-872) and the gateway it   *)
(* drives (core/gateway.cpp): poll bus A, poll bus B, drain the ingress    *)
(* ring through forwardFrame, let the replay engine inject frames, and     *)
(* close the statistics window now and then.  Rules, observation and DBC   *)
(* enter as the choices forwardFrame makes from them.                      *)
(*                                                                         *)
(* A definition named ...Mutant is a faulty version of the one after it,   *)
(* kept to show that a property notices the fault; nothing uses it.        *)
(***************************************************************************)
EXTENDS Integers, Sequences

CONSTANTS
  RxQueueSize,   \* kRxQueueSize, 128; the ring holds one frame fewer
  MaxPoll,       \* kMaxPollFramesPerBus, 128
  RateCap,       \* 65535, what a 16-bit rate can show
  MaxFrames,     \* bound: frames per bus
  MaxReplay      \* bound: replayed frames

Buses == {"A", "B"}
Paths == {"direct", "active"}
Positions == 0 .. RxQueueSize - 1
Frames == Buses \X (1 .. MaxFrames)

ASSUME GatewayAssumption ==
  /\ RxQueueSize \in Nat \ {0} /\ MaxPoll \in Nat \ {0}
  /\ RateCap \in Nat
  /\ MaxFrames \in Nat /\ MaxReplay \in Nat

VARIABLES
  arrived,     \* frames that reached each bus: numbered from 1
  ingress,     \* ingress_a_frames and ingress_b_frames
  pc,          \* the loop's phase: "pollA", "pollB", "drain", "replay"
  processed,   \* frames read from the bus in this phase
  rx_queue, queue_head, queue_tail,
  rx_queue_depth, rx_drops_run,
  forwarded, passive, injected,          \* stats_ counters
  direct_window, mutated_window,         \* frames per path in this window
  at_roll,                               \* last_forwarded_frames_at_roll_
  rates,                                 \* the three published rates
  \* history
  burst,       \* frames read from both buses since the ring was last drained
  passed_over, \* per bus: frames read from the other while one waits here
  sent         \* number of the last frame of each bus that was forwarded

vars == <<arrived, ingress, pc, processed, rx_queue, queue_head, queue_tail,
          rx_queue_depth, rx_drops_run, forwarded, passive, injected,
          direct_window, mutated_window, at_roll, rates, burst, passed_over, sent>>
ring == <<rx_queue, queue_head, queue_tail, rx_queue_depth, rx_drops_run>>
stats == <<forwarded, passive, injected, direct_window,
           mutated_window, at_roll, rates>>

-----------------------------------------------------------------------------
NextIndex(i) == (i + 1) % RxQueueSize
Depth(head, tail) ==
  IF head >= tail THEN head - tail ELSE RxQueueSize - tail + head
Capped(n) == IF n > RateCap THEN RateCap ELSE n

Init ==
  /\ arrived = [b \in Buses |-> 0] /\ ingress = [b \in Buses |-> 0]
  /\ pc = "pollA" /\ processed = 0
  /\ rx_queue = [i \in Positions |-> <<"A", 1>>]
  /\ queue_head = 0 /\ queue_tail = 0
  /\ rx_queue_depth = 0 /\ rx_drops_run = 0
  /\ forwarded = 0 /\ passive = 0 /\ injected = 0
  /\ direct_window = 0 /\ mutated_window = 0 /\ at_roll = 0
  /\ rates = [direct |-> 0, mutated |-> 0, all |-> 0]
  /\ burst = 0 /\ passed_over = [b \in Buses |-> 0]
  /\ sent = [b \in Buses |-> 0]

(* The bus controllers receive on their own, at any time.                  *)
Arrive(b) ==
  /\ arrived[b] < MaxFrames
  /\ arrived' = [arrived EXCEPT ![b] = @ + 1]
  /\ UNCHANGED <<ingress, pc, processed, ring, stats, burst, passed_over, sent>>

(* onFrameReceivedFromIsr.  The ready gate is open whenever this runs, so  *)
(* the boot counter never moves.                                           *)
FullMutant == NextIndex(NextIndex(queue_head)) = queue_tail
Full == NextIndex(queue_head) = queue_tail

Measure == rx_queue_depth' = Depth(queue_head', queue_tail')

Drop ==
  /\ rx_drops_run' = rx_drops_run + 1
  /\ UNCHANGED <<rx_queue, queue_head, queue_tail, rx_queue_depth>>

Enqueue(f) ==
  /\ rx_queue' = [rx_queue EXCEPT ![queue_head] = f]
  /\ queue_head' = NextIndex(queue_head)
  /\ UNCHANGED <<queue_tail, rx_drops_run>>
  /\ Measure

Push(f) == IF Full THEN Drop ELSE Enqueue(f)

Bus == IF pc = "pollA" THEN "A" ELSE "B"
Pending(b) == arrived[b] > ingress[b]

(* The bus has had its share of this pass.                                 *)
HadShareMutant == FALSE
HadShare == processed = MaxPoll

(* One turn of pollCanIngress: the ingress counter counts dropped frames.  *)
PollFrame ==
  /\ pc \in {"pollA", "pollB"} /\ ~HadShare /\ Pending(Bus)
  /\ Push(<<Bus, ingress[Bus] + 1>>)
  /\ ingress' = [ingress EXCEPT ![Bus] = @ + 1]
  /\ processed' = processed + 1
  /\ burst' = burst + 1
  /\ passed_over' = [b \in Buses |-> IF b # Bus /\ Pending(b)
                                     THEN passed_over[b] + 1 ELSE 0]
  /\ UNCHANGED <<arrived, pc, stats, sent>>

EndPoll ==
  /\ pc \in {"pollA", "pollB"} /\ (HadShare \/ ~Pending(Bus))
  /\ pc' = IF pc = "pollA" THEN "pollB" ELSE "drain"
  /\ processed' = 0
  /\ UNCHANGED <<arrived, ingress, ring, stats, burst, passed_over, sent>>

(* forwardFrame: the direct path when no rule is active for the frame and  *)
(* it is not observed, the active path otherwise, where an observed frame  *)
(* may meet no rule.  The transmit driver is always attached, so every     *)
(* frame is counted in one window.  The counters of rules applied and of   *)
(* signals decoded are left out.                                           *)
ForwardFrame(path) ==
  /\ forwarded' = forwarded + 1
  /\ IF path = "direct"
     THEN /\ passive' = passive + 1
          /\ direct_window' = direct_window + 1
          /\ UNCHANGED mutated_window
     ELSE /\ mutated_window' = mutated_window + 1
          /\ UNCHANGED <<passive, direct_window>>

(* pollRx empties the ring.                                                *)
DrainedMutant == queue_head \in {queue_tail, NextIndex(queue_tail)}
Drained == queue_tail = queue_head

(* One turn of pollRx; a frame counts as sent when it leaves the ring.     *)
Oldest == rx_queue[queue_tail]
DrainFrame ==
  /\ pc = "drain" /\ ~Drained
  /\ \E path \in Paths : ForwardFrame(path)
  /\ sent' = [sent EXCEPT ![Oldest[1]] = Oldest[2]]
  /\ queue_tail' = NextIndex(queue_tail)
  /\ UNCHANGED <<arrived, ingress, pc, processed, rx_queue, queue_head,
                 rx_queue_depth, rx_drops_run, injected, at_roll, rates,
                 burst, passed_over>>

EndDrain ==
  /\ pc = "drain" /\ Drained
  /\ pc' = "replay"
  /\ burst' = 0
  /\ UNCHANGED <<arrived, ingress, processed, rx_queue, queue_head, queue_tail,
                 rx_drops_run, stats, passed_over, sent>>
  /\ Measure

(* injectReplayFrame: the same pipeline, past the ring.                    *)
InjectReplayFrame ==
  /\ pc = "replay" /\ injected < MaxReplay
  /\ \E path \in Paths : ForwardFrame(path)
  /\ injected' = injected + 1
  /\ UNCHANGED <<arrived, ingress, pc, processed, ring, at_roll, rates, burst,
                 passed_over, sent>>

ResetWindowsMutant == direct_window' = 0 /\ UNCHANGED mutated_window
ResetWindows == direct_window' = 0 /\ mutated_window' = 0
RollPerSecondWindow ==
  /\ rates' = [direct |-> Capped(direct_window),
               mutated |-> Capped(mutated_window),
               all |-> Capped(forwarded - at_roll)]
  /\ ResetWindows
  /\ at_roll' = forwarded
  /\ UNCHANGED <<forwarded, passive, injected>>

(* The pass ends, with or without a second having gone by.                 *)
EndPass ==
  /\ pc = "replay"
  /\ pc' = "pollA"
  /\ RollPerSecondWindow \/ UNCHANGED stats
  /\ UNCHANGED <<arrived, ingress, processed, ring, burst, passed_over, sent>>

CanTask ==
  PollFrame \/ EndPoll \/ DrainFrame \/ EndDrain \/ InjectReplayFrame \/ EndPass

Next == CanTask \/ \E b \in Buses : Arrive(b)

Spec == Init /\ [][Next]_vars

-----------------------------------------------------------------------------
(* Every frame read from a bus is forwarded, waiting or counted as         *)
(* dropped, exactly once.                                                  *)
FramesConserved ==
  ingress["A"] + ingress["B"] =
    (forwarded - injected) + Depth(queue_head, queue_tail) + rx_drops_run

(* Frames of one bus leave in the order in which they arrived, none twice. *)
OrderPreserved ==
  [][/\ \A b \in Buses : sent'[b] >= sent[b]
     /\ forwarded' - injected' > forwarded - injected =>
          \E b \in Buses : sent'[b] > sent[b]]_vars

(* A frame is dropped only when the two polls of one pass read at least as *)
(* many frames as the ring holds: nothing is left over from earlier        *)
(* passes.                                                                 *)
DropsNeedAFullBurst ==
  [][rx_drops_run' # rx_drops_run => burst' >= RxQueueSize]_vars

(* The queue depth that clients are shown never understates the ring.      *)
GaugeCoversRing == rx_queue_depth >= Depth(queue_head, queue_tail)

(* The two path windows together hold the frames forwarded since the last  *)
(* roll, so the published rates add up, up to the 16-bit cap.              *)
WindowsAddUp ==
  /\ direct_window + mutated_window = forwarded - at_roll
  /\ rates.all = Capped(rates.direct + rates.mutated)

(* What clients are told adds up: frames, queue and rates.                 *)
CountsAddUp == FramesConserved /\ GaugeCoversRing /\ WindowsAddUp

(* The ring is a bounded FIFO of RxQueueSize - 1 frames.                   *)
Waiting ==
  [i \in 1 .. Depth(queue_head, queue_tail) |->
     rx_queue[(queue_tail + i - 1) % RxQueueSize]]
Fifo == INSTANCE BoundedFifo WITH
  Capacity <- RxQueueSize - 1, waiting <- Waiting, lost <- rx_drops_run
ImplementsFifo == Fifo!Spec

(* So frames wait in order, and they leave in order, none twice.           *)
FramesInOrder == ImplementsFifo /\ OrderPreserved

(* A bus that never falls silent keeps neither the other bus nor the ring  *)
(* waiting (the cap of main.cpp:622-633): while a frame waits on one bus,  *)
(* at most MaxPoll frames are read from the other before its own turn      *)
(* comes, over however many passes, and at most MaxPoll frames of each are *)
(* read between two drains of the ring.                                    *)
BusesTakeTurns ==
  /\ \A b \in Buses : passed_over[b] <= MaxPoll
  /\ burst <= 2 * MaxPoll
=============================================================================
