---------------------------- MODULE TrafficProofs -----------------------------
(***************************************************************************)
(* Proofs about what the CAN task sends.  Gateway, for a ring and polls of *)
(* any size: the figures add up, only a full burst drops frames, and the   *)
(* ring is a bounded FIFO from which the frames of each bus leave in order.*)
(* Replay, for logs of any length, an array of any size and a clock that   *)
(* wraps anywhere: a replay that nothing disturbs sends its log in order,  *)
(* and a stop lets at most one more frame out.                             *)
(***************************************************************************)
EXTENDS Gateway, Replay, TLAPS, SequenceTheorems

Waits == Depth(queue_head, queue_tail)
Phases == {"pollA", "pollB", "drain", "replay"}

(* Frames are numbered as they are read, and read after they arrived.      *)
TypeInv ==
  /\ arrived \in [Buses -> 0 .. MaxFrames] /\ ingress \in [Buses -> Nat]
  /\ \A b \in Buses : ingress[b] <= arrived[b]
  /\ pc \in Phases /\ burst \in Nat
  /\ rx_queue \in [Positions -> Buses \X Nat]
  /\ queue_head \in Positions /\ queue_tail \in Positions
  /\ rx_queue_depth \in Nat /\ rx_drops_run \in Nat
  /\ forwarded \in Nat /\ injected \in Nat /\ at_roll \in Nat
  /\ direct_window \in Nat /\ mutated_window \in Nat
  /\ sent \in [Buses -> Nat]

(* The ring is empty when polling starts, so it never holds more than the  *)
(* pass has read.                                                          *)
BurstInv ==
  /\ pc \in {"pollA", "pollB"} => Waits <= burst
  /\ pc = "replay" => Waits = 0

(* Waiting frames of a bus are in order, after all that were sent.         *)
QueueInv ==
  /\ \A i \in 1 .. Waits :
       /\ Waiting[i] \in Buses \X Nat
       /\ sent[Waiting[i][1]] < Waiting[i][2]
       /\ Waiting[i][2] <= ingress[Waiting[i][1]]
  /\ \A i, j \in 1 .. Waits :
       i < j /\ Waiting[i][1] = Waiting[j][1] => Waiting[i][2] < Waiting[j][2]
  /\ \A b \in Buses : sent[b] <= ingress[b]

GatewayInv == TypeInv /\ BurstInv /\ CountsAddUp

(* What a waiting bus has been made to wait for is what its neighbour read *)
(* in this pass or, once this bus has had its turn, in the pass before.    *)
Spared(b) == passed_over[b] = 0
TurnsInv ==
  /\ processed \in 0 .. MaxPoll
  /\ passed_over \in [Buses -> 0 .. MaxPoll]
  /\ \A b \in Buses : ~Pending(b) => Spared(b)
  /\ pc = "pollA" => /\ passed_over["B"] <= processed /\ burst = processed
                     /\ processed > 0 => Spared("A")
  /\ pc = "pollB" => /\ processed > 0 => Spared("B")
                     /\ passed_over["A"] <= processed
                     /\ burst <= MaxPoll + processed
  /\ pc = "drain" => /\ Spared("B") /\ burst <= 2 * MaxPoll
                     /\ processed = 0
  /\ pc = "replay" => Spared("B") /\ burst = 0 /\ processed = 0

-----------------------------------------------------------------------------
(* The ring's arithmetic.                                                  *)
LEMMA Modulo ==
  ASSUME NEW n \in Nat \ {0}, NEW x \in Nat, x < n + n
  PROVE  x % n = IF x < n THEN x ELSE x - n
OBVIOUS

LEMMA NextIndexIs ==
  ASSUME NEW i \in Positions
  PROVE  /\ NextIndex(i) = (IF i = RxQueueSize - 1 THEN 0 ELSE i + 1)
         /\ NextIndex(i) \in Positions
<1>1. RxQueueSize \in Nat \ {0} /\ i + 1 \in Nat /\ i + 1 < RxQueueSize + RxQueueSize
  BY GatewayAssumption DEF Positions
<1>2. ASSUME NEW n \in Nat \ {0}, NEW x \in Nat, n = RxQueueSize, x = i + 1, x < n + n
      PROVE  x % n = IF x < n THEN x ELSE x - n
  BY <1>2, Modulo
<1> QED
  BY <1>1, <1>2 DEF NextIndex, Positions

LEMMA DepthIs ==
  ASSUME NEW head \in Positions, NEW tail \in Positions
  PROVE  /\ Depth(head, tail) \in 0 .. RxQueueSize - 1
         /\ Depth(head, tail) = 0 <=> head = tail
         /\ NextIndex(head) = tail => Depth(head, tail) = RxQueueSize - 1
         /\ NextIndex(head) # tail =>
              Depth(NextIndex(head), tail) = Depth(head, tail) + 1
         /\ head # tail => Depth(head, NextIndex(tail)) = Depth(head, tail) - 1
<1>1. RxQueueSize \in Nat /\ RxQueueSize > 0
  BY GatewayAssumption
<1>2. NextIndex(head) = (IF head = RxQueueSize - 1 THEN 0 ELSE head + 1)
      /\ NextIndex(tail) = (IF tail = RxQueueSize - 1 THEN 0 ELSE tail + 1)
  BY NextIndexIs
<1> QED
  BY <1>1, <1>2 DEF Depth, Positions

LEMMA PlaceIs ==
  ASSUME NEW tail \in Positions, NEW i \in 0 .. RxQueueSize - 1
  PROVE  /\ (tail + i) % RxQueueSize =
              (IF tail + i < RxQueueSize THEN tail + i ELSE tail + i - RxQueueSize)
         /\ (tail + i) % RxQueueSize \in Positions
<1>1. RxQueueSize \in Nat \ {0} /\ tail + i \in Nat
      /\ tail + i < RxQueueSize + RxQueueSize
  BY GatewayAssumption DEF Positions
<1>2. ASSUME NEW n \in Nat \ {0}, NEW x \in Nat, n = RxQueueSize, x = tail + i, x < n + n
      PROVE  x % n = IF x < n THEN x ELSE x - n
  BY <1>2, Modulo
<1> QED
  BY <1>1, <1>2 DEF Positions

-----------------------------------------------------------------------------
LEMMA GatewayInit == Init => GatewayInv
<1> SUFFICES ASSUME Init PROVE GatewayInv
  OBVIOUS
<1>1. 0 \in Positions /\ RateCap \in Nat /\ MaxFrames \in Nat
  BY GatewayAssumption DEF Positions
<1>2. Waits = 0
  BY <1>1, DepthIs DEF Init, Waits
<1>3. TypeInv
  BY <1>1 DEF Init, TypeInv, Phases, Buses
<1>4. CountsAddUp
  BY <1>1, <1>2 DEF Init, CountsAddUp, FramesConserved, GaugeCoversRing, WindowsAddUp,
     Waits, Capped, Buses
<1> QED
  BY <1>2, <1>3, <1>4 DEF GatewayInv, BurstInv, Init

(* Capping each rate and then their sum is capping the sum.                *)
LEMMA CappedSum ==
  ASSUME NEW m \in Nat, NEW n \in Nat
  PROVE  Capped(m + n) = Capped(Capped(m) + Capped(n))
BY GatewayAssumption DEF Capped

(* One frame is read from the bus in turn.                                 *)
LEMMA PollFrameStep == GatewayInv /\ PollFrame => GatewayInv'
<1> SUFFICES ASSUME GatewayInv, PollFrame PROVE GatewayInv'
  OBVIOUS
<1> USE DEF GatewayInv
<1>1. Bus \in Buses /\ pc \in {"pollA", "pollB"} /\ pc' = pc /\ burst' = burst + 1
      /\ UNCHANGED <<arrived, stats, sent>>
  BY DEF PollFrame, Bus, Buses
<1>2. /\ ingress' \in [Buses -> Nat] /\ \A b \in Buses : ingress'[b] <= arrived'[b]
      /\ ingress'["A"] + ingress'["B"] = ingress["A"] + ingress["B"] + 1
  <2>1. ingress' = [ingress EXCEPT ![Bus] = @ + 1] /\ arrived[Bus] > ingress[Bus]
        /\ arrived' = arrived
    BY <1>1 DEF PollFrame, Pending
  <2> QED
    BY <1>1, <2>1 DEF TypeInv, Buses
<1>3. <<Bus, ingress[Bus] + 1>> \in Buses \X Nat
  BY <1>1 DEF TypeInv
<1>4. RxQueueSize \in Nat /\ Waits \in 0 .. RxQueueSize - 1
  BY DepthIs, GatewayAssumption DEF TypeInv, Waits
<1>5. CASE Full
  <2>1. Drop
    BY <1>5 DEF PollFrame, Push
  <2>2. Waits' = Waits /\ rx_drops_run' = rx_drops_run + 1
        /\ UNCHANGED <<rx_queue, queue_head, queue_tail, rx_queue_depth>>
    BY <2>1 DEF Drop, Waits
  <2>3. TypeInv'
    BY <1>1, <1>2, <2>2 DEF TypeInv, stats
  <2>3a. FramesConserved'
    BY <1>1, <1>2, <1>4, <2>2 DEF TypeInv, CountsAddUp, FramesConserved, stats, Waits
  <2>4. CountsAddUp'
    BY <1>1, <2>2, <2>3a DEF CountsAddUp, GaugeCoversRing, WindowsAddUp, stats, Waits
  <2> QED
    BY <1>1, <1>4, <2>2, <2>3, <2>4 DEF BurstInv, TypeInv
<1>6. CASE ~Full
  <2>1. Enqueue(<<Bus, ingress[Bus] + 1>>)
    BY <1>6 DEF PollFrame, Push
  <2>2. queue_head' = NextIndex(queue_head) /\ queue_head' \in Positions
    BY <2>1, NextIndexIs DEF Enqueue, TypeInv
  <2>3. Waits' = Waits + 1 /\ rx_queue_depth' = Waits'
    BY <1>6, <2>1, <2>2, DepthIs DEF Enqueue, Measure, Waits, Full, TypeInv
  <2>4. TypeInv'
    BY <1>1, <1>2, <1>3, <1>4, <2>1, <2>2, <2>3 DEF Enqueue, TypeInv, stats
  <2>5. FramesConserved'
    <3>1. UNCHANGED <<rx_drops_run, forwarded, injected>>
      BY <1>1, <2>1 DEF Enqueue, stats
    <3> QED BY <1>2, <1>4, <2>3, <3>1 DEF TypeInv, CountsAddUp, FramesConserved, Waits
  <2>6. CountsAddUp'
    BY <1>1, <1>4, <2>1, <2>3, <2>5 DEF Enqueue, TypeInv, CountsAddUp,
       GaugeCoversRing, WindowsAddUp, stats, Waits
  <2> QED
    BY <1>1, <1>4, <2>3, <2>4, <2>6 DEF BurstInv, TypeInv
<1> QED
  BY <1>5, <1>6

(* A frame is forwarded: it is in one window, and one more is forwarded.   *)
LEMMA ForwardCounts ==
  ASSUME TypeInv, WindowsAddUp, NEW path \in Paths, ForwardFrame(path),
         UNCHANGED <<at_roll, rates>>
  PROVE  /\ forwarded' = forwarded + 1 /\ direct_window' \in Nat
         /\ mutated_window' \in Nat /\ WindowsAddUp'
BY DEF TypeInv, WindowsAddUp, ForwardFrame

LEMMA DrainFrameStep == GatewayInv /\ DrainFrame => GatewayInv'
<1> SUFFICES ASSUME GatewayInv, DrainFrame PROVE GatewayInv'
  OBVIOUS
<1> USE DEF GatewayInv
<1>1. /\ forwarded' = forwarded + 1 /\ direct_window' \in Nat
      /\ mutated_window' \in Nat /\ WindowsAddUp'
  BY ForwardCounts DEF DrainFrame, CountsAddUp
<1>2. queue_tail' = NextIndex(queue_tail) /\ queue_tail' \in Positions
  BY NextIndexIs DEF DrainFrame, TypeInv
<1>3. Waits' = Waits - 1 /\ Waits \in Nat
  BY <1>2, DepthIs, GatewayAssumption DEF DrainFrame, Drained, Waits, TypeInv
<1>4. Oldest \in Buses \X Nat
  BY DEF Oldest, TypeInv
<1>5. TypeInv'
  BY <1>1, <1>2, <1>4 DEF DrainFrame, TypeInv
<1>6. CountsAddUp'
  <2>1. UNCHANGED <<ingress, injected, rx_drops_run, rx_queue_depth>>
    BY DEF DrainFrame
  <2>2. FramesConserved' /\ GaugeCoversRing'
    BY <1>1, <1>3, <2>1 DEF CountsAddUp, FramesConserved, GaugeCoversRing, Waits, TypeInv
  <2> QED
    BY <1>1, <2>2 DEF CountsAddUp
<1> QED
  BY <1>5, <1>6 DEF DrainFrame, BurstInv

(* The steps between the phases, the replayed frames and the roll.         *)
LEMMA OtherSteps ==
  GatewayInv /\ (EndPoll \/ EndDrain \/ InjectReplayFrame \/ EndPass
                 \/ \E b \in Buses : Arrive(b)) => GatewayInv'
<1> SUFFICES ASSUME GatewayInv, EndPoll \/ EndDrain \/ InjectReplayFrame \/ EndPass
                                \/ \E b \in Buses : Arrive(b)
             PROVE  GatewayInv'
  OBVIOUS
<1> USE DEF GatewayInv
<1>0. RxQueueSize \in Nat /\ Waits \in 0 .. RxQueueSize - 1
      /\ (Waits = 0 <=> queue_head = queue_tail)
  BY DepthIs, GatewayAssumption DEF TypeInv, Waits
<1>1. CASE EndPoll
  <2>1. TypeInv' /\ CountsAddUp'
    BY <1>1 DEF EndPoll, ring, stats, TypeInv, Phases, CountsAddUp,
       FramesConserved, GaugeCoversRing, WindowsAddUp
  <2> QED
    BY <1>1, <2>1 DEF EndPoll, BurstInv, Waits, ring
<1>2. CASE EndDrain
  <2>1. Waits' = 0 /\ rx_queue_depth' = 0 /\ pc' = "replay" /\ Waits = 0
    BY <1>0, <1>2 DEF EndDrain, Drained, Measure, Waits
  <2>2. TypeInv'
    BY <1>2, <2>1 DEF EndDrain, stats, TypeInv, Phases
  <2>3. CountsAddUp'
    BY <1>2, <2>1 DEF EndDrain, stats, CountsAddUp, FramesConserved, GaugeCoversRing,
       WindowsAddUp, Waits
  <2> QED
    BY <2>1, <2>2, <2>3 DEF BurstInv
<1>3. CASE InjectReplayFrame
  <2>1. /\ forwarded' = forwarded + 1 /\ direct_window' \in Nat
        /\ mutated_window' \in Nat /\ WindowsAddUp' /\ injected' = injected + 1
    BY <1>3, ForwardCounts DEF InjectReplayFrame, CountsAddUp
  <2>2. TypeInv'
    BY <1>3, <2>1 DEF InjectReplayFrame, TypeInv, ring
  <2>3. CountsAddUp'
    BY <1>3, <2>1 DEF InjectReplayFrame, CountsAddUp, FramesConserved, GaugeCoversRing,
       ring, TypeInv
  <2> QED
    BY <1>3, <2>2, <2>3 DEF InjectReplayFrame, BurstInv, Waits, ring
<1>4. CASE EndPass
  <2>1. CASE UNCHANGED stats
    <3>1. TypeInv' /\ CountsAddUp'
      BY <1>4, <2>1 DEF EndPass, TypeInv, Phases, ring, stats, CountsAddUp,
         FramesConserved, GaugeCoversRing, WindowsAddUp
    <3> QED
      BY <1>4, <3>1 DEF EndPass, BurstInv, Waits, ring, TypeInv
  <2>2. CASE RollPerSecondWindow
    <3>1. TypeInv'
      BY <1>4, <2>2 DEF EndPass, RollPerSecondWindow, ResetWindows, TypeInv, Phases, ring
    <3>2. forwarded - at_roll = direct_window + mutated_window
      BY DEF CountsAddUp, WindowsAddUp
    <3>3. WindowsAddUp'
      BY <2>2, <3>2, CappedSum DEF RollPerSecondWindow, ResetWindows, WindowsAddUp, TypeInv
    <3>4. CountsAddUp'
      BY <1>4, <2>2, <3>3 DEF EndPass, RollPerSecondWindow, CountsAddUp,
         FramesConserved, GaugeCoversRing, ring
    <3> QED
      BY <1>4, <3>1, <3>4 DEF EndPass, BurstInv, Waits, ring, TypeInv
  <2> QED
    BY <1>4, <2>1, <2>2 DEF EndPass
<1>5. ASSUME NEW b \in Buses, Arrive(b) PROVE GatewayInv'
  <2>1. TypeInv'
    BY <1>5, GatewayAssumption DEF Arrive, TypeInv, ring, stats
  <2> QED
    BY <1>5, <2>1 DEF Arrive, ring, stats, CountsAddUp, FramesConserved,
       GaugeCoversRing, WindowsAddUp, BurstInv, Waits
<1> QED
  BY <1>1, <1>2, <1>3, <1>4, <1>5

LEMMA GatewayStep == GatewayInv /\ [Next]_vars => GatewayInv'
<1>1. GatewayInv /\ UNCHANGED vars => GatewayInv'
  BY DEF GatewayInv, vars, TypeInv, BurstInv, Waits, CountsAddUp, FramesConserved,
     GaugeCoversRing, WindowsAddUp
<1> QED
  BY <1>1, PollFrameStep, DrainFrameStep, OtherSteps DEF Next, CanTask

-----------------------------------------------------------------------------
(* What the ring holds, place by place, after a frame was put in or taken. *)
LEMMA TakenAtTheEnd ==
  ASSUME TypeInv, ~Full, NEW f \in Buses \X Nat, Enqueue(f)
  PROVE  /\ Waits \in 0 .. RxQueueSize - 2 /\ Waits' = Waits + 1
         /\ Waiting' = [i \in 1 .. Waits + 1 |-> IF i = Waits + 1 THEN f ELSE Waiting[i]]
<1>1. RxQueueSize \in Nat \ {0} /\ queue_head \in Positions /\ queue_tail \in Positions
  BY GatewayAssumption DEF TypeInv
<1>2. Waits \in 0 .. RxQueueSize - 2 /\ Waits' = Waits + 1
  <2>1. NextIndex(queue_head) \in Positions
    BY <1>1, NextIndexIs
  <2>2. /\ Depth(queue_head, queue_tail) \in 0 .. RxQueueSize - 1
        /\ Depth(NextIndex(queue_head), queue_tail) \in 0 .. RxQueueSize - 1
        /\ Depth(NextIndex(queue_head), queue_tail) = Depth(queue_head, queue_tail) + 1
    BY <1>1, <2>1, DepthIs DEF Full
  <2> QED
    BY <1>1, <2>2 DEF Waits, Enqueue
<1>3. ASSUME NEW i \in 1 .. Waits + 1
      PROVE  /\ (queue_tail + i - 1) % RxQueueSize \in Positions
             /\ (queue_tail + i - 1) % RxQueueSize = queue_head <=> i = Waits + 1
  <2>1. i - 1 \in 0 .. RxQueueSize - 1 /\ queue_tail + i - 1 = queue_tail + (i - 1)
    BY <1>1, <1>2 DEF Positions
  <2> DEFINE k == i - 1
  <2>2. (queue_tail + k) % RxQueueSize =
            (IF queue_tail + k < RxQueueSize THEN queue_tail + k
             ELSE queue_tail + k - RxQueueSize)
        /\ (queue_tail + k) % RxQueueSize \in Positions
    BY <1>1, <2>1, PlaceIs
  <2> QED
    BY <1>1, <1>2, <2>1, <2>2 DEF Waits, Depth, Positions
<1>4. ASSUME NEW i \in 1 .. Waits + 1
      PROVE  rx_queue'[(queue_tail' + i - 1) % RxQueueSize] =
               IF i = Waits + 1 THEN f ELSE Waiting[i]
  <2> DEFINE p == (queue_tail + i - 1) % RxQueueSize
  <2>1. rx_queue'[p] = (IF i = Waits + 1 THEN f ELSE rx_queue[p])
    BY <1>1, <1>3, <1>4 DEF Enqueue, TypeInv
  <2>2. i # Waits + 1 => i \in 1 .. Waits
    BY <1>2, <1>4
  <2> QED
    BY <2>1, <2>2 DEF Enqueue, Waiting, Waits
<1> QED
  BY <1>2, <1>4 DEF Waiting, Waits

LEMMA GivenFromTheFront ==
  ASSUME TypeInv, ~Drained, queue_tail' = NextIndex(queue_tail),
         UNCHANGED <<rx_queue, queue_head>>
  PROVE  /\ Waits \in 1 .. RxQueueSize - 1 /\ Waits' = Waits - 1
         /\ Waiting' = [i \in 1 .. Waits - 1 |-> Waiting[i + 1]]
         /\ Waiting[1] = Oldest
<1>1. RxQueueSize \in Nat \ {0} /\ queue_head \in Positions /\ queue_tail \in Positions
  BY GatewayAssumption DEF TypeInv
<1>2. Waits \in 1 .. RxQueueSize - 1 /\ Waits' = Waits - 1
  BY <1>1, DepthIs DEF Waits, Drained
<1>3. queue_tail' \in Positions
      /\ queue_tail' = (IF queue_tail = RxQueueSize - 1 THEN 0 ELSE queue_tail + 1)
  BY <1>1, NextIndexIs
<1>4. ASSUME NEW i \in 1 .. Waits - 1
      PROVE  (queue_tail' + i - 1) % RxQueueSize = (queue_tail + i) % RxQueueSize
  <2> DEFINE k == i - 1
  <2>1. k \in 0 .. RxQueueSize - 1 /\ i \in 0 .. RxQueueSize - 1
        /\ queue_tail' + i - 1 = queue_tail' + k
    BY <1>1, <1>2, <1>3 DEF Positions
  <2>2. (queue_tail' + k) % RxQueueSize =
          IF queue_tail' + k < RxQueueSize THEN queue_tail' + k
          ELSE queue_tail' + k - RxQueueSize
    BY <1>3, <2>1, PlaceIs
  <2>3. (queue_tail + i) % RxQueueSize =
          IF queue_tail + i < RxQueueSize THEN queue_tail + i
          ELSE queue_tail + i - RxQueueSize
    BY <1>1, <2>1, PlaceIs
  <2> QED
    BY <1>1, <1>3, <2>1, <2>2, <2>3 DEF Positions
<1>5. ASSUME NEW i \in 1 .. Waits - 1
      PROVE  rx_queue'[(queue_tail' + i - 1) % RxQueueSize] = Waiting[i + 1]
  <2>1. i + 1 \in 1 .. Waits /\ queue_tail + (i + 1) - 1 = queue_tail + i
    BY <1>1, <1>2 DEF Positions
  <2> QED
    BY <1>4, <2>1 DEF Waiting, Waits
<1>6. Waiting[1] = Oldest
  <2>1. 1 \in 1 .. Waits /\ queue_tail + 1 - 1 = queue_tail + 0 /\ 0 \in 0 .. RxQueueSize - 1
        /\ queue_tail + 0 = queue_tail /\ queue_tail < RxQueueSize
    BY <1>1, <1>2 DEF Positions
  <2>2. (queue_tail + 0) % RxQueueSize = queue_tail
    BY <1>1, <2>1, PlaceIs
  <2> QED
    BY <2>1, <2>2 DEF Waiting, Waits, Oldest
<1> QED
  BY <1>2, <1>5, <1>6 DEF Waiting, Waits

LEMMA RingStands ==
  ASSUME UNCHANGED <<rx_queue, queue_head, queue_tail>>
  PROVE  Waiting' = Waiting /\ Waits' = Waits
BY DEF Waiting, Waits

(* Waiting is a sequence of frames.                                        *)
LEMMA WaitingSeq ==
  ASSUME TypeInv
  PROVE  /\ Waits \in Nat /\ DOMAIN Waiting = 1 .. Waits
         /\ Waiting \in Seq(Buses \X Nat) /\ Len(Waiting) = Waits
<1>1. RxQueueSize \in Nat \ {0} /\ Waits \in 0 .. RxQueueSize - 1
  BY GatewayAssumption, DepthIs DEF TypeInv, Waits
<1>2. ASSUME NEW i \in 1 .. Waits PROVE (queue_tail + i - 1) % RxQueueSize \in Positions
  <2> DEFINE k == i - 1
  <2>1. k \in 0 .. RxQueueSize - 1 /\ queue_tail + i - 1 = queue_tail + k
    BY <1>1 DEF TypeInv, Positions
  <2> QED
    BY <2>1, PlaceIs DEF TypeInv
<1>3. Waiting \in [1 .. Waits -> Buses \X Nat]
  BY <1>2 DEF Waiting, Waits, TypeInv
<1> QED
  BY <1>1, <1>3

-----------------------------------------------------------------------------
(* The ring as a queue: what each step does to it, and to the order in it. *)
QueueStep ==
  \/ \E f \in Frames : Fifo!Take(f)
  \/ Fifo!Lose
  \/ Fifo!Forward
  \/ UNCHANGED <<Waiting, rx_drops_run>>

LEMMA PollKeepsOrder ==
  GatewayInv /\ QueueInv /\ PollFrame => QueueInv' /\ QueueStep
<1> SUFFICES ASSUME GatewayInv, QueueInv, PollFrame PROVE QueueInv' /\ QueueStep
  OBVIOUS
<1> USE DEF GatewayInv
<1> DEFINE f == <<Bus, ingress[Bus] + 1>>
<1>1. /\ Bus \in Buses /\ sent' = sent /\ TypeInv
      /\ ingress[Bus] \in Nat /\ ingress[Bus] + 1 \in 1 .. MaxFrames
      /\ ingress' \in [Buses -> Nat] /\ ingress'[Bus] = ingress[Bus] + 1
      /\ \A b \in Buses : ingress'[b] >= ingress[b]
  BY GatewayAssumption DEF PollFrame, Bus, Buses, Pending, TypeInv
<1>2. f \in Frames /\ f \in Buses \X Nat /\ f[1] = Bus /\ f[2] = ingress[Bus] + 1
  BY <1>1 DEF Frames
<1>3. Len(Waiting) = Waits /\ Waits \in Nat /\ Waiting \in Seq(Buses \X Nat)
  BY <1>1, WaitingSeq
<1>4. CASE Full
  <2>1. Drop
    BY <1>4 DEF PollFrame, Push
  <2>2. Waiting' = Waiting /\ Waits' = Waits
    BY <2>1, RingStands DEF Drop
  <2>3. Waits = RxQueueSize - 1
    BY <1>1, <1>4, DepthIs DEF Full, Waits, TypeInv
  <2>4. QueueInv'
    <3>1. ASSUME NEW i \in 1 .. Waits
          PROVE  Waiting[i][2] <= ingress'[Waiting[i][1]]
      BY <1>1, <3>1 DEF QueueInv, TypeInv
    <3>2. \A b \in Buses : sent[b] <= ingress'[b]
      BY <1>1 DEF QueueInv, TypeInv
    <3> QED
      BY <1>1, <2>2, <3>1, <3>2 DEF QueueInv
  <2> QED
    BY <1>3, <2>1, <2>2, <2>3, <2>4 DEF QueueStep, Fifo!Lose, Drop
<1>5. CASE ~Full
  <2>1. Enqueue(f)
    BY <1>5 DEF PollFrame, Push
  <2>2. /\ Waits \in 0 .. RxQueueSize - 2 /\ Waits' = Waits + 1
        /\ Waiting' = [i \in 1 .. Waits + 1 |-> IF i = Waits + 1 THEN f ELSE Waiting[i]]
    BY <1>1, <1>2, <1>5, <2>1, TakenAtTheEnd
  <2>3. \A i \in 1 .. Waits : Waiting'[i] = Waiting[i]
    BY <1>3, <2>2
  <2>4. Waiting'[Waits + 1] = f
    BY <1>3, <2>2
  <2>5. \A i \in 1 .. Waits + 1 : i \in 1 .. Waits \/ i = Waits + 1
    BY <1>3
  <2>6. QueueInv'
    <3>1. ASSUME NEW i \in 1 .. Waits'
          PROVE  /\ Waiting'[i] \in Buses \X Nat
                 /\ sent'[Waiting'[i][1]] < Waiting'[i][2]
                 /\ Waiting'[i][2] <= ingress'[Waiting'[i][1]]
      <4>1. CASE i \in 1 .. Waits
        BY <1>1, <2>3, <4>1 DEF QueueInv, TypeInv
      <4>2. CASE i = Waits + 1
        BY <1>1, <1>2, <2>4, <4>2 DEF QueueInv, TypeInv
      <4> QED
        BY <2>2, <2>5, <3>1, <4>1, <4>2
    <3>2. ASSUME NEW i \in 1 .. Waits', NEW j \in 1 .. Waits', i < j,
                 Waiting'[i][1] = Waiting'[j][1]
          PROVE  Waiting'[i][2] < Waiting'[j][2]
      <4>1. i \in 1 .. Waits
        BY <1>3, <2>2, <3>2
      <4>2. CASE j \in 1 .. Waits
        BY <2>3, <3>2, <4>1, <4>2 DEF QueueInv
      <4>3. CASE j = Waits + 1
        BY <1>1, <1>2, <2>3, <2>4, <3>2, <4>1, <4>3 DEF QueueInv
      <4> QED
        BY <2>2, <2>5, <3>2, <4>2, <4>3
    <3> QED
      BY <1>1, <3>1, <3>2 DEF QueueInv, TypeInv
  <2>7. Waiting' = Append(Waiting, f)
    BY <1>2, <1>3, <2>2
  <2>8. Fifo!Take(f)
    BY <1>3, <2>1, <2>2, <2>7, GatewayAssumption DEF Fifo!Take, Enqueue
  <2> QED
    BY <1>2, <2>6, <2>8 DEF QueueStep
<1> QED
  BY <1>4, <1>5

LEMMA DrainKeepsOrder ==
  GatewayInv /\ QueueInv /\ DrainFrame =>
    QueueInv' /\ QueueStep /\ sent[Oldest[1]] < Oldest[2]
<1> SUFFICES ASSUME GatewayInv, QueueInv, DrainFrame
             PROVE  QueueInv' /\ QueueStep /\ sent[Oldest[1]] < Oldest[2]
  OBVIOUS
<1> USE DEF GatewayInv
<1>1. /\ Waits \in 1 .. RxQueueSize - 1 /\ Waits' = Waits - 1
      /\ Waiting' = [i \in 1 .. Waits - 1 |-> Waiting[i + 1]]
      /\ Waiting[1] = Oldest
  BY GivenFromTheFront DEF DrainFrame
<1>2. Len(Waiting) = Waits /\ Waits \in Nat /\ Waiting \in Seq(Buses \X Nat)
  BY WaitingSeq
<1>3. RxQueueSize \in Nat
  BY GatewayAssumption
<1>4. 1 \in 1 .. Waits /\ \A i \in 1 .. Waits' : i + 1 \in 1 .. Waits
  BY <1>1, <1>2, <1>3
<1>5. /\ Oldest \in Buses \X Nat /\ sent[Oldest[1]] < Oldest[2]
      /\ Oldest[2] <= ingress[Oldest[1]]
  BY <1>1, <1>4 DEF QueueInv
<1>6. /\ ingress' = ingress /\ sent' \in [Buses -> Nat]
      /\ \A b \in Buses : sent'[b] = IF b = Oldest[1] THEN Oldest[2] ELSE sent[b]
  BY <1>5 DEF DrainFrame, TypeInv
<1>7. \A i \in 1 .. Waits' : Waiting'[i] = Waiting[i + 1]
  BY <1>1
<1>8. QueueInv'
  <2>1. ASSUME NEW i \in 1 .. Waits'
        PROVE  /\ Waiting'[i] \in Buses \X Nat
               /\ sent'[Waiting'[i][1]] < Waiting'[i][2]
               /\ Waiting'[i][2] <= ingress'[Waiting'[i][1]]
    <3>1. /\ Waiting[i + 1] \in Buses \X Nat
          /\ sent[Waiting[i + 1][1]] < Waiting[i + 1][2]
          /\ Waiting[i + 1][2] <= ingress[Waiting[i + 1][1]]
      BY <1>4, <2>1 DEF QueueInv
    <3>2. Waiting[1][1] = Waiting[i + 1][1] => Waiting[1][2] < Waiting[i + 1][2]
      BY <1>1, <1>3, <1>4, <2>1 DEF QueueInv
    <3> QED
      BY <1>1, <1>6, <1>7, <2>1, <3>1, <3>2
  <2>2. ASSUME NEW i \in 1 .. Waits', NEW j \in 1 .. Waits', i < j,
               Waiting'[i][1] = Waiting'[j][1]
        PROVE  Waiting'[i][2] < Waiting'[j][2]
    <3>1. i + 1 < j + 1 /\ i + 1 \in 1 .. Waits /\ j + 1 \in 1 .. Waits
      BY <1>1, <1>4, <2>2
    <3> QED
      BY <1>7, <2>2, <3>1 DEF QueueInv
  <2>3. \A b \in Buses : sent'[b] <= ingress'[b]
    BY <1>5, <1>6 DEF QueueInv
  <2> QED
    BY <2>1, <2>2, <2>3 DEF QueueInv
<1>9. Waiting' = Tail(Waiting) /\ Waiting # <<>>
  <2>1. Waiting # <<>>
    BY <1>1, <1>2
  <2>2. /\ Tail(Waiting) \in Seq(Buses \X Nat) /\ Len(Tail(Waiting)) = Waits - 1
        /\ \A i \in 1 .. Waits - 1 : Tail(Waiting)[i] = Waiting[i + 1]
    BY <1>2, <2>1, HeadTailProperties
  <2>3. Waiting' \in Seq(Buses \X Nat) /\ Len(Waiting') = Waits - 1
        /\ \A i \in 1 .. Waits - 1 : Waiting'[i] = Waiting[i + 1]
    BY <1>1, <1>2, <1>4, <1>8 DEF QueueInv
  <2> QED
    BY <2>1, <2>2, <2>3, SeqEqual
<1> QED
  BY <1>5, <1>8, <1>9 DEF QueueStep, Fifo!Forward, DrainFrame

LEMMA OthersKeepOrder ==
  ASSUME GatewayInv, QueueInv,
         EndPoll \/ EndDrain \/ InjectReplayFrame \/ EndPass
         \/ (\E b \in Buses : Arrive(b)) \/ UNCHANGED vars
  PROVE  /\ QueueInv' /\ QueueStep /\ sent' = sent
         /\ forwarded' - injected' = forwarded - injected
<1> USE DEF GatewayInv
<1>1. UNCHANGED <<rx_queue, queue_head, queue_tail, rx_drops_run, ingress, sent>>
  BY DEF EndPoll, EndDrain, InjectReplayFrame, EndPass, Arrive, ring, vars
<1>2. Waiting' = Waiting /\ Waits' = Waits
  BY <1>1, RingStands
<1>3. forwarded' - injected' = forwarded - injected
  BY DEF EndPoll, EndDrain, InjectReplayFrame, ForwardFrame, EndPass, Arrive,
     RollPerSecondWindow, stats, vars, TypeInv
<1> QED
  BY <1>1, <1>2, <1>3 DEF QueueInv, QueueStep

LEMMA QueueInit == Init => QueueInv /\ Fifo!Init
<1> SUFFICES ASSUME Init PROVE QueueInv /\ Fifo!Init
  OBVIOUS
<1>1. Waits = 0 /\ TypeInv
  BY GatewayInit, DepthIs, GatewayAssumption DEF Init, GatewayInv, Waits, Positions
<1>2. Len(Waiting) = 0 /\ Waiting \in Seq(Buses \X Nat)
  BY <1>1, WaitingSeq
<1>3. Waiting = <<>>
  BY <1>2
<1> QED
  BY <1>1, <1>3 DEF QueueInv, Fifo!Init, Init

LEMMA QueueSteps ==
  GatewayInv /\ QueueInv /\ [Next]_vars =>
    /\ QueueInv' /\ QueueStep
    /\ \A b \in Buses : sent'[b] >= sent[b]
    /\ forwarded' - injected' > forwarded - injected =>
         \E b \in Buses : sent'[b] > sent[b]
<1> SUFFICES ASSUME GatewayInv, QueueInv, [Next]_vars
             PROVE  /\ QueueInv' /\ QueueStep
                    /\ \A b \in Buses : sent'[b] >= sent[b]
                    /\ forwarded' - injected' > forwarded - injected =>
                         \E b \in Buses : sent'[b] > sent[b]
  OBVIOUS
<1>0. TypeInv
  BY DEF GatewayInv
<1>1. CASE PollFrame
  BY <1>0, <1>1, PollKeepsOrder DEF PollFrame, stats, TypeInv
<1>2. CASE DrainFrame
  <2>1. QueueInv' /\ QueueStep /\ sent[Oldest[1]] < Oldest[2]
    BY <1>2, DrainKeepsOrder
  <2>2. Oldest \in Buses \X Nat
    BY <1>0 DEF Oldest, TypeInv
  <2>3. /\ \A b \in Buses : sent'[b] = IF b = Oldest[1] THEN Oldest[2] ELSE sent[b]
    BY <1>0, <1>2, <2>2 DEF DrainFrame, TypeInv
  <2> QED
    BY <1>0, <2>1, <2>2, <2>3 DEF TypeInv
<1>3. CASE ~PollFrame /\ ~DrainFrame
  <2>1. EndPoll \/ EndDrain \/ InjectReplayFrame \/ EndPass
        \/ (\E b \in Buses : Arrive(b)) \/ UNCHANGED vars
    BY <1>3 DEF Next, CanTask
  <2> QED
    BY <1>0, <2>1, OthersKeepOrder DEF TypeInv
<1> QED
  BY <1>1, <1>2, <1>3

-----------------------------------------------------------------------------
(* What clients are told adds up: each frame read is forwarded, waiting or *)
(* dropped, the shown depth covers the ring, and so do the rates           *)
(* (GatewayCore::forwardFrame, rollPerSecondWindow).                       *)
THEOREM FiguresAddUp == Spec => []CountsAddUp
<1>1. GatewayInv => CountsAddUp
  BY DEF GatewayInv
<1> QED
  BY <1>1, GatewayInit, GatewayStep, PTL DEF Spec

(* The ring overflows only in a pass whose two polls read at least as many *)
(* frames as it has places (pollCanIngress).                               *)
THEOREM OnlyBurstsDrop == Spec => DropsNeedAFullBurst
<1>1. GatewayInv /\ [Next]_vars => (rx_drops_run' # rx_drops_run => burst' >= RxQueueSize)
  <2> SUFFICES ASSUME GatewayInv, [Next]_vars, rx_drops_run' # rx_drops_run
               PROVE  burst' >= RxQueueSize
    OBVIOUS
  <2>1. PollFrame /\ Full
    BY DEF Next, CanTask, vars, ring, PollFrame, Push, Enqueue, EndPoll, DrainFrame,
       EndDrain, InjectReplayFrame, EndPass, Arrive
  <2>2. Waits = RxQueueSize - 1 /\ Waits <= burst /\ burst' = burst + 1
    BY <2>1, DepthIs DEF PollFrame, Full, GatewayInv, BurstInv, TypeInv, Waits
  <2> QED
    BY <2>2, GatewayAssumption DEF GatewayInv, TypeInv
<1> QED
  BY <1>1, GatewayInit, GatewayStep, PTL DEF Spec, DropsNeedAFullBurst

-----------------------------------------------------------------------------
LEMMA TurnsInit == Init => TurnsInv
<1> SUFFICES ASSUME Init PROVE TurnsInv
  OBVIOUS
<1>1. 0 \in 0 .. MaxPoll /\ MaxPoll \in Nat
  BY GatewayAssumption
<1> QED
  BY <1>1 DEF Init, TurnsInv, Spared, Pending, Buses

(* Reading a frame spares the bus it comes from, and makes the other bus   *)
(* wait for one frame more.                                                *)
LEMMA PollKeepsTurns == GatewayInv /\ TurnsInv /\ PollFrame => TurnsInv'
<1> SUFFICES ASSUME GatewayInv, TurnsInv, PollFrame PROVE TurnsInv'
  OBVIOUS
<1>1. /\ Bus \in Buses /\ Bus = (IF pc = "pollA" THEN "A" ELSE "B")
      /\ pc \in {"pollA", "pollB"} /\ pc' = pc
      /\ processed' = processed + 1 /\ burst' = burst + 1
      /\ processed < MaxPoll /\ MaxPoll \in Nat /\ processed \in Nat
      /\ burst \in Nat
  BY GatewayAssumption
  DEF PollFrame, Bus, Buses, HadShare, TurnsInv, GatewayInv, TypeInv
<1>2. \A b \in Buses :
        passed_over'[b] = IF b # Bus /\ Pending(b) THEN passed_over[b] + 1 ELSE 0
  BY DEF PollFrame
<1>3. \A b \in Buses : b # Bus => passed_over[b] <= processed
  BY <1>1 DEF TurnsInv, Buses, Spared
<1>4. \A b \in Buses : passed_over[b] \in Nat
  BY DEF TurnsInv
<1>5. \A b \in Buses : b # Bus => passed_over'[b] <= processed'
  BY <1>1, <1>2, <1>3, <1>4
<1>6. \A b \in Buses : passed_over'[b] \in 0 .. MaxPoll
  BY <1>1, <1>2, <1>3, <1>4
<1>7. passed_over' \in [Buses -> 0 .. MaxPoll]
  BY <1>6 DEF PollFrame
<1>8. \A b \in Buses : ~Pending(b)' => Spared(b)'
  <2> SUFFICES ASSUME NEW b \in Buses, ~Pending(b)', b # Bus PROVE Spared(b)'
    BY <1>2 DEF Spared
  <2>1. ingress'[b] = ingress[b] /\ arrived'[b] = arrived[b]
    BY DEF PollFrame, GatewayInv, TypeInv
  <2> QED
    BY <1>2, <2>1 DEF Pending, Spared
<1>9. (pc = "pollA" => Spared("A")') /\ (pc = "pollB" => Spared("B")')
  <2>1. passed_over'[Bus] = 0
    BY <1>1, <1>2
  <2>2. (pc = "pollA" => Bus = "A") /\ (pc = "pollB" => Bus = "B")
    BY <1>1
  <2> QED
    BY <2>1, <2>2 DEF Spared
<1>10. CASE pc = "pollA"
  <2>1. passed_over'["B"] <= processed' /\ Spared("A")' /\ burst = processed
    BY <1>1, <1>5, <1>9, <1>10 DEF TurnsInv, Buses
  <2> QED
    BY <1>1, <1>7, <1>8, <1>10, <2>1 DEF TurnsInv
<1>11. CASE pc = "pollB"
  <2>1. /\ passed_over'["A"] <= processed' /\ Spared("B")'
        /\ burst <= MaxPoll + processed
    BY <1>1, <1>5, <1>9, <1>11 DEF TurnsInv, Buses
  <2> QED
    BY <1>1, <1>7, <1>8, <1>11, <2>1 DEF TurnsInv
<1> QED
  BY <1>1, <1>10, <1>11

(* The bus that is left has had its share, or has no frame.                *)
LEMMA EndPollKeepsTurns == GatewayInv /\ TurnsInv /\ EndPoll => TurnsInv'
<1> SUFFICES ASSUME GatewayInv, TurnsInv, EndPoll PROVE TurnsInv'
  OBVIOUS
<1>1. /\ pc \in {"pollA", "pollB"} /\ MaxPoll \in Nat \ {0} /\ processed' = 0
      /\ pc' = IF pc = "pollA" THEN "pollB" ELSE "drain"
      /\ UNCHANGED <<arrived, ingress, burst, passed_over>>
  BY GatewayAssumption DEF EndPoll
<1>2. Bus \in Buses /\ Spared(Bus)
  BY <1>1 DEF EndPoll, HadShare, Bus, Buses, TurnsInv
<1>3. /\ passed_over' \in [Buses -> 0 .. MaxPoll]
      /\ \A b \in Buses : ~Pending(b)' => Spared(b)'
  BY <1>1 DEF TurnsInv, Pending, Spared
<1>4. processed \in 0 .. MaxPoll /\ burst \in Nat
  BY DEF TurnsInv, GatewayInv, TypeInv
<1>5. CASE pc = "pollA"
  <2>1. burst' <= MaxPoll /\ Spared("A")'
    BY <1>1, <1>2, <1>4, <1>5 DEF TurnsInv, Bus, Spared
  <2> QED
    BY <1>1, <1>3, <1>5, <2>1 DEF TurnsInv, Spared
<1>6. CASE pc = "pollB"
  <2>1. burst' <= 2 * MaxPoll /\ Spared("B")'
    BY <1>1, <1>2, <1>4, <1>6 DEF TurnsInv, Bus, Spared
  <2> QED
    BY <1>1, <1>3, <1>6, <2>1 DEF TurnsInv, Spared
<1> QED
  BY <1>1, <1>5, <1>6

LEMMA OthersKeepTurns ==
  GatewayInv /\ TurnsInv /\ (\/ DrainFrame \/ EndDrain \/ InjectReplayFrame
                             \/ EndPass \/ UNCHANGED vars) => TurnsInv'
<1> SUFFICES ASSUME TurnsInv, \/ DrainFrame \/ EndDrain \/ InjectReplayFrame
                              \/ EndPass \/ UNCHANGED vars
             PROVE  TurnsInv'
  OBVIOUS
<1>1. UNCHANGED <<arrived, ingress, passed_over, processed>>
  BY DEF DrainFrame, EndDrain, InjectReplayFrame, EndPass, vars
<1>2. /\ processed' \in 0 .. MaxPoll /\ passed_over' \in [Buses -> 0 .. MaxPoll]
      /\ \A b \in Buses : ~Pending(b)' => Spared(b)'
  BY <1>1 DEF TurnsInv, Pending, Spared
<1>3. CASE DrainFrame
  BY <1>1, <1>2, <1>3 DEF DrainFrame, TurnsInv, Spared
<1>4. CASE EndDrain
  BY <1>1, <1>2, <1>4 DEF EndDrain, TurnsInv, Spared
<1>5. CASE InjectReplayFrame
  BY <1>1, <1>2, <1>5 DEF InjectReplayFrame, TurnsInv, Spared
<1>6. CASE EndPass
  BY <1>1, <1>2, <1>6 DEF EndPass, TurnsInv, Spared
<1>7. CASE UNCHANGED vars
  BY <1>2, <1>7 DEF vars, TurnsInv, Spared
<1> QED
  BY <1>3, <1>4, <1>5, <1>6, <1>7

(* A frame that arrives finds nothing held against its bus.                *)
LEMMA ArriveKeepsTurns ==
  ASSUME GatewayInv, TurnsInv, NEW b \in Buses, Arrive(b)
  PROVE  TurnsInv'
<1>1. UNCHANGED <<ingress, pc, processed, burst, passed_over>>
  BY DEF Arrive
<1>2. \A c \in Buses : Pending(c) => Pending(c)'
  <2> SUFFICES ASSUME NEW c \in Buses, Pending(c) PROVE Pending(c)'
    OBVIOUS
  <2>1. /\ arrived[c] \in Nat /\ ingress[c] \in Nat /\ b \in DOMAIN arrived
        /\ c \in DOMAIN arrived
    BY GatewayAssumption DEF GatewayInv, TypeInv
  <2>2. arrived'[c] = arrived[c] \/ arrived'[c] = arrived[c] + 1
    BY <2>1 DEF Arrive
  <2> QED
    BY <1>1, <2>1, <2>2 DEF Pending
<1> QED
  BY <1>1, <1>2 DEF TurnsInv, Spared

(* However busy a bus, the other has its turn after MaxPoll frames of it,  *)
(* and the ring is drained after MaxPoll frames of each, for any number of *)
(* frames and any limit (pollCanIngress).                                  *)
THEOREM BusesInTurn == Spec => []BusesTakeTurns
<1>1. GatewayInv /\ TurnsInv /\ [Next]_vars => TurnsInv'
  BY PollKeepsTurns, EndPollKeepsTurns, OthersKeepTurns, ArriveKeepsTurns
  DEF Next, CanTask
<1>2. GatewayInv /\ TurnsInv => BusesTakeTurns
  <2> SUFFICES ASSUME GatewayInv, TurnsInv PROVE BusesTakeTurns
    OBVIOUS
  <2>1. /\ MaxPoll \in Nat /\ burst \in Nat /\ pc \in Phases
        /\ processed \in 0 .. MaxPoll
    BY GatewayAssumption DEF GatewayInv, TypeInv, TurnsInv
  <2>2. burst <= 2 * MaxPoll
    BY <2>1 DEF TurnsInv, Phases
  <2> QED
    BY <2>2 DEF TurnsInv, BusesTakeTurns
<1> QED
  BY <1>1, <1>2, GatewayInit, GatewayStep, TurnsInit, PTL DEF Spec

-----------------------------------------------------------------------------
(* The ring is a bounded FIFO, and the frames of a bus leave in the order  *)
(* in which they came (onFrameReceivedFromIsr, pollRx).                    *)
THEOREM RingIsFifo == Spec => FramesInOrder
<1>1. GatewayInv /\ QueueInv /\ [Next]_vars =>
        [Fifo!Next]_<<Waiting, rx_drops_run>>
  BY QueueSteps DEF QueueStep, Fifo!Next
<1>2. GatewayInv /\ QueueInv /\ [Next]_vars =>
        [/\ \A b \in Buses : sent'[b] >= sent[b]
         /\ forwarded' - injected' > forwarded - injected =>
              \E b \in Buses : sent'[b] > sent[b]]_vars
  BY QueueSteps
<1>3. GatewayInv /\ QueueInv /\ [Next]_vars => (GatewayInv /\ QueueInv)'
  BY GatewayStep, QueueSteps
<1>4. Init => GatewayInv /\ QueueInv /\ Fifo!Init
  BY GatewayInit, QueueInit
<1> QED
  BY <1>1, <1>2, <1>3, <1>4, PTL
  DEF Spec, FramesInOrder, ImplementsFifo, OrderPreserved, Fifo!Spec

-----------------------------------------------------------------------------
(* A frame is sent after a stop only if tick had tested for it before.     *)
StopInv ==
  /\ since_stop \in 0 .. 1
  /\ can = "send" /\ ~playing => since_stop = 0

(* The part of a log that has been loaded.                                 *)
Holds(l, n) == \A i \in 0 .. n - 1 : frames[i] = [log |-> l, position |-> i]

(* What the loader has done, by where it is.                               *)
LoadInv ==
  /\ frames \in [0 .. MaxReplayFrames - 1 -> Frame]
  /\ frame_count \in 0 .. MaxReplayFrames
  /\ cursor \in 0 .. MaxReplayFrames /\ tmp \in 0 .. MaxReplayFrames
  /\ expected \in Nat /\ log \in Logs \cup {NoLog}
  /\ ui \in {"idle", "rewind", "fill", "ready", "play", "due"}
  /\ log = NoLog => frame_count = 0 /\ ui = "idle"
  /\ log # NoLog => /\ log \in Logs /\ frame_count <= Loaded(log)
                    /\ Holds(log, frame_count)
                    /\ ui \notin {"rewind", "fill"} => frame_count = Loaded(log)

(* How far an undisturbed replay is, by where the tick is: the cursor is   *)
(* at the position that is expected next, but for the steps of tick that   *)
(* move it, and "expected" starts over with the log.                       *)
Following ==
  /\ can \in {"poll", "test", "send", "schedule"} =>
       cursor = expected /\ cursor < frame_count
  /\ can = "inc" => cursor < frame_count /\ expected = (cursor + 1) % frame_count
  /\ can = "store" => /\ cursor < frame_count /\ tmp = cursor
                      /\ expected = (tmp + 1) % frame_count
  /\ can = "end" => /\ cursor \in 1 .. frame_count
                    /\ expected = cursor % frame_count
  /\ can \in {"halt", "restart"} => expected = 0
OrderInv ==
  /\ clean => log # NoLog /\ ui \notin {"rewind", "fill"} /\ frame_count > 0
  /\ clean /\ ui \in {"ready", "play"} =>
       ~playing /\ can = "poll" /\ expected = 0
  /\ clean /\ ui = "play" => cursor = 0
  /\ clean /\ ui \in {"due", "idle"} => playing /\ Following
  /\ in_order
ReplayInv == LoadInv /\ OrderInv

-----------------------------------------------------------------------------
(* A log that clients start has at least one frame.                        *)
LEMMA LoadedType ==
  ASSUME NEW l \in Logs
  PROVE  Loaded(l) \in 1 .. MaxReplayFrames
<1>1. Deltas[l] \in Seq(0 .. TimeModulus - 1) /\ Deltas[l] # <<>>
      /\ MaxReplayFrames \in Nat \ {0}
  BY ReplayAssumption
<1>2. Len(Deltas[l]) \in Nat \ {0}
  BY <1>1
<1> QED
  BY <1>1, <1>2 DEF Loaded

(* Positions wrap at the end of the log only.                              *)
LEMMA Wraps ==
  ASSUME NEW n \in Nat, NEW x \in 0 .. n, n > 0
  PROVE  x % n = IF x = n THEN 0 ELSE x
OBVIOUS

LEMMA StopInit == ReplayInit => StopInv
BY DEF ReplayInit, StopInv

LEMMA StopStep == StopInv /\ [ReplayNext]_replayVars => StopInv'
BY DEF StopInv, ReplayNext, replayVars, uiVars, shared, canVars, history, UiRequest,
   UiStep, Tick,
   LoadLogCsv, RewindCursor, StoreLine, EndLoad, Start, StartCursor, StartPlaying,
   StartDue, Stop, Advance, BeginTick, TestDue, SendFrame, LoadCursor, StoreCursor,
   TestEnd, Halt, Restart, ScheduleNext

-----------------------------------------------------------------------------
LEMMA ReplayInitially == ReplayInit => ReplayInv
<1> SUFFICES ASSUME ReplayInit PROVE ReplayInv
  OBVIOUS
<1>1. MaxReplayFrames \in Nat /\ NoFrame \in Frame
  BY ReplayAssumption DEF NoFrame, Frame
<1>2. LoadInv
  BY <1>1 DEF ReplayInit, LoadInv
<1>3. OrderInv
  BY DEF ReplayInit, OrderInv
<1> QED
  BY <1>2, <1>3 DEF ReplayInv

(* A step of the CAN task or the clock: what was loaded stands.            *)
LEMMA LoadStands ==
  ASSUME LoadInv, UNCHANGED <<frames, frame_count, ui, log>>,
         cursor' \in 0 .. MaxReplayFrames, tmp' \in 0 .. MaxReplayFrames,
         expected' \in Nat
  PROVE  LoadInv'
BY DEF LoadInv, Holds

LEMMA ReplayUiStep == ReplayInv /\ (UiRequest \/ UiStep) => ReplayInv'
<1> SUFFICES ASSUME ReplayInv, UiRequest \/ UiStep PROVE ReplayInv'
  OBVIOUS
<1> USE DEF uiVars
<1> USE DEF ReplayInv
<1>0. MaxReplayFrames \in Nat \ {0} /\ NoLog \notin Logs
  BY ReplayAssumption
<1>1. ASSUME NEW l \in Logs, LoadLogCsv(l) PROVE ReplayInv'
  <2>1. Loaded(l) \in 1 .. MaxReplayFrames /\ log' = l /\ frame_count' = 0
        /\ ui' = "rewind" /\ clean' = FALSE
    BY <1>1, LoadedType DEF LoadLogCsv
  <2>2. frame_count' <= Loaded(log') /\ Holds(log, frame_count)'
    BY <1>0, <2>1 DEF Holds
  <2>3. LoadInv'
    BY <1>0, <1>1, <2>1, <2>2 DEF LoadLogCsv, LoadInv, canVars
  <2> QED
    BY <2>1, <2>3, <1>1 DEF LoadLogCsv, OrderInv
<1>2. CASE RewindCursor
  <2>1. LoadInv'
    BY <1>0, <1>2 DEF RewindCursor, LoadInv, canVars, Holds, history
  <2> QED
    BY <2>1, <1>2 DEF RewindCursor, OrderInv, history
<1>3. CASE StoreLine
  <2>1. log \in Logs /\ log # NoLog /\ frame_count < Loaded(log)
    BY <1>3 DEF StoreLine, LoadInv
  <2>2. Loaded(log) \in 1 .. MaxReplayFrames
    BY <2>1, LoadedType
  <2>3. frame_count \in 0 .. MaxReplayFrames - 1 /\ frame_count' \in 0 .. MaxReplayFrames
        /\ frame_count' <= Loaded(log)
    BY <1>0, <1>3, <2>1, <2>2 DEF StoreLine, LoadInv
  <2>4. [log |-> log, position |-> frame_count] \in Frame
    BY <2>1, <2>3, <1>0 DEF Frame
  <2>5. frames' \in [0 .. MaxReplayFrames - 1 -> Frame]
    BY <1>3, <2>3, <2>4 DEF StoreLine, LoadInv
  <2>6. Holds(log, frame_count)'
    <3> SUFFICES ASSUME NEW i \in 0 .. frame_count' - 1
                 PROVE  frames'[i] = [log |-> log', position |-> i]
      BY DEF Holds
    <3>1. i \in 0 .. MaxReplayFrames - 1 /\ (i = frame_count \/ i \in 0 .. frame_count - 1)
      BY <1>0, <1>3, <2>3 DEF StoreLine
    <3> QED
      BY <1>3, <2>1, <2>3, <3>1 DEF StoreLine, LoadInv, Holds
  <2>7. LoadInv'
    BY <1>3, <2>1, <2>3, <2>5, <2>6 DEF StoreLine, LoadInv, canVars, history, Loaded
  <2> QED
    BY <2>7, <1>3 DEF StoreLine, OrderInv, history
<1>4. CASE EndLoad
  <2>1. LoadInv'
    BY <1>4 DEF EndLoad, LoadInv, shared, canVars, Holds, history, Loaded
  <2> QED
    BY <2>1, <1>4 DEF EndLoad, OrderInv, history
<1>5. ASSUME NEW m \in LoopModes, Start(m) PROVE ReplayInv'
  <2>1. log # NoLog
    BY <1>5, <1>0 DEF Start, LoadInv
  <2>2. LoadInv'
    BY <1>5, <2>1 DEF Start, LoadInv, canVars, Holds, Loaded
  <2> QED
    BY <1>5, <2>1, <2>2 DEF Start, OrderInv, canVars, LoadInv
<1>6. CASE StartCursor
  <2>1. LoadInv'
    BY <1>0, <1>6 DEF StartCursor, LoadInv, canVars, Holds, history, Loaded
  <2> QED
    BY <2>1, <1>6 DEF StartCursor, OrderInv, history, canVars
<1>7. CASE StartPlaying
  <2>1. LoadInv'
    BY <1>7 DEF StartPlaying, LoadInv, canVars, Holds, history, Loaded
  <2> QED
    BY <2>1, <1>7 DEF StartPlaying, OrderInv, Following, history, canVars, LoadInv
<1>8. CASE StartDue
  <2>1. LoadInv'
    BY <1>8 DEF StartDue, LoadInv, canVars, Holds, history, Loaded
  <2> QED
    BY <2>1, <1>8 DEF StartDue, OrderInv, Following, history, canVars
<1>9. CASE Stop
  <2>1. LoadInv'
    BY <1>9, LoadStands DEF Stop, LoadInv, canVars
  <2> QED
    BY <2>1, <1>9 DEF Stop, OrderInv
<1> QED
  BY <1>1, <1>2, <1>3, <1>4, <1>5, <1>6, <1>7, <1>8, <1>9 DEF UiRequest, UiStep

(* The frame at the cursor of an undisturbed replay is the one expected.   *)
LEMMA SendsExpected ==
  ASSUME ReplayInv, can = "send", clean
  PROVE  FrameAt(cursor) = [log |-> log, position |-> expected]
<1>1. ui \in {"due", "idle"}
  BY DEF ReplayInv, OrderInv, LoadInv
<1> QED
  BY <1>1, ReplayAssumption DEF ReplayInv, LoadInv, OrderInv, Following, FrameAt, Holds

LEMMA ReplayTickStep ==
  ReplayInv /\ (Advance \/ BeginTick \/ Tick) => ReplayInv'
<1> SUFFICES ASSUME ReplayInv, Advance \/ BeginTick \/ Tick PROVE ReplayInv'
  OBVIOUS
<1> USE DEF uiVars
<1> USE DEF ReplayInv
<1>0. MaxReplayFrames \in Nat \ {0}
  BY ReplayAssumption
<1>1. CASE Advance \/ BeginTick \/ TestDue \/ ScheduleNext
  <2>1. /\ UNCHANGED <<frames, frame_count, ui, log, cursor, tmp, playing, history>>
        /\ \/ can' = can
           \/ can = "poll" /\ playing /\ can' = "test"
           \/ can \in {"test", "schedule"} /\ can' \in {"poll", "test", "send"}
    BY <1>1 DEF Advance, BeginTick, TestDue, ScheduleNext, shared, canVars, history
  <2>2. LoadInv'
    BY <2>1, LoadStands DEF history, LoadInv
  <2>3. OrderInv'
    BY <2>1 DEF OrderInv, Following, history
  <2> QED
    BY <2>2, <2>3
<1>2. CASE SendFrame
  <2>1. expected' \in Nat
    BY <1>2, LoadedType DEF SendFrame, LoadInv, OrderInv
  <2>2. LoadInv'
    BY <1>2, <2>1, LoadStands DEF SendFrame, shared, LoadInv
  <2>3. in_order'
    BY <1>2, SendsExpected DEF SendFrame, OrderInv
  <2>4. CASE ~clean
    BY <1>2, <2>2, <2>3, <2>4 DEF SendFrame, OrderInv
  <2>5. CASE clean
    <3>1. ui \in {"due", "idle"} /\ cursor = expected /\ cursor < frame_count
          /\ frame_count = Loaded(log) /\ playing
      BY <1>2, <2>5 DEF SendFrame, OrderInv, Following, LoadInv
    <3>2. Following'
      BY <1>2, <2>5, <3>1 DEF SendFrame, Following, shared
    <3> QED
      BY <1>2, <2>2, <2>3, <3>1, <3>2 DEF SendFrame, OrderInv, shared
  <2> QED
    BY <2>4, <2>5 DEF LoadInv
<1>3. CASE LoadCursor
  <2>1. LoadInv'
    BY <1>3, LoadStands DEF LoadCursor, shared, history, LoadInv
  <2> QED
    BY <1>3, <2>1 DEF LoadCursor, shared, history, OrderInv, Following
<1>4. CASE StoreCursor
  <2>1. cursor' \in 0 .. MaxReplayFrames /\ 0 \in 0 .. MaxReplayFrames
    BY <1>0, <1>4 DEF StoreCursor, After, LoadInv
  <2>2. LoadInv'
    BY <1>4, <2>1, LoadStands DEF StoreCursor, history, LoadInv
  <2>3. clean /\ ui \in {"due", "idle"} => Following'
    <3> SUFFICES ASSUME clean, ui \in {"due", "idle"} PROVE Following'
      OBVIOUS
    <3>1. tmp \in 0 .. frame_count - 1 /\ frame_count \in 1 .. MaxReplayFrames
          /\ expected = (tmp + 1) % frame_count
      BY <1>0, <1>4 DEF StoreCursor, OrderInv, Following, LoadInv
    <3>2. cursor' = tmp + 1 /\ can' = "end" /\ UNCHANGED <<frame_count, expected>>
      BY <1>0, <1>4, <3>1 DEF StoreCursor, After, history
    <3> QED
      BY <3>1, <3>2 DEF Following
  <2> QED
    BY <1>4, <2>2, <2>3 DEF StoreCursor, OrderInv, history
<1>5. CASE TestEnd
  <2>1. LoadInv'
    BY <1>5, LoadStands DEF TestEnd, shared, history, LoadInv
  <2>2. clean /\ ui \in {"due", "idle"} => Following'
    <3>1. ASSUME clean, ui \in {"due", "idle"}
          PROVE  /\ frame_count \in Nat /\ frame_count > 0 /\ cursor \in 1 .. frame_count
                 /\ expected = cursor % frame_count
      BY <1>5, <3>1 DEF TestEnd, OrderInv, Following, LoadInv
    <3>2. ASSUME clean, ui \in {"due", "idle"}
          PROVE  expected = IF cursor = frame_count THEN 0 ELSE cursor
      BY <3>1, <3>2, Wraps
    <3> QED
      BY <1>5, <3>1, <3>2 DEF TestEnd, Following, shared, history
  <2> QED
    BY <1>5, <2>1, <2>2 DEF TestEnd, OrderInv, history, shared
<1>6. CASE Halt
  <2>1. LoadInv'
    BY <1>6, LoadStands DEF Halt, LoadInv
  <2>2. in_order'
    BY <1>6 DEF Halt, OrderInv, Following, LoadInv
  <2> QED
    BY <1>6, <2>1, <2>2 DEF Halt, OrderInv
<1>7. CASE Restart
  <2>1. LoadInv'
    BY <1>0, <1>7, LoadStands DEF Restart, LoadInv, history
  <2> QED
    BY <1>7, <2>1 DEF Restart, OrderInv, Following, history, LoadInv
<1> QED
  BY <1>1, <1>2, <1>3, <1>4, <1>5, <1>6, <1>7 DEF Tick

LEMMA ReplayStep == ReplayInv /\ [ReplayNext]_replayVars => ReplayInv'
<1>1. ReplayInv /\ UNCHANGED replayVars => ReplayInv'
  BY LoadStands DEF ReplayInv, OrderInv, Following, replayVars, uiVars, shared, canVars,
     history, LoadInv, Holds
<1> QED
  BY <1>1, ReplayUiStep, ReplayTickStep DEF ReplayNext

-----------------------------------------------------------------------------
(* A replay that no request disturbs sends every frame of its log in order *)
(* and ends only at the end of a round (ReplayEngine::tick).               *)
THEOREM UndisturbedInOrder == ReplaySpec => []UndisturbedReplayInOrder
<1>1. ReplayInv => UndisturbedReplayInOrder
  BY DEF ReplayInv, OrderInv, UndisturbedReplayInOrder
<1> QED
  BY <1>1, ReplayInitially, ReplayStep, PTL DEF ReplaySpec

(* After ReplayEngine::stop at most one frame follows, whatever the tick   *)
(* was about to do.                                                        *)
THEOREM StopLetsOneOut == ReplaySpec => []StopsWithinOneFrame
<1>1. StopInv => StopsWithinOneFrame
  BY DEF StopInv, StopsWithinOneFrame
<1> QED
  BY <1>1, StopInit, StopStep, PTL DEF ReplaySpec
=============================================================================
