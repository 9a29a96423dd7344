------------------------------- MODULE Replay -------------------------------
(***************************************************************************)
(* The replay engine (core/replay_engine.cpp) between its two callers: the *)
(* UI task loads a log, starts and stops; the CAN task ticks.  They share  *)
(* plain fields without a lock, so every load and store of those is a step.*)
(* Time is microseconds modulo 2^32, compared without regard to the wrap,  *)
(* as the code does.                                                       *)
(*                                                                         *)
(* A definition named ...Mutant is a faulty version of the one after it,   *)
(* kept to show that a property notices the fault; nothing uses it.        *)
(***************************************************************************)
EXTENDS Integers, Sequences

CONSTANTS
  MaxReplayFrames,  \* kMaxReplayFrames, 1024
  Logs,             \* names of the logs that clients upload
  Deltas,           \* Deltas[log]: the delta_us of each frame, the first 0
  LoopModes,        \* the loop modes that clients start with
  TimeModulus       \* 2^32

NoLog == "none"

ASSUME ReplayAssumption ==
  /\ NoLog \notin Logs
  /\ MaxReplayFrames \in Nat \ {0}
  /\ TimeModulus \in Nat \ {0}
  /\ Deltas \in [Logs -> Seq(0 .. TimeModulus - 1)]
  /\ \A log \in Logs : Deltas[log] # <<>> /\ Deltas[log][1] = 0
  /\ LoopModes \subseteq
       {"PLAY_ONCE", "LOOP_RAW", "LOOP_WITH_COUNTER_CONTINUATION"}

Times == 0 .. TimeModulus - 1
Frame == [log : Logs \cup {NoLog}, position : 0 .. MaxReplayFrames]
NoFrame == [log |-> NoLog, position |-> 0]

VARIABLES
  \* shared
  frames, frame_count, cursor, playing, loop_mode, next_due,
  \* the UI task
  ui,         \* "idle", "rewind", "fill", "ready", "play" or "due"
  log,        \* the log it is loading, or last loaded
  asked,      \* the time that start() was given
  \* the CAN task
  can,        \* "poll", "test", "send", "inc", "store", "end", "halt",
              \* "restart" or "schedule"
  clock,      \* micros()
  now,        \* the time its tick was given
  tmp,        \* the cursor it is about to store, less one
  \* history
  clean,      \* playing since a start that nothing has disturbed
  expected,   \* the position such a replay has reached
  in_order,   \* such replays have sent their log in order
  since_stop  \* frames sent since a stop returned; capped at 2

shared == <<frames, frame_count, cursor, playing, loop_mode, next_due>>
canVars == <<can, now, tmp>>
history == <<clean, expected, in_order, since_stop>>
uiVars == <<ui, log, asked>>
replayVars == <<shared, uiVars, canVars, clock, history>>

-----------------------------------------------------------------------------
ReplayInit ==
  /\ frames = [i \in 0 .. MaxReplayFrames - 1 |-> NoFrame]
  /\ frame_count = 0 /\ cursor = 0 /\ playing = FALSE
  /\ loop_mode = "PLAY_ONCE" /\ next_due = 0
  /\ ui = "idle" /\ log = NoLog /\ asked = 0
  /\ can = "poll" /\ clock = 0 /\ now = 0 /\ tmp = 0
  /\ clean = FALSE /\ expected = 0 /\ in_order = TRUE
  /\ since_stop = 0

(* A cursor of MaxReplayFrames stands for every one that has left the      *)
(* array: they all compare alike and read what is no log's frame.          *)
After(i) == IF i < MaxReplayFrames THEN i + 1 ELSE MaxReplayFrames
FrameAt(i) == IF i < MaxReplayFrames THEN frames[i] ELSE NoFrame

(* Lines that no longer fit in the array are skipped.                      *)
Loaded(l) ==
  IF Len(Deltas[l]) < MaxReplayFrames THEN Len(Deltas[l]) ELSE MaxReplayFrames
DeltaOf(f) == IF f.log = NoLog THEN 0 ELSE Deltas[f.log][f.position + 1]

-----------------------------------------------------------------------------
(* loadLogCsv: the count and the cursor are reset, then every parsed line  *)
(* is stored and counted.  A line that does not parse is skipped and only  *)
(* changes the answer, so a log here is the lines that parse.              *)
LoadLogCsv(l) ==
  /\ ui = "idle"
  /\ ui' = "rewind" /\ log' = l
  /\ frame_count' = 0
  /\ clean' = FALSE
  /\ UNCHANGED <<frames, cursor, playing, loop_mode, next_due, asked, canVars,
                 clock, expected, in_order, since_stop>>

RewindCursor ==
  /\ ui = "rewind"
  /\ ui' = "fill"
  /\ cursor' = 0
  /\ UNCHANGED <<frames, frame_count, playing, loop_mode, next_due, log, asked,
                 canVars, clock, history>>

StoreLine ==
  /\ ui = "fill" /\ frame_count < Loaded(log)
  /\ frames' = [frames EXCEPT ![frame_count] =
                  [log |-> log, position |-> frame_count]]
  /\ frame_count' = frame_count + 1
  /\ UNCHANGED <<cursor, playing, loop_mode, next_due, uiVars, canVars, clock,
                 history>>

EndLoad ==
  /\ ui = "fill" /\ frame_count = Loaded(log)
  /\ ui' = "idle"
  /\ UNCHANGED <<shared, log, asked, canVars, clock, history>>

(* start(): an empty log is refused by the handler and again here.  The    *)
(* start is clean when nothing is playing and the CAN task is not in tick. *)
Start(m) ==
  /\ ui = "idle" /\ frame_count > 0
  /\ ui' = "ready"
  /\ loop_mode' = m /\ asked' = clock
  /\ clean' = (~playing /\ can = "poll") /\ expected' = 0
  /\ since_stop' = 0
  /\ UNCHANGED <<frames, frame_count, cursor, playing, next_due, log,
                 canVars, clock, in_order>>

StartCursorMutant ==
  /\ ui = "ready"
  /\ ui' = "play"
  /\ UNCHANGED <<shared, log, asked, canVars, clock, history>>
StartCursor ==
  /\ ui = "ready"
  /\ ui' = "play"
  /\ cursor' = 0
  /\ UNCHANGED <<frames, frame_count, playing, loop_mode, next_due, log, asked,
                 canVars, clock, history>>

StartPlaying ==
  /\ ui = "play"
  /\ ui' = "due"
  /\ playing' = TRUE
  /\ UNCHANGED <<frames, frame_count, cursor, loop_mode, next_due, log, asked,
                 canVars, clock, history>>

StartDue ==
  /\ ui = "due"
  /\ ui' = "idle"
  /\ next_due' = asked /\ asked' = 0
  /\ UNCHANGED <<frames, frame_count, cursor, playing, loop_mode, log,
                 canVars, clock, history>>

Stop ==
  /\ ui = "idle"
  /\ playing' = FALSE
  /\ clean' = FALSE /\ since_stop' = 0
  /\ UNCHANGED <<frames, frame_count, cursor, loop_mode, next_due, uiVars,
                 canVars, clock, expected, in_order>>

-----------------------------------------------------------------------------
(* Time passes; a tick keeps the time that it was given.                   *)
Advance ==
  /\ clock' = (clock + 1) % TimeModulus
  /\ UNCHANGED <<shared, uiVars, canVars, history>>

BeginTick ==
  /\ can = "poll" /\ playing /\ frame_count # 0
  /\ can' = "test" /\ now' = clock
  /\ UNCHANGED <<shared, uiVars, clock, tmp, history>>

TestDueMutant ==
  /\ can = "test"
  /\ can' = IF now >= next_due THEN "send" ELSE "poll"
  /\ UNCHANGED <<shared, uiVars, clock, now, tmp, history>>
TestDue ==
  /\ can = "test"
  /\ can' = IF playing /\ now >= next_due THEN "send" ELSE "poll"
  /\ UNCHANGED <<shared, uiVars, clock, now, tmp, history>>

SendFrame ==
  /\ can = "send"
  /\ can' = "inc"
  /\ LET f == FrameAt(cursor)
     IN  /\ in_order' = (in_order /\ (clean => f = [log |-> log,
                                                    position |-> expected]))
         /\ expected' = IF ~clean THEN 0
                        ELSE (expected + 1) % Loaded(log)
  /\ since_stop' = IF playing \/ since_stop = 2 THEN since_stop
                   ELSE since_stop + 1
  /\ UNCHANGED <<shared, uiVars, clock, now, tmp, clean>>

LoadCursor ==
  /\ can = "inc"
  /\ can' = "store" /\ tmp' = cursor
  /\ UNCHANGED <<shared, uiVars, clock, now, history>>

StoreCursor ==
  /\ can = "store"
  /\ can' = "end" /\ cursor' = After(tmp) /\ tmp' = 0
  /\ UNCHANGED <<frames, frame_count, playing, loop_mode, next_due, uiVars,
                 clock, now, history>>

TestEnd ==
  /\ can = "end"
  /\ can' = IF cursor < frame_count THEN "schedule"
            ELSE IF loop_mode = "PLAY_ONCE" THEN "halt" ELSE "restart"
  /\ UNCHANGED <<shared, uiVars, clock, now, tmp, history>>

(* A log played once is over.                                              *)
Halt ==
  /\ can = "halt"
  /\ can' = "poll" /\ playing' = FALSE
  /\ clean' = FALSE
  /\ in_order' = (in_order /\ (clean => expected = 0))
  /\ UNCHANGED <<frames, frame_count, cursor, loop_mode, next_due, uiVars,
                 clock, now, tmp, expected, since_stop>>

(* The third mode also counts its rounds, in loop_counter_, which nothing  *)
(* reads.                                                                  *)
Restart ==
  /\ can = "restart"
  /\ can' = "schedule" /\ cursor' = 0
  /\ UNCHANGED <<frames, frame_count, playing, loop_mode, next_due, uiVars,
                 clock, now, tmp, history>>

ScheduleNext ==
  /\ can = "schedule"
  /\ can' = "test"
  /\ next_due' = (now + DeltaOf(FrameAt(cursor))) % TimeModulus
  /\ UNCHANGED <<frames, frame_count, cursor, playing, loop_mode, uiVars,
                 clock, now, tmp, history>>

-----------------------------------------------------------------------------
Tick ==
  TestDue \/ SendFrame \/ LoadCursor \/ StoreCursor \/ TestEnd \/ Halt \/
  Restart \/ ScheduleNext
UiStep ==
  RewindCursor \/ StoreLine \/ EndLoad \/ StartCursor \/ StartPlaying \/ StartDue
UiRequest ==
  \/ \E l \in Logs : LoadLogCsv(l)
  \/ \E m \in LoopModes : Start(m)
  \/ Stop

ReplayNext == UiRequest \/ UiStep \/ Advance \/ BeginTick \/ Tick

(* Each task runs on a core of its own; requests come as they come.        *)
ReplaySpec ==
  /\ ReplayInit /\ [][ReplayNext]_replayVars
  /\ WF_replayVars(Tick) /\ WF_replayVars(UiStep) /\ WF_replayVars(BeginTick)

-----------------------------------------------------------------------------
(* A replay that was started while none was playing, and that no request   *)
(* has disturbed, sends every frame of its log in order, once per round,   *)
(* and ends only at the end of a round.                                    *)
UndisturbedReplayInOrder == in_order

(* After stop() at most the one frame that tick had already tested for is  *)
(* put on the bus before the next start.                                   *)
StopsWithinOneFrame == since_stop <= 1

(* Unless a request interferes, the CAN task comes back from tick() to     *)
(* poll the buses (main.cpp:801-872 calls tick in every round; README.md   *)
(* says that nothing may starve CAN forwarding).                           *)
TickReturns == can # "poll" ~> (can = "poll" \/ ui # "idle")

=============================================================================
