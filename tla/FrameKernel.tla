----------------------------- MODULE FrameKernel ----------------------------
(***************************************************************************)
(* tui/kernel.rs and the loop of tui/dashboard.rs: the interface's task    *)
(* draws, a thread writes to the terminal.  Each flush of a drawing is a   *)
(* message in a channel of capacity one, which the thread acknowledges     *)
(* when the terminal has taken it.  What a drawing shows is the number of  *)
(* changes it has seen.                                                    *)
(***************************************************************************)
EXTENDS Naturals, Sequences

CONSTANTS
  MaxChanges,     \* bound: changes of what is to be shown
  FlushesPerDraw  \* of Terminal::draw: hide_cursor flushes too

VARIABLES
  changes,   \* so far
  dirty, inFlight, immediate, lastSeq,   \* Presenter
  due,       \* FRAME_INTERVAL has passed since the last frame
  ui,        \* "loop", "flush" (in a drawing), "leave" or "ended"
  toFlush, drawing,  \* flushes left of the drawing, and the changes it shows
  sequence,  \* FrameWriter
  channel,   \* bounded(1)
  writer,    \* "ready", "writing", "gone"
  message,   \* what the thread writes
  acks,      \* unbounded
  shown      \* by the terminal

presenter == <<dirty, inFlight, immediate, lastSeq, due>>
drawn == <<ui, toFlush, drawing, sequence>>
thread == <<writer, message, acks, shown>>
vars == <<changes, presenter, drawn, channel, thread>>

Shutdown == [seq |-> 0, shows |-> 0]
Messages == [seq : 0..(FlushesPerDraw * (MaxChanges + 1) + 1), shows : 0..MaxChanges]

TypeOK ==
  /\ changes \in 0..MaxChanges /\ shown \in 0..MaxChanges /\ drawing \in 0..MaxChanges
  /\ dirty \in BOOLEAN /\ inFlight \in BOOLEAN /\ immediate \in BOOLEAN /\ due \in BOOLEAN
  /\ ui \in {"loop", "flush", "leave", "ended"} /\ toFlush \in 0..FlushesPerDraw
  /\ Len(channel) <= 1 /\ \A i \in 1..Len(channel) : channel[i] \in Messages
  /\ writer \in {"ready", "writing", "gone"} /\ message \in Messages
  /\ lastSeq <= sequence /\ \A i \in 1..Len(acks) : acks[i] \in 1..sequence

(* TerminalKernel::enter, whose clear() is the first frame. *)
Init ==
  /\ changes = 0 /\ shown = 0 /\ drawing = 0
  /\ dirty = TRUE /\ inFlight = TRUE /\ immediate = TRUE /\ lastSeq = 0 /\ due = TRUE
  /\ ui = "loop" /\ toFlush = 0 /\ sequence = 1
  /\ channel = <<[seq |-> 1, shows |-> 0]>>
  /\ writer = "ready" /\ message = Shutdown /\ acks = <<>>

-----------------------------------------------------------------------------
(* The loop of the dashboard.                                              *)

(* Mistake: while a frame is in flight no other is asked for. *)
DirtyIfIdle == dirty \/ ~inFlight

Dirty == TRUE

(* A key, a size, or up to 32 events of the log: they are applied together. *)
Change(atOnce) ==
  /\ ui = "loop" /\ changes < MaxChanges
  /\ changes' = changes + 1
  /\ dirty' = Dirty /\ immediate' = (immediate \/ atOnce)
  /\ UNCHANGED <<inFlight, lastSeq, due, drawn, channel, thread>>

Elapse ==
  /\ ~due /\ due' = TRUE
  /\ UNCHANGED <<changes, dirty, inFlight, immediate, lastSeq, drawn, channel, thread>>

CanPaint == dirty /\ ~inFlight /\ (immediate \/ due)

(* Terminal::draw flushes FlushesPerDraw times; the first has the changes. *)
Paint ==
  /\ ui = "loop" /\ CanPaint
  /\ ui' = "flush" /\ toFlush' = FlushesPerDraw /\ drawing' = changes
  /\ UNCHANGED <<changes, presenter, sequence, channel, thread>>

(* FrameWriter::flush, with the rest of the task, waits for room ... *)
Flush ==
  /\ ui = "flush" /\ toFlush > 0 /\ writer # "gone" /\ channel = <<>>
  /\ sequence' = sequence + 1 /\ toFlush' = toFlush - 1
  /\ channel' = <<[seq |-> sequence + 1, shows |-> drawing]>>
  /\ UNCHANGED <<changes, presenter, ui, drawing, thread>>

(* Mistake: the drawing goes on, and waits, when the thread is gone. *)
FlushWaits == FALSE

(* ... unless the thread has gone: terminal_render_failed. *)
FlushFails ==
  /\ ui = "flush" /\ toFlush > 0 /\ writer = "gone"
  /\ ui' = "leave"
  /\ UNCHANGED <<changes, presenter, toFlush, drawing, sequence, channel, thread>>

Painted ==
  /\ ui = "flush" /\ toFlush = 0
  /\ ui' = "loop"
  /\ dirty' = FALSE /\ inFlight' = TRUE /\ immediate' = FALSE /\ due' = FALSE
  /\ UNCHANGED <<changes, lastSeq, toFlush, drawing, sequence, channel, thread>>

Counts(seq) == seq >= lastSeq

Acknowledge ==
  /\ ui = "loop" /\ acks # <<>>
  /\ acks' = Tail(acks)
  /\ lastSeq' = (IF Counts(Head(acks)) THEN Head(acks) ELSE lastSeq)
  /\ inFlight' = (inFlight /\ ~Counts(Head(acks)))
  /\ UNCHANGED <<changes, dirty, immediate, due, drawn, channel, writer, message, shown>>

(* The acknowledgements are at their end: KernelEvent::Closed. *)
Closed ==
  /\ ui = "loop" /\ writer = "gone" /\ acks = <<>>
  /\ ui' = "leave"
  /\ UNCHANGED <<changes, presenter, toFlush, drawing, sequence, channel, thread>>

(* The user quits, or the thread that reads the input stops. *)
Quit ==
  /\ ui = "loop" /\ ui' = "leave"
  /\ UNCHANGED <<changes, presenter, toFlush, drawing, sequence, channel, thread>>

(* FrameWriter::drop. *)
Drop ==
  /\ ui = "leave" /\ (writer = "gone" \/ channel = <<>>)
  /\ ui' = "ended" /\ channel' = (IF writer = "gone" THEN <<>> ELSE <<Shutdown>>)
  /\ UNCHANGED <<changes, presenter, toFlush, drawing, sequence, thread>>

-----------------------------------------------------------------------------
(* The thread of spawn_writer.                                             *)

Receive ==
  /\ writer = "ready" /\ channel # <<>>
  /\ channel' = <<>> /\ message' = Head(channel)
  /\ writer' = IF Head(channel) = Shutdown THEN "gone" ELSE "writing"
  /\ UNCHANGED <<changes, presenter, drawn, acks, shown>>

(* Without the receiver of the acknowledgements it stops. *)
Write ==
  /\ writer = "writing"
  /\ shown' = message.shows
  /\ IF ui = "ended" THEN writer' = "gone" /\ UNCHANGED acks
                     ELSE writer' = "ready" /\ acks' = Append(acks, message.seq)
  /\ UNCHANGED <<changes, presenter, drawn, channel, message>>

WriteFails ==
  /\ writer = "writing" /\ writer' = "gone" /\ channel' = <<>>
  /\ UNCHANGED <<changes, presenter, drawn, message, acks, shown>>

-----------------------------------------------------------------------------
Task == Elapse \/ Paint \/ Flush \/ FlushFails \/ Painted \/ Acknowledge \/ Closed \/ Drop

Thread == Receive \/ Write

Next == (\E atOnce \in BOOLEAN : Change(atOnce)) \/ Quit \/ WriteFails \/ Task \/ Thread

(* tokio polls the task, the system runs the thread, and a terminal that    *)
(* takes no more output has its user to blame.                             *)
Spec == Init /\ [][Next]_vars /\ WF_vars(Task) /\ WF_vars(Thread)

-----------------------------------------------------------------------------
(* Properties.                                                             *)

(* Every change is shown at last, also one that came while a drawing was    *)
(* in flight, unless the dashboard ends.                                   *)
ChangesAreShown == shown # changes ~> shown = changes \/ ui \in {"leave", "ended"}

(* When the thread has gone, the dashboard ends: it neither runs on unseen *)
(* nor waits for room in the channel.                                      *)
DeadTerminalEndsIt == writer = "gone" ~> ui = "ended"
=============================================================================
