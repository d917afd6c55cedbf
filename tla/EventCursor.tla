----------------------------- MODULE EventCursor -----------------------------
(***************************************************************************)
(* How a storage node walks the ordered stream of Walrus events, and what  *)
(* it remembers of its progress across restarts.                           *)
(*                                                                         *)
(* Events are handled consecutively by StorageNode::process_events, but    *)
(* their handling may finish out of order (blob syncs, shard syncs and     *)
(* background workers hold the EventHandle).  EventSequencer keeps the     *)
(* finished indices that are not yet contiguous, EventCursorTable persists *)
(* the contiguous prefix, and at start-up the stream is resumed from the   *)
(* smaller of the node's and the event-blob writer's cursor, skipping to   *)
(* the first event that the local event DB still has.                      *)
(*                                                                         *)
(* Abstractions: the EventID of event i is i itself; what handling an      *)
(* event does is left out (a handle is taken when the event is delivered   *)
(* and marked complete any time later); the event-blob writer is reduced   *)
(* to its cursor; node status is reduced to whether it records that the    *)
(* history is incomplete.                                                  *)
(***************************************************************************)
EXTENDS Integers, FiniteSets

CONSTANTS
  NumEvents,       \* the events of the stream are 0 .. NumEvents - 1
  FirstAvailable,  \* index of the first event in the local event DB
  MaxCrashes       \* bound on the number of crashes

ASSUME NumEventsAssumption == NumEvents \in Nat
ASSUME FirstAvailableAssumption == FirstAvailable \in 0 .. NumEvents
ASSUME MaxCrashesAssumption == MaxCrashes \in Nat

VARIABLES
  cursor,         \* persisted EventIdWithProgress (NoEvent, 0 when absent)
  status,         \* persisted node status
  writer_cursor,  \* persisted cursor of the event-blob writer
  phase,          \* where the process is between start-up and crash
  head_index,     \* EventSequencer::head_index
  queue,          \* EventSequencer::queue (the indices it holds)
  progress,       \* the atomics behind get_event_cursor_progress
  element_index,  \* index that process_events gives the next element
  stream_next,    \* event that the stream really delivers next
  processing_starting_index,
  writer_starting_index,
  handles,        \* indices whose EventHandle is held by some task
  completed,      \* history: events that were completely handled once
  crashes         \* number of crashes so far

diskVars == <<cursor, status, writer_cursor>>
memVars == <<head_index, queue, progress>>
streamVars == <<element_index, stream_next, processing_starting_index,
                writer_starting_index>>
cursorVars == <<diskVars, memVars, streamVars, phase, handles, completed, crashes>>

NoEvent == -1

\* Without an event-blob writer its cursor is u64::MAX: beyond every event.
NoWriter == NumEvents

Min2(a, b) == IF a <= b THEN a ELSE b
Max2(a, b) == IF a >= b THEN a ELSE b

Cursors == [event_id: NoEvent .. NumEvents, next_event_index: 0 .. NumEvents]

Phases == {"down", "opened", "repositioned", "status_set", "running"}

(***************************************************************************)
(* Initially the database is empty and the process is down.                *)
(***************************************************************************)
CursorInit ==
  /\ cursor = [event_id |-> NoEvent, next_event_index |-> 0]
  /\ status = "Standby"
  /\ writer_cursor \in {0, NoWriter}
  /\ phase = "down"
  /\ head_index = 0
  /\ queue = {}
  /\ progress = [persisted |-> 0, pending |-> 0, highest |-> 0]
  /\ element_index = 0
  /\ stream_next = 0
  /\ processing_starting_index = 0
  /\ writer_starting_index = 0
  /\ handles = {}
  /\ completed = {}
  /\ crashes = 0

(***************************************************************************)
(* EventCursorTable::reopen: the sequencer continues from the persisted    *)
(* index; what was waiting in the old sequencer is forgotten.              *)
(***************************************************************************)
Reopen ==
  /\ phase = "down"
  /\ phase' = "opened"
  /\ head_index' = cursor.next_event_index
  /\ queue' = {}
  /\ progress' = [persisted |-> cursor.next_event_index,
                  pending |-> 0, highest |-> 0]
  /\ UNCHANGED <<diskVars, streamVars, handles, completed, crashes>>

(***************************************************************************)
(* The stream starts at event `from`; process_events zips it with indices  *)
(* that count from the smaller of the two starting indices.                *)
(***************************************************************************)
StartStream(from, processing, writer) ==
  /\ stream_next' = from
  /\ processing_starting_index' = processing
  /\ writer_starting_index' = writer
  /\ element_index' = Min2(processing, writer)
  /\ phase' = "running"

\* The lowest event that the node or the event-blob writer still needs.
LowestNeeded == Min2(cursor.next_event_index, writer_cursor)

(***************************************************************************)
(* continue_event_stream, first outcome: the event DB has every event that *)
(* is needed, and the stream resumes from the lower cursor.                *)
(***************************************************************************)
ContinueEventStream ==
  /\ phase = "opened"
  /\ FirstAvailable <= LowestNeeded
  /\ StartStream(LowestNeeded, cursor.next_event_index, writer_cursor)
  /\ UNCHANGED <<diskVars, memVars, handles, completed, crashes>>

(***************************************************************************)
(* Second outcome, first write: a fresh node is moved to the first event   *)
(* that is available.  (A node that is behind but not fresh panics.)       *)
(***************************************************************************)
RepositionEventCursor ==
  /\ phase = "opened"
  /\ FirstAvailable > LowestNeeded
  /\ cursor.next_event_index = 0
  /\ cursor.next_event_index < FirstAvailable
  /\ cursor' = [event_id |-> FirstAvailable - 1,
                next_event_index |-> FirstAvailable]
  /\ progress' = [progress EXCEPT !.persisted = FirstAvailable]
  /\ head_index' = FirstAvailable
  /\ queue' = {}
  /\ phase' = "repositioned"
  /\ UNCHANGED <<status, writer_cursor, streamVars, handles, completed, crashes>>

(***************************************************************************)
(* Second outcome, second write: the status records the missing history    *)
(* (the blob-info table, empty on a fresh node, is cleared with it).       *)
(***************************************************************************)
SetIncompleteHistory ==
  /\ phase = "repositioned"
  /\ status' = "RecoveryCatchUpWithIncompleteHistory"
  /\ phase' = "status_set"
  /\ UNCHANGED <<cursor, writer_cursor, memVars, streamVars, handles, completed,
                 crashes>>

(***************************************************************************)
(* Second outcome, the rest: the writer is moved if it is behind, and the  *)
(* stream starts from the first available event.                           *)
(***************************************************************************)
ContinueAfterReposition ==
  /\ \/ phase = "status_set"
     \/ /\ phase = "opened"
        /\ FirstAvailable > LowestNeeded
        /\ cursor.next_event_index >= FirstAvailable
  /\ writer_cursor' = Max2(writer_cursor, FirstAvailable)
  /\ StartStream(FirstAvailable, Max2(cursor.next_event_index, FirstAvailable),
                 Max2(writer_cursor, FirstAvailable))
  /\ UNCHANGED <<cursor, status, memVars, handles, completed, crashes>>

\* Mutant: the first element is left out.
NeededAfterStart == element_index > processing_starting_index

\* The node has not yet persisted the completion of this element.
NeededByNode == element_index >= processing_starting_index

(***************************************************************************)
(* One turn of the loop of process_events: the element is handed to the    *)
(* node if the node still needs it, then to the writer if it still does.   *)
(***************************************************************************)
ProcessEvent ==
  /\ phase = "running"
  /\ stream_next < NumEvents
  /\ handles' = IF NeededByNode
                THEN handles \cup {element_index} ELSE handles
  /\ element_index' = element_index + 1
  /\ stream_next' = stream_next + 1
  /\ UNCHANGED <<diskVars, memVars, processing_starting_index,
                 writer_starting_index, phase, completed, crashes>>

\* EventSequencer::add panics on an index that was observed before.
AddPanics(i) == i < head_index \/ i \in queue

\* Mutant: the run may jump over missing indices.
RunEndsAtGap(observed, gap) == gap \notin observed

\* ready_events: the run of observed indices from the head ends before gap.
ReadyUpTo(observed, gap) ==
  /\ head_index .. (gap - 1) \subseteq observed
  /\ gap \notin observed

\* The merge operator update_cursor_and_progress adds to what is persisted.
MergedIndex(count) == cursor.next_event_index + count

(***************************************************************************)
(* EventHandle::mark_as_complete -> maybe_advance_event_cursor, under the  *)
(* mutex of the queue: the index is added; gap is where the contiguous run *)
(* from the head ends; the merge operand (last id of the run, its length)  *)
(* is applied to the persisted cursor by update_cursor_and_progress before *)
(* the queue drops the run.                                                *)
(***************************************************************************)
MarkAsComplete(i) ==
  LET observed == queue \cup {i} IN
  /\ phase = "running"
  /\ i \in handles
  /\ ~ AddPanics(i)
  /\ handles' = handles \ {i}
  /\ completed' = completed \cup {i}
  /\ \E gap \in head_index .. NumEvents :
       /\ ReadyUpTo(observed, gap)
       /\ cursor' = IF gap = head_index THEN cursor ELSE
            [event_id |-> gap - 1,
             next_event_index |-> MergedIndex(gap - head_index)]
       /\ queue' = observed \ (head_index .. (gap - 1))
       /\ head_index' = gap
       /\ progress' = [persisted |-> gap,
                       pending |-> Cardinality(observed \ (head_index .. (gap - 1))),
                       highest |-> Max2(progress.highest, i)]
  /\ UNCHANGED <<status, writer_cursor, streamVars, phase, crashes>>

(***************************************************************************)
(* EventBlobWriter::write: with the batch that ends a blob the writer      *)
(* commits the events it has been given; its module is EventBlobWriter.    *)
(***************************************************************************)
WriterCommit ==
  /\ phase = "running"
  /\ writer_cursor < element_index
  /\ writer_cursor' = element_index
  /\ UNCHANGED <<cursor, status, memVars, streamVars, phase, handles, completed,
                 crashes>>

(***************************************************************************)
(* The process stops at any point: everything but the database is lost.    *)
(***************************************************************************)
Crash ==
  /\ phase # "down"
  /\ crashes < MaxCrashes
  /\ crashes' = crashes + 1
  /\ phase' = "down"
  /\ head_index' = 0
  /\ queue' = {}
  /\ progress' = [persisted |-> 0, pending |-> 0, highest |-> 0]
  /\ handles' = {}
  /\ UNCHANGED <<diskVars, streamVars, completed>>

\* Every event was delivered and handled: the loop waits for more.
AwaitEvents ==
  /\ phase = "running"
  /\ stream_next = NumEvents
  /\ handles = {}
  /\ UNCHANGED cursorVars

StartUp ==
  \/ Reopen
  \/ ContinueEventStream
  \/ RepositionEventCursor
  \/ SetIncompleteHistory
  \/ ContinueAfterReposition

CursorNext ==
  \/ StartUp
  \/ ProcessEvent
  \/ \E i \in handles : MarkAsComplete(i)
  \/ WriterCommit
  \/ Crash
  \/ AwaitEvents

(***************************************************************************)
(* Fairness: a stopped node is restarted by its supervisor, the stream is  *)
(* polled on a timer, and every task that holds a handle finishes.         *)
(***************************************************************************)
Fairness ==
  /\ WF_cursorVars(StartUp)
  /\ WF_cursorVars(ProcessEvent)
  /\ \A i \in 0 .. (NumEvents - 1) : WF_cursorVars(MarkAsComplete(i))

CursorSpec == CursorInit /\ [][CursorNext]_cursorVars /\ Fairness

-----------------------------------------------------------------------------
(* The types of the persisted cursor, of the sequencer that                *)
(* EventCursorTable keeps, and of the loop's indices.                      *)
CursorType ==
  /\ cursor \in Cursors
  /\ status \in {"Standby", "RecoveryCatchUpWithIncompleteHistory"}
  /\ writer_cursor \in 0 .. NumEvents
  /\ phase \in Phases
  /\ head_index \in 0 .. NumEvents
  /\ queue \subseteq 0 .. (NumEvents - 1)
  /\ progress \in [persisted: 0 .. NumEvents, pending: Nat, highest: Nat]
  /\ element_index \in 0 .. NumEvents
  /\ stream_next \in 0 .. NumEvents
  /\ processing_starting_index \in 0 .. NumEvents
  /\ writer_starting_index \in 0 .. NumEvents
  /\ handles \subseteq 0 .. (NumEvents - 1)
  /\ completed \subseteq 0 .. (NumEvents - 1)
  /\ crashes \in 0 .. MaxCrashes

(* The persisted cursor never passes an event whose handling did not       *)
(* finish: after any crash, maybe_advance_event_cursor has recorded only   *)
(* events that were complete (or are gone from the local event DB).        *)
PersistedAreCompleted ==
  \A i \in 0 .. (cursor.next_event_index - 1) :
    i \in completed \/ i < FirstAvailable

(* The panic of EventSequencer::add ("index repeated") is unreachable: no  *)
(* task ever holds the handle of an index that was observed already.       *)
NoRepeatedIndex == \A i \in handles : ~ AddPanics(i)

(* The debug assertion of maybe_advance_event_cursor: in a running process *)
(* the sequencer's head, the progress it reports and the persisted number  *)
(* of events agree.                                                        *)
MemoryMatchesDisk ==
  phase # "down" =>
    /\ head_index = cursor.next_event_index
    /\ progress.persisted = cursor.next_event_index

(* The index that the zip in process_events gives an element is the index  *)
(* of the event that the stream delivers.                                  *)
IndexNamesEvent == phase = "running" => element_index = stream_next

(* No event is lost: what was delivered to the node in this run and is not *)
(* covered by the cursor is still held by a task or waits in the queue, so *)
(* no index is missing forever and the cursor cannot get stuck.            *)
NothingLost ==
  phase = "running" =>
    \A i \in head_index .. (element_index - 1) : i \in handles \/ i \in queue

(* The persisted cursor never moves backwards, whatever the order of       *)
(* completions and crashes (reopen and merge operator together).           *)
CursorMonotone ==
  [][cursor'.next_event_index >= cursor.next_event_index]_cursorVars

(* Every event is eventually covered by the persisted cursor, once crashes *)
(* stop: completions out of order never leave a gap behind.                *)
AllEventsPersisted == <>[](cursor.next_event_index = NumEvents)

(* What the doc comment of                                                 *)
(* reposition_event_cursor_if_starting_with_incomplete_history asks for:   *)
(* a node that was moved past missing events says so in its status. It     *)
(* does not hold: a crash may fall between the two writes.                 *)
IncompleteHistoryRecorded ==
  phase = "running" /\ (\E i \in 0 .. (cursor.next_event_index - 1) : i \notin completed)
    => status = "RecoveryCatchUpWithIncompleteHistory"

=============================================================================
