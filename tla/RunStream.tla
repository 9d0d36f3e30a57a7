----------------------------- MODULE RunStream ------------------------------
(***************************************************************************)
(* WorkflowRuntime.stream: the run of WorkflowRun as a task of its own,    *)
(* whose sink puts every event into an unbounded queue, and the async      *)
(* generator that takes them out, yields them to the caller and cancels    *)
(* the task when it is closed or cancelled itself.                         *)
(*                                                                         *)
(* put() on an unbounded queue neither suspends nor raises, so the sink's  *)
(* failures of WorkflowRun do not occur here and a cancellation reaches    *)
(* the run only while the stage executor is awaited.                       *)
(***************************************************************************)
EXTENDS WorkflowRun

VARIABLES
  queue,     \* the items put and not yet taken: see Item
  task,      \* run_task: "running" or "done"
  cancelled, \* has task.cancel() been called?
  consumer,  \* the generator: see Consumers
  received,  \* the sequence numbers yielded to the caller
  joined     \* FALSE once a second cancellation cut "await task" short

streamVars == <<queue, task, cancelled, consumer, received, joined>>
allVars == <<vars, streamVars>>

\* "waiting" in queue.get(), "yielded" to the caller, "closing" in await task;
\* "ended" by return, "failed" by the run's exception, "closed" by the caller.
Consumers == {"waiting", "yielded", "closing", "ended", "failed", "closed"}
Over == {"ended", "failed", "closed"}
\* A queue item is an event, or the _RunDone that tells how the run ended.
Event(n) == [kind |-> "event", seq |-> n]
RunDone(how) == [kind |-> how, seq |-> 0]
IsEvent(item) == item.kind = "event"
Item == [kind : {"event", "ok", "error"}, seq : Nat]

-----------------------------------------------------------------------------
(* The task.                                                               *)

\* The sink: await queue.put(event).
Put ==
  /\ SinkReturns
  /\ queue' = Append(queue, Event(seq))
  /\ UNCHANGED <<task, cancelled, consumer, received, joined>>

\* CancelledError is raised in the executor; one that catches it, or never
\* suspends again, goes on as if nothing had happened.
CancelDelivered ==
  /\ cancelled
  /\ ExecutorCancelled
  /\ UNCHANGED streamVars

RunOn ==
  /\ \/ Body
     \/ \E raw \in Values : ExecutorReturns(raw)
     \/ ExecutorRaises
     \/ Finalize
  /\ UNCHANGED streamVars

\* Faulty variant of TaskEnds: only a result is announced.
TaskEnds_SilentOnError ==
  /\ pc \in {"returned", "raised"} /\ task = "running"
  /\ task' = "done"
  /\ queue' = IF pc = "returned" THEN Append(queue, RunDone("ok")) ELSE queue
  /\ UNCHANGED <<vars, cancelled, consumer, received, joined>>

\* run() returns or raises, anything at all: the sentinel ends the queue.
TaskEnds ==
  /\ pc \in {"returned", "raised"} /\ task = "running"
  /\ task' = "done"
  /\ queue' = Append(queue, RunDone(IF pc = "returned" THEN "ok" ELSE "error"))
  /\ UNCHANGED <<vars, cancelled, consumer, received, joined>>

Task == Put \/ CancelDelivered \/ RunOn \/ TaskEnds

-----------------------------------------------------------------------------
(* The generator.                                                          *)

\* Faulty variant of GetEvent: the newest event first.
GetEvent_Newest ==
  /\ consumer = "waiting" /\ queue # <<>> /\ IsEvent(queue[Len(queue)])
  /\ received' = Append(received, queue[Len(queue)].seq)
  /\ queue' = SubSeq(queue, 1, Len(queue) - 1)
  /\ consumer' = "yielded"
  /\ UNCHANGED <<vars, task, cancelled, joined>>

GetEvent ==
  /\ consumer = "waiting" /\ queue # <<>> /\ IsEvent(Head(queue))
  /\ received' = Append(received, Head(queue).seq)
  /\ queue' = Tail(queue)
  /\ consumer' = "yielded"
  /\ UNCHANGED <<vars, task, cancelled, joined>>

\* The sentinel: return, or raise the run's exception (the task is done, so
\* cancelling and awaiting it on the way out changes nothing).
GetDone ==
  /\ consumer = "waiting" /\ queue # <<>> /\ ~IsEvent(Head(queue))
  /\ queue' = Tail(queue)
  /\ consumer' = IF Head(queue).kind = "ok" THEN "ended" ELSE "failed"
  /\ UNCHANGED <<vars, task, cancelled, received, joined>>

\* The caller asks for the next event.
Resume ==
  /\ consumer = "yielded"
  /\ consumer' = "waiting"
  /\ UNCHANGED <<vars, queue, task, cancelled, received, joined>>

\* Faulty variants of Close: the task is not awaited; it is not cancelled.
Close_NoJoin ==
  /\ consumer \in {"waiting", "yielded"}
  /\ consumer' = "closed"
  /\ cancelled' = TRUE
  /\ UNCHANGED <<vars, queue, task, received, joined>>

\* aclose() at the yield, or a cancellation of the caller in queue.get():
\* task.cancel(), then await task.
Close ==
  /\ consumer \in {"waiting", "yielded"}
  /\ consumer' = "closing"
  /\ cancelled' = TRUE
  /\ UNCHANGED <<vars, queue, task, received, joined>>

\* Faulty variant of Join: the generator waits for the sentinel to be taken.
Join_NeedsEmptyQueue ==
  /\ consumer = "closing" /\ task = "done" /\ queue = <<>>
  /\ consumer' = "closed"
  /\ UNCHANGED <<vars, queue, task, cancelled, received, joined>>

Join ==
  /\ consumer = "closing" /\ task = "done"
  /\ consumer' = "closed"
  /\ UNCHANGED <<vars, queue, task, cancelled, received, joined>>

\* The caller is cancelled again in "await task": the task is cancelled with it
\* and suppress(CancelledError) lets the generator end without it.
CancelledAgain ==
  /\ consumer = "closing" /\ task = "running"
  /\ consumer' = "closed"
  /\ joined' = FALSE
  /\ UNCHANGED <<vars, queue, task, cancelled, received>>

Generator == GetEvent \/ GetDone \/ Join

Caller == Resume \/ Close \/ CancelledAgain

-----------------------------------------------------------------------------

StreamInit ==
  /\ Init
  /\ queue = <<>>
  /\ task = "running"
  /\ cancelled = FALSE
  /\ consumer = "waiting"
  /\ received = <<>>
  /\ joined = TRUE

StreamDone == consumer \in Over /\ task = "done" /\ UNCHANGED allVars

StreamNext == Task \/ Generator \/ Caller \/ StreamDone

StreamSpec == StreamInit /\ [][StreamNext]_allVars

\* The event loop runs whatever is ready; nothing obliges the caller to resume
\* or to close the generator.
StreamFairSpec == StreamSpec /\ WF_allVars(Task) /\ WF_allVars(Generator)

-----------------------------------------------------------------------------
(* Properties.                                                             *)

\* The sentinel is in the queue; the events in front of it; the events the
\* sink has been through.
Announced == queue # <<>> /\ ~IsEvent(queue[Len(queue)])
Queued == IF Announced THEN Len(queue) - 1 ELSE Len(queue)
Sent == IF pc = "sink" THEN seq - 1 ELSE seq

StreamTypeOK ==
  /\ TypeOK
  /\ queue \in Seq(Item)
  /\ task \in {"running", "done"}
  /\ cancelled \in BOOLEAN
  /\ consumer \in Consumers
  /\ received \in Seq(Nat)
  /\ joined \in BOOLEAN

(* Every event the emitter numbered reaches the caller once and in order:    *)
(* what was yielded, then what is queued, is 1, 2, ... up to the last event  *)
(* sent, with nothing after the sentinel.                                    *)
NothingLostOrReordered ==
  /\ \A n \in DOMAIN received : received[n] = n
  /\ \A n \in 1 .. Queued : IsEvent(queue[n]) /\ queue[n].seq = Len(received) + n
  /\ Len(received) + Queued = Sent

(* How the generator ends is how the run ended, and only after the caller    *)
(* has had every event: normally over a result, with the run's exception     *)
(* over a failure.                                                           *)
EndMatchesRun ==
  /\ consumer = "ended"  => pc = "returned" /\ Len(received) = seq
  /\ consumer = "failed" => pc = "raised" /\ Len(received) = seq

(* The caller of run_stream() sees the run it would have got from run(): the  *)
(* same events, the same end.                                                 *)
CallerSeesTheRun == StreamTypeOK /\ NothingLostOrReordered /\ EndMatchesRun

(* No orphan: when a generator is over, however it ended, its run is over    *)
(* and its recorder is finalised, unless a second cancellation cut the join  *)
(* short.                                                                    *)
ClosedMeansFinalised ==
  consumer \in Over /\ joined =>
    /\ pc \in {"returned", "raised"} /\ task = "done"
    /\ recorder \in {"noop", "finished", "blocked"}

(* A caller waiting for the next event gets one, or the end: a failing or    *)
(* interrupted run never leaves it blocked on an empty queue.                *)
WaiterWakes == consumer = "waiting" ~> consumer # "waiting"

(* Closing the generator ends, whether the executor honours the cancellation *)
(* or swallows it: max_steps bounds what the run may still do.               *)
CloseCompletes == consumer = "closing" ~> consumer = "closed"
=============================================================================
