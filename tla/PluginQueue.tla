---------------------------- MODULE PluginQueue ----------------------------
(***************************************************************************)
(* The write queue of the shell plugin (src/Service.qml) and the gate that *)
(* keeps a status read and a write off the AlienFX controller at the same  *)
(* time (src/Model.js, elcReadAction and elcWriteAction).                  *)
(*                                                                         *)
(* The plugin is one thread: a handler runs to its end before the next, so *)
(* handlers are compositions of the operators below, each from one state   *)
(* of the queue to the next.  That state is a record e of                  *)
(*   queue    the jobs not yet started                                     *)
(*   writing  the job of writeProc, None when it does not run              *)
(*   reading  "no" when rgbProc does not run, else what the controller     *)
(*            looked like when it started                                  *)
(*   pending  rgbRefreshPending                                            *)
(*   retry    the elcRetry timer is running                                *)
(***************************************************************************)
EXTENDS Naturals, SequencesExt

CONSTANT None

Idle == [queue |-> <<>>, writing |-> None, reading |-> "no", pending |-> FALSE, retry |-> FALSE]

\* The first three words of a command: device, verb and first argument.  Only
\* a profile's name is a first argument that tells two jobs of the model apart;
\* the argument of every other verb is left out of the words.
Job(dev, verb, val) == [dev |-> dev, verb |-> verb, val |-> val]

QueueKey(job) ==
  IF job.verb = "profile" THEN <<job.dev, job.verb, job.val>> ELSE <<job.dev, job.verb>>

ElcReadAction(e) ==
  IF e.reading # "no" THEN "running"
  ELSE IF e.writing # None \/ e.queue # <<>> THEN "defer"
  ELSE "start"

\* Mutant: a write does not wait for the read.
ElcWriteActionHasty(e) ==
  IF e.writing # None THEN "running" ELSE IF e.queue = <<>> THEN "idle" ELSE "start"

ElcWriteAction(e) ==
  IF e.writing # None THEN "running"
  ELSE IF e.queue = <<>> THEN "idle"
  ELSE IF e.reading # "no" THEN "defer"
  ELSE "start"

Pump(e) ==
  CASE ElcWriteAction(e) = "start" -> [e EXCEPT !.writing = Head(e.queue), !.queue = Tail(@)]
    [] ElcWriteAction(e) = "defer" -> [e EXCEPT !.retry = TRUE]
    [] OTHER -> e

\* Mutants: a job replaces the waiting one where that stands, or never.
CoalesceInPlace(queue, job) ==
  IF \E i \in DOMAIN queue : QueueKey(queue[i]) = QueueKey(job)
  THEN [i \in DOMAIN queue |-> IF QueueKey(queue[i]) = QueueKey(job) THEN job ELSE queue[i]]
  ELSE Append(queue, job)

CoalesceNothing(queue, job) == Append(queue, job)

\* A job takes the place of every waiting job with its key, at the end.
Coalesce(queue, job) ==
  LET next[i \in 0..Len(queue)] ==
        IF i = 0 THEN <<>>
        ELSE IF QueueKey(queue[i]) = QueueKey(job) THEN next[i - 1]
        ELSE Append(next[i - 1], queue[i])
  IN  Append(next[Len(queue)], job)

Enqueue(e, job) == Pump([e EXCEPT !.queue = Coalesce(@, job)])

EnqueueAll(e, jobs) ==
  LET after[i \in 0..Len(jobs)] == IF i = 0 THEN e ELSE Enqueue(after[i - 1], jobs[i])
  IN  after[Len(jobs)]

\* look: what the controller looks like to a read that starts now.
RefreshRgb(e, look) ==
  CASE ElcReadAction(e) = "running" -> [e EXCEPT !.pending = FALSE]
    [] ElcReadAction(e) = "defer" -> [e EXCEPT !.pending = TRUE, !.retry = TRUE]
    [] ElcReadAction(e) = "start" -> [e EXCEPT !.pending = FALSE, !.reading = look]

\* elcRetry fires.
Retry(e, look) ==
  LET fired == [e EXCEPT !.retry = FALSE]
  IN  Pump(IF e.pending THEN RefreshRgb(fired, look) ELSE fired)

\* rgbProc and writeProc have exited; their handlers end in pump().
ReadDone(e, jobs) == Pump(EnqueueAll([e EXCEPT !.reading = "no"], jobs))
WriteDoneUnpumped(e) == [e EXCEPT !.writing = None]  \* mutant
WriteDone(e) == Pump([e EXCEPT !.writing = None])

=============================================================================
