------------------------------ MODULE BatchLog ------------------------------
(***************************************************************************)
(* The batch run and the thread that writes its log (src/main.cpp): the    *)
(* emulation submits chunks of records to a queue of two, waits while it   *)
(* is full, and gives up when a write has failed.                          *)
(*                                                                         *)
(* A thread gives up the mutex only to write, to wait and on its return,   *)
(* so what it does in between is one step (finish notifies just after it   *)
(* has released the mutex).  A thread with nothing to do sleeps until it   *)
(* is notified.                                                            *)
(***************************************************************************)
EXTENDS Naturals, Sequences

CONSTANTS
  LOG_INTERVAL, \* instructions in a chunk of the log
  MaxBatch      \* bound of the model on the instructions of a batch run

ASSUME BatchAssumption == {LOG_INTERVAL, MaxBatch} \subseteq Nat \ {0}

QueueLimit == 2

VARIABLE
  batch  \* count: instructions executed     main, worker: where each thread is
         \* chunk: records not submitted     asleep: threads in changed.wait
         \* pending: chunks submitted        writing: the chunk being written
         \* stopping, writeError             output: records in the log

BatchInit ==
  batch = [count |-> 0, chunk |-> <<>>, pending |-> <<>>, stopping |-> FALSE,
           writeError |-> FALSE, main |-> "run", worker |-> "wait", asleep |-> {},
           writing |-> <<>>, output |-> <<>>]

Record(n, kind) == [count |-> n, kind |-> kind]

(***************************************************************************)
(* runBatch: an instruction and its record, until one cannot be fetched or *)
(* ends the run; then what is left is submitted and the writer finished.   *)
(***************************************************************************)
Instruct ==
  /\ batch.main = "run" /\ batch.count < MaxBatch
  /\ LET n == batch.count + 1
     IN  batch' = [batch EXCEPT !.count = n, !.chunk = Append(@, Record(n, "executed")),
                     !.main = IF n % LOG_INTERVAL = 0 THEN "submit" ELSE "run"]

\* A record, with diagnostics, and the final output.
StopRun ==
  /\ batch.main = "run"
  /\ \E last \in {Record(batch.count, "not fetched"), Record(batch.count + 1, "executed")} :
       batch' = [batch EXCEPT !.count = last.count,
                   !.chunk = @ \o <<last, Record(last.count, "final")>>, !.main = "submitLast"]

Notified(s) == [s EXCEPT !.asleep = {}]

MaySubmit == batch.writeError \/ batch.stopping \/ Len(batch.pending) < QueueLimit

Submitted ==
  IF batch.writeError \/ batch.stopping \/ batch.chunk = <<>> THEN batch
  ELSE Notified([batch EXCEPT !.pending = Append(@, batch.chunk), !.chunk = <<>>])

Submit ==
  /\ batch.main \in {"submit", "submitLast"} /\ "main" \notin batch.asleep
  /\ batch' = IF ~MaySubmit THEN [batch EXCEPT !.asleep = @ \union {"main"}]
              ELSE [Submitted EXCEPT
                      !.main = CASE batch.main = "submitLast" -> "finish"
                                 [] batch.main = "submit" /\ batch.writeError -> "submitLast"
                                 [] OTHER -> "run"]

Finish ==
  /\ batch.main = "finish"
  /\ batch' = Notified([batch EXCEPT !.stopping = TRUE, !.main = "join"])

Join ==
  /\ batch.main = "join" /\ batch.worker = "done"
  /\ batch' = [batch EXCEPT !.main = "ended"]

(***************************************************************************)
(* writeBatches                                                            *)
(***************************************************************************)
\* Mutant: the worker takes a chunk without telling who waits for room.
TakenSilently(s) ==
  [s EXCEPT !.writing = Head(s.pending), !.pending = Tail(@), !.worker = "write"]

Taken(s) ==
  Notified([s EXCEPT !.writing = Head(s.pending), !.pending = Tail(@), !.worker = "write"])

NothingLeft == batch.stopping /\ batch.pending = <<>>

WaitOver ==
  /\ batch.worker = "wait" /\ "worker" \notin batch.asleep
  /\ batch' = IF NothingLeft THEN [batch EXCEPT !.worker = "done"]
              ELSE IF batch.pending = <<>> THEN [batch EXCEPT !.asleep = @ \union {"worker"}]
              ELSE Taken(batch)

\* writeChunk, which a failed write leaves in the middle.
Written ==
  /\ batch.worker = "write"
  /\ \/ batch' = [batch EXCEPT !.output = @ \o batch.writing, !.writing = <<>>,
                    !.worker = "wait"]
     \/ \E k \in 0 .. Len(batch.writing) :
          batch' = Notified([batch EXCEPT
                      !.output = @ \o SubSeq(batch.writing, 1, k), !.writing = <<>>,
                      !.pending = <<>>, !.writeError = TRUE, !.worker = "done"])

BatchNext == Instruct \/ StopRun \/ Submit \/ Finish \/ Join \/ WaitOver \/ Written

BatchSpec == BatchInit /\ [][BatchNext]_batch
-----------------------------------------------------------------------------
\* A thread asleep in changed.wait has nothing to do: what lets it go on notifies it.
SleepersHaveNothingToDo ==
  /\ "main" \in batch.asleep => ~MaySubmit
  /\ "worker" \in batch.asleep => batch.pending = <<>> /\ ~batch.stopping

(***************************************************************************)
(* The log is the records of the run from the first on, in order and       *)
(* without a gap; a run that ended without a write error has logged all of *)
(* them; and neither the run nor its end waits for what will not come.     *)
(***************************************************************************)
LogIsTheRun ==
  /\ \A i \in DOMAIN batch.output :
       batch.output[i] \in IF i <= batch.count THEN {Record(i, "executed")}
                           ELSE {Record(batch.count, k) : k \in {"not fetched", "final"}}
  /\ batch.main = "ended" /\ ~batch.writeError =>
       /\ Len(batch.output) > batch.count
       /\ batch.output[Len(batch.output)].kind = "final"
  /\ SleepersHaveNothingToDo
=============================================================================
