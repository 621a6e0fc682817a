------------------------------- MODULE WinPipeIO -------------------------------
(***************************************************************************)
(* The backend for the anonymous pipes of Windows                          *)
(* (ctxio_windows_pipe.go).  An operation starts a worker goroutine on an  *)
(* OS thread of its own, which puts its channel opDone and its thread      *)
(* handle where a cancel finds them; a cancel that finds both calls        *)
(* CancelSynchronousIo until the worker has closed its channel, and one    *)
(* that does not find them returns.                                        *)
(***************************************************************************)
EXTENDS WinRequest

CONSTANTS Threads,  \* workers: a bound on those that are not gone yet
          Handles   \* the values of thread handles, none of them 0

ASSUME PipeAssumption == 0 \notin Handles

VARIABLES worker,  \* worker[t]: where it is, whose operation it runs, and
                   \*   the value of its thread handle or 0
          opDone,  \* opDone[d]: readOpDone, writeOpDone: a worker or "none"
          thread,  \* thread[d]: readThreadHandle, writeThreadHandle, or 0
          hold     \* hold[p]: h and done in the cancel that p is in

workerVars == <<worker, opDone, thread>>

pipeVars == <<workerVars, hold>>

vars == <<opVars, job, streamVars, canceled, req, pipeVars>>

Gone == [st |-> "gone", c |-> "nobody", own |-> 0]

NoHold == [h |-> 0, done |-> "none"]

Init ==
  /\ OperationInit /\ StreamInit /\ FlagInit /\ RequestInit
  /\ worker = [t \in Threads |-> Gone]
  /\ opDone = [d \in Directions |-> "none"]
  /\ thread = [d \in Directions |-> 0]
  /\ hold   = [p \in Callers \cup Cancelers |-> NoHold]

-----------------------------------------------------------------------------
(* A call of one of the four operations.                                     *)
BeginOperation(c) ==
  /\ \E k \in {"none", "live"}, l \in Lengths(c) :
       Begin(c, k, l, k = "none" /\ canceled[Dir(c)])
  /\ UNCHANGED <<canceled, req, pipeVars>>

(* A worker nobody remembers.                                                *)
Fresh(t) ==
  /\ worker[t] = Gone
  /\ \A p \in Callers \cup Cancelers : t # hold[p].done
  /\ \A d \in Directions : t # opDone[d]

(* doSyncIO stores opDone and starts the worker.                             *)
Spawn(c) ==
  /\ pc[c] = "enter"
  /\ \E t \in Threads : Fresh(t)
  /\ LET t == CHOOSE u \in Threads : Fresh(u)
     IN /\ opDone' = [opDone EXCEPT ![Dir(c)] = t]
        /\ worker' = [worker EXCEPT ![t] = [Gone EXCEPT !.st = "start", !.c = c]]
  /\ pc' = [pc EXCEPT ![c] = "wait"]
  /\ UNCHANGED <<job, ctx, watch, len, out, part, cause, moved, streamVars,
                 canceled, req, thread, hold>>

-----------------------------------------------------------------------------
(* The worker of thread t, in the order of its statements.                   *)
Goes(t, from, to) ==
  /\ worker[t].st = from
  /\ worker' = [worker EXCEPT ![t].st = to]

(* DuplicateHandle fails: the I/O cannot be canceled.                        *)
NoHandle(t) ==
  /\ Goes(t, "start", "ready")
  /\ UNCHANGED <<opVars, job, streamVars, canceled, req, opDone, thread, hold>>

(* It succeeds with a value that is not in use.                              *)
FreeValues == Handles \ {worker[t].own : t \in Threads}

Register(t) ==
  /\ worker[t].st = "start" /\ FreeValues # {}
  /\ LET h == CHOOSE v \in FreeValues : TRUE
     IN /\ worker' = [worker EXCEPT ![t].st = "ready", ![t].own = h]
        /\ thread' = [thread EXCEPT ![Dir(worker[t].c)] = h]
  /\ UNCHANGED <<opVars, job, streamVars, canceled, req, opDone, hold>>

(* ReadFile or WriteFile begins ...                                          *)
Start(t) ==
  /\ Goes(t, "ready", "io")
  /\ Issued(worker[t].c)
  /\ UNCHANGED <<opVars, job, streamVars, canceled, opDone, thread, hold>>

(* ... and returns, and the thread handle is taken away.                     *)
Finish(t) ==
  /\ Goes(t, "io", "send")
  /\ Ended(worker[t].c)
  /\ thread' = IF worker[t].own # 0
               THEN [thread EXCEPT ![Dir(worker[t].c)] = 0] ELSE thread
  /\ UNCHANGED <<opVars, job, streamVars, canceled, req, opDone, hold>>

(* Mutant: ERROR_OPERATION_ABORTED is not translated.                        *)
SendRaw(t) ==
  /\ Goes(t, "send", "sent")
  /\ Settled(worker[t].c, req[worker[t].c].err, req[worker[t].c].n)
  /\ Taken(worker[t].c)
  /\ UNCHANGED <<job, ctx, watch, len, part, cause, moved, streamVars, canceled,
                 opDone, thread, hold>>

(* The result is sent, and doSyncIO receives it and returns.                 *)
Send(t) ==
  /\ Goes(t, "send", "sent")
  /\ SettledAs(worker[t].c, req[worker[t].c])
  /\ Taken(worker[t].c)
  /\ UNCHANGED <<job, ctx, watch, len, part, cause, moved, streamVars, canceled,
                 opDone, thread, hold>>

(* The deferred calls: the thread handle is closed, and its value free; then *)
(* opDone is cleared, whoever set it ...                                     *)
Unregister(t) ==
  /\ worker[t].st = "sent"
  /\ worker' = [worker EXCEPT ![t].st = "closing", ![t].own = 0]
  /\ opDone' = [opDone EXCEPT ![Dir(worker[t].c)] = "none"]
  /\ UNCHANGED <<opVars, job, streamVars, canceled, req, thread, hold>>

(* Mutant: nobody closes the channel.                                        *)
ExitUnclosed(t) ==
  /\ worker[t].st = "closing"
  /\ UNCHANGED vars

(* ... and the channel is closed.                                            *)
Exit(t) ==
  /\ worker[t].st = "closing"
  /\ worker' = [worker EXCEPT ![t] = Gone]
  /\ UNCHANGED <<opVars, job, streamVars, canceled, req, opDone, thread, hold>>

Serve(c) ==
  /\ Kernel(c)
  /\ UNCHANGED <<canceled, pipeVars>>

-----------------------------------------------------------------------------
(* CancelReads, CancelWrites: after the store, h and done under the mutex.   *)
Found(d) == thread[d] # 0 /\ opDone[d] # "none"

Note(p, d) ==
  hold' = [hold EXCEPT ![p] = [h |-> thread[d], done |-> opDone[d]]]

CancelFlag(x, d) ==
  /\ CancelStore(x, d, <<Step("lookup", d)>>)
  /\ UNCHANGED <<req, pipeVars>>

CancelLookup(x, d) ==
  /\ At(x, "lookup", d)
  /\ IF Found(d)
     THEN Note(x, d) /\ job' = [job EXCEPT ![x] = <<Step("loop", d)>> \o Tail(@)]
     ELSE Advance(x) /\ UNCHANGED hold
  /\ GiveCause(d)
  /\ UNCHANGED <<pc, ctx, watch, len, out, part, moved, streamVars, canceled, req,
                 workerVars>>

(* The loop: CancelSynchronousIo aborts the call of the thread the handle    *)
(* stands for, and a value that was closed may stand for another by now, ... *)
Interrupt(p) ==
  /\ hold[p] # NoHold /\ worker[hold[p].done] # Gone
  /\ \E t \in Threads :
       /\ worker[t].own = hold[p].h
       /\ worker[t].st = "io" /\ Pending(worker[t].c)
       /\ Aborted({worker[t].c})
       /\ cause' = [cause EXCEPT ![worker[t].c] =
                      @ \/ \E x \in Cancelers : p = x /\ At(x, "loop", Dir(worker[t].c))]
  /\ UNCHANGED <<pc, ctx, watch, len, out, part, moved, job, streamVars, canceled,
                 pipeVars>>

(* ... until the channel is closed.                                          *)
Released(p) ==
  /\ hold[p] # NoHold /\ worker[hold[p].done] = Gone
  /\ hold' = [hold EXCEPT ![p] = NoHold]

CancelLoop(x, d) ==
  /\ At(x, "loop", d)
  /\ Released(x)
  /\ Advance(x)
  /\ UNCHANGED <<opVars, streamVars, canceled, req, workerVars>>

ResetFlag(x, d) ==
  /\ ResetStore(x, d, <<>>)
  /\ UNCHANGED <<req, pipeVars>>

(* Close cancels and closes the file.                                        *)
Close == Cancel \o <<Step("object", "read")>>

CloseObject(x) ==
  /\ At(x, "object", "read")
  /\ CloseStream
  /\ Advance(x)
  /\ UNCHANGED <<opVars, canceled, req, pipeVars>>

(* The watcher's CancelReads.                                                *)
WatchLookup(c) ==
  /\ WatchGoesOn(c, "signaling", IF Found(Dir(c)) THEN "aborting" ELSE "off")
  /\ IF Found(Dir(c)) THEN Note(c, Dir(c)) ELSE UNCHANGED hold
  /\ UNCHANGED <<cause, streamVars, req, workerVars>>

(* Mutant: CancelSynchronousIo is not called again.                          *)
WatchLoopOnce(c) ==
  /\ WatchGoesOn(c, "aborting", "off")
  /\ hold' = [hold EXCEPT ![c] = NoHold]
  /\ UNCHANGED <<cause, streamVars, req, workerVars>>

WatchLoop(c) ==
  /\ WatchGoesOn(c, "aborting", "off")
  /\ Released(c)
  /\ UNCHANGED <<cause, streamVars, req, workerVars>>

-----------------------------------------------------------------------------
(* The four operations, the watcher and the explicit methods.                *)
Operate(c) ==
  \/ (Check(c) \/ ContextStore(c)) /\ UNCHANGED <<req, pipeVars>>
  \/ ContextUndo(c) /\ UNCHANGED <<req, pipeVars>>
  \/ Spawn(c)
  \/ Return(c) /\ UNCHANGED <<canceled, req, pipeVars>>

Run(t) ==
  \/ NoHandle(t) \/ Register(t) \/ Start(t) \/ Finish(t) \/ Send(t)
  \/ Unregister(t) \/ Exit(t)

Watch(c) ==
  \/ WatchStore(c) /\ UNCHANGED <<req, pipeVars>>
  \/ WatchLookup(c) \/ Interrupt(c) \/ WatchLoop(c)
  \/ WatchStop(c) /\ UNCHANGED <<canceled, req, pipeVars>>

Manage(x) ==
  \/ \E d \in Directions : \/ CancelFlag(x, d) \/ CancelLookup(x, d)
                           \/ CancelLoop(x, d) \/ ResetFlag(x, d)
  \/ Interrupt(x) \/ CloseObject(x)

System ==
  \/ \E c \in Callers : Operate(c) \/ Watch(c) \/ Serve(c)
  \/ \E t \in Threads : Run(t)
  \/ \E x \in Cancelers : Manage(x)

Environment ==
  \/ \E c \in Callers : \/ BeginOperation(c)
                        \/ Expire(c) /\ UNCHANGED <<canceled, req, pipeVars>>
  \/ \E x \in Cancelers, s \in Methods \cup {Close} :
       StartMethod(x, s) /\ UNCHANGED <<canceled, req, pipeVars>>
  \/ Peer /\ UNCHANGED <<opVars, job, canceled, req, pipeVars>>

Next == System \/ Environment

Spec == Init /\ [][Next]_vars

(* Goroutines run; the kernel owes no bytes.                                 *)
Fairness ==
  /\ \A c \in Callers : WF_vars(Operate(c)) /\ WF_vars(Watch(c))
  /\ \A t \in Threads : WF_vars(Run(t))
  /\ \A x \in Cancelers : WF_vars(Manage(x))

FairSpec == Spec /\ Fairness

-----------------------------------------------------------------------------
TypeOK ==
  /\ OperationTypeOK /\ StreamTypeOK /\ RequestTypeOK
  /\ JobTypeOK({"cancel", "lookup", "loop", "reset", "object"})
  /\ canceled \in [Directions -> BOOLEAN]
  /\ worker \in [Threads -> [st : {"gone", "start", "ready", "io", "send", "sent",
                                   "closing"},
                             c : Callers \cup {"nobody"}, own : Handles \cup {0}]]
  /\ opDone \in [Directions -> Threads \cup {"none"}]
  /\ thread \in [Directions -> Handles \cup {0}]
  /\ hold \in [Callers \cup Cancelers ->
                 [h : Handles \cup {0}, done : Threads \cup {"none"}]]

=============================================================================
