-------------------------- MODULE MCWinPipeIOProofs --------------------------
(***************************************************************************)
(* Proofs about WinPipeIO, for any number of goroutines, workers, thread   *)
(* handles and buffers of any size: the types, and that the backend of an  *)
(* anonymous pipe implements ContextIO.  The latter is for one direction:  *)
(* an anonymous pipe has no other, and with two of them a thread handle    *)
(* whose value is used again for a worker of the other direction would be  *)
(* canceled for no reason.                                                 *)
(***************************************************************************)
EXTENDS MCWinPipeIO, SequenceTheorems, TLAPS

(* At most one caller for each direction.                                    *)
OneEach == \A c, e \in Callers : Dir(c) = Dir(e) => c = e

Places == {"idle", "check", "reset", "drain", "enter", "wait", "woken", "io",
           "late", "join"}

ErrorNames == {"nil", "canceled", "eof", "error"}

Results == [err : ErrorNames, n : Nat]

Ops == {"cancel", "lookup", "loop", "reset", "object"}

StepsOf == [op : Ops, dir : Directions]

LEMMA CallersHaveDirections == \A c \in Callers : Dir(c) \in Directions
BY DEF Dir, Directions

-----------------------------------------------------------------------------
(* The types, but for the jobs.                                              *)
Workers == [st : {"gone", "start", "ready", "io", "send", "sent", "closing"},
            c : Callers \cup {"nobody"}, own : Handles \cup {0}]

Holds == [h : Handles \cup {0}, done : Threads \cup {"none"}]

Requests == [st  : {"none", "pending", "done"},
             err : {"nil", "error", "aborted"}, n : 0..MaxLen]

Types ==
  /\ OperationTypeOK /\ StreamTypeOK
  /\ req \in [Callers -> Requests]
  /\ canceled \in [Directions -> BOOLEAN]
  /\ worker \in [Threads -> Workers]
  /\ opDone \in [Directions -> Threads \cup {"none"}]
  /\ thread \in [Directions -> Handles \cup {0}]
  /\ hold \in [Callers \cup Cancelers -> Holds]

Jobs == job \in [Cancelers -> Seq(StepsOf)]

(* A worker whose operation waits for it.                                    *)
Working(t) == worker[t].st \in {"start", "ready", "io", "send"}

(* A worker belongs to a caller, which waits for it until it has sent the    *)
(* result, and for no other.                                                 *)
WorkerInv ==
  /\ \A t \in Threads :
       /\ worker[t].st = "gone" => worker[t] = Gone
       /\ worker[t].st # "gone" => worker[t].c \in Callers
       /\ Working(t) => pc[worker[t].c] = "wait"
       /\ worker[t].st = "send" => Ended(worker[t].c)
  /\ \A t, u \in Threads :
       Working(t) /\ Working(u) /\ worker[t].c = worker[u].c => t = u

(* A request exists from the call of the kernel until its result is sent.    *)
RequestInv ==
  \A c \in Callers : req[c].st # "none" =>
    /\ pc[c] = "wait"
    /\ \E t \in Threads : worker[t].st \in {"io", "send"} /\ worker[t].c = c

(* The bytes of an operation are those of its request.                       *)
Busy(c) == pc[c] \notin {"idle", "join"}

Account ==
  \A c \in Callers : Busy(c) =>
    /\ part[c] <= len[c]
    /\ req[c].st = "none" => moved[c] = 0 /\ part[c] = 0
    /\ Pending(c) => moved[c] = part[c] /\ (c \in Readers => part[c] = 0)
    /\ Ended(c) => IF req[c].err = "aborted" THEN c \in Readers => moved[c] = 0
                                             ELSE req[c].n = moved[c]

PipeTypes == Types /\ Jobs /\ WorkerInv /\ RequestInv /\ Account

-----------------------------------------------------------------------------
LEMMA SettledTyped ==
  ASSUME OperationTypeOK, NEW c \in Callers, NEW e \in ErrorNames, NEW k \in Nat,
         Settled(c, e, k)
  PROVE  pc' \in [Callers -> Places] /\ out' \in [Callers -> Results]
<1>1. [err |-> e, n |-> k] \in Results
  BY DEF Results
<1> QED BY <1>1 DEF OperationTypeOK, Settled, Results, Places, ErrorNames

LEMMA TypesInit == Init => Types
BY StreamAssumption, OperationAssumption DEF Init, OperationInit, StreamInit,
     FlagInit, RequestInit, Types, OperationTypeOK, StreamTypeOK, Requests,
     Workers, Holds, Gone, NoHold, NoResult, NoRequest

LEMMA OperateTyped ==
  ASSUME Types, NEW c \in Callers, Operate(c)
  PROVE  Types'
<1> USE DEF Types, OperationTypeOK, StreamTypeOK, streamVars, pipeVars,
            workerVars
<1>1. CASE Check(c) /\ UNCHANGED <<req, pipeVars>>
  <2>1. CASE Settled(c, "canceled", 0) /\ UNCHANGED watch
    <3>1. pc' \in [Callers -> Places] /\ out' \in [Callers -> Results]
      BY <2>1, SettledTyped DEF ErrorNames
    <3>2. UNCHANGED <<job, ctx, len, part, cause, moved, streamVars, canceled>>
      BY <1>1 DEF Check
    <3> QED BY <1>1, <2>1, <3>1, <3>2 DEF Places, Results, ErrorNames
  <2>2. CASE pc' = [pc EXCEPT ![c] = "reset"] /\ UNCHANGED <<watch, out>>
    BY <1>1, <2>2 DEF Check
  <2>3. CASE Proceed(c) /\ UNCHANGED out
    BY <1>1, <2>3 DEF Check, Proceed
  <2> QED BY <1>1, <2>1, <2>2, <2>3 DEF Check
<1>2. CASE ContextStore(c) /\ UNCHANGED <<req, pipeVars>>
  BY <1>2 DEF ContextStore
<1>3. CASE ContextUndo(c) /\ UNCHANGED <<req, pipeVars>>
  BY <1>3 DEF ContextUndo, Proceed
<1>4. CASE Spawn(c)
  <2>1. PICK t \in Threads :
          /\ opDone' = [opDone EXCEPT ![Dir(c)] = t]
          /\ worker' = [worker EXCEPT ![t] = [Gone EXCEPT !.st = "start", !.c = c]]
    BY <1>4 DEF Spawn
  <2>2. [Gone EXCEPT !.st = "start", !.c = c] \in Workers
    BY DEF Gone, Workers
  <2>3. /\ worker' \in [Threads -> Workers]
        /\ opDone' \in [Directions -> Threads \cup {"none"}]
    BY <2>1, <2>2
  <2>4. /\ pc' = [pc EXCEPT ![c] = "wait"]
        /\ UNCHANGED <<ctx, watch, len, out, part, cause, moved, streamVars, canceled,
                       req, thread, hold>>
    BY <1>4 DEF Spawn
  <2> QED BY <2>3, <2>4
<1>5. CASE Return(c) /\ UNCHANGED <<canceled, req, pipeVars>>
  BY <1>5 DEF Return
<1> QED BY <1>1, <1>2, <1>3, <1>4, <1>5 DEF Operate

LEMMA NoRequestTyped ==
  /\ NoRequest \in Requests /\ [NoRequest EXCEPT !.st = "pending"] \in Requests
  /\ Done("error", 0) \in Requests
BY OperationAssumption DEF NoRequest, Requests, Done

(* The record of a worker that has moved on.                                 *)
LEMMA WorkerTyped ==
  ASSUME worker \in [Threads -> Workers], NEW t \in Threads,
         NEW s \in {"ready", "io", "send", "sent", "closing"}
  PROVE  /\ [worker EXCEPT ![t].st = s] \in [Threads -> Workers]
         /\ \A o \in Handles \cup {0} :
              [worker EXCEPT ![t].st = s, ![t].own = o] \in [Threads -> Workers]
BY DEF Workers

LEMMA RunTyped ==
  ASSUME Types, WorkerInv, NEW t \in Threads, Run(t)
  PROVE  Types'
<1> USE OperationAssumption
        DEF Types, OperationTypeOK, StreamTypeOK, opVars, streamVars
<1>1. CASE NoHandle(t)
  BY <1>1, WorkerTyped DEF NoHandle, Goes
<1>2. CASE Register(t)
  <2>1. PICK h \in Handles :
          /\ worker' = [worker EXCEPT ![t].st = "ready", ![t].own = h]
          /\ thread' = [thread EXCEPT ![Dir(worker[t].c)] = h]
    BY <1>2 DEF Register, FreeValues
  <2>2. /\ worker' \in [Threads -> Workers]
        /\ thread' \in [Directions -> Handles \cup {0}]
    BY <2>1, WorkerTyped
  <2>3. UNCHANGED <<opVars, streamVars, canceled, req, opDone, hold>>
    BY <1>2 DEF Register
  <2> QED BY <2>2, <2>3
<1>3. CASE Start(t)
  <2>1. req' \in [Callers -> Requests]
    BY <1>3, NoRequestTyped DEF Start, Issued, Done, Requests
  <2> QED BY <1>3, <2>1, WorkerTyped DEF Start, Goes
<1>4. CASE Finish(t)
  BY <1>4, WorkerTyped DEF Finish, Goes
<1>5. CASE Send(t)
  <2>1. worker[t].c \in Callers
    BY <1>5 DEF Send, Goes, WorkerInv
  <2>2. pc' \in [Callers -> Places] /\ out' \in [Callers -> Results]
    <3>1. CASE req[worker[t].c].err = "aborted"
      BY <1>5, <2>1, <3>1, SettledTyped DEF Send, SettledAs, ErrorNames
    <3>2. CASE req[worker[t].c].err # "aborted"
      <4>1. req[worker[t].c].err \in ErrorNames /\ req[worker[t].c].n \in Nat
        BY <2>1, <3>2 DEF Requests, ErrorNames
      <4> QED BY <1>5, <2>1, <3>2, <4>1, SettledTyped DEF Send, SettledAs
    <3> QED BY <3>1, <3>2
  <2>3. req' \in [Callers -> Requests]
    BY <1>5, NoRequestTyped DEF Send, Taken
  <2> QED BY <1>5, <2>2, <2>3, WorkerTyped DEF Send, Goes, Places, Results,
         ErrorNames
<1>6. CASE Unregister(t)
  BY <1>6, WorkerTyped DEF Unregister
<1>7. CASE Exit(t)
  BY <1>7 DEF Exit, Gone, Workers
<1> QED BY <1>1, <1>2, <1>3, <1>4, <1>5, <1>6, <1>7 DEF Run

(* What a cancel notes, and forgets.                                         *)
LEMMA HoldTyped ==
  ASSUME Types, NEW p \in Callers \cup Cancelers,
         \/ \E d \in Directions : Note(p, d)
         \/ hold' = [hold EXCEPT ![p] = NoHold]
         \/ UNCHANGED hold
  PROVE  hold' \in [Callers \cup Cancelers -> Holds]
BY DEF Types, Note, Holds, NoHold

LEMMA InterruptTyped ==
  ASSUME Types, NEW p, Interrupt(p)
  PROVE  Types'
<1>1. PICK t \in Threads :
        /\ Aborted({worker[t].c})
        /\ cause' = [cause EXCEPT ![worker[t].c] =
             @ \/ \E x \in Cancelers : p = x /\ At(x, "loop", Dir(worker[t].c))]
  BY DEF Interrupt
<1>2. req' \in [Callers -> Requests]
  BY <1>1, OperationAssumption DEF Aborted, Done, Types, Requests
<1>3. cause' \in [Callers -> BOOLEAN]
  BY <1>1 DEF Types, OperationTypeOK
<1> QED BY <1>2, <1>3
        DEF Interrupt, Types, OperationTypeOK, StreamTypeOK, streamVars,
            pipeVars, workerVars

LEMMA WatchTyped ==
  ASSUME Types, NEW c \in Callers, Watch(c)
  PROVE  Types'
<1> USE CallersHaveDirections
        DEF Types, OperationTypeOK, StreamTypeOK, streamVars, pipeVars,
            workerVars
<1>1. CASE WatchStore(c) /\ UNCHANGED <<req, pipeVars>>
  BY <1>1 DEF WatchStore
<1>2. CASE WatchLookup(c)
  BY <1>2, HoldTyped DEF WatchLookup, WatchGoesOn
<1>3. CASE WatchLoop(c)
  BY <1>3, HoldTyped DEF WatchLoop, WatchGoesOn, Released
<1>4. CASE WatchStop(c) /\ UNCHANGED <<canceled, req, pipeVars>>
  BY <1>4 DEF WatchStop
<1> QED BY <1>1, <1>2, <1>3, <1>4, InterruptTyped DEF Watch

LEMMA ManageTyped ==
  ASSUME Types, NEW x \in Cancelers, Manage(x)
  PROVE  Types'
<1> USE DEF Types, OperationTypeOK, StreamTypeOK, opVars, streamVars,
            pipeVars, workerVars
<1>1. ASSUME NEW d \in Directions, CancelFlag(x, d) PROVE Types'
  BY <1>1 DEF CancelFlag, CancelStore, GiveCause
<1>2. ASSUME NEW d \in Directions, CancelLookup(x, d) PROVE Types'
  <2>1. hold' \in [Callers \cup Cancelers -> Holds]
    BY <1>2, HoldTyped DEF CancelLookup
  <2> QED BY <1>2, <2>1 DEF CancelLookup, GiveCause
<1>3. ASSUME NEW d \in Directions, CancelLoop(x, d) PROVE Types'
  <2>1. hold' \in [Callers \cup Cancelers -> Holds]
    BY <1>3, HoldTyped DEF CancelLoop, Released
  <2> QED BY <1>3, <2>1 DEF CancelLoop
<1>4. ASSUME NEW d \in Directions, ResetFlag(x, d) PROVE Types'
  BY <1>4 DEF ResetFlag, ResetStore
<1>5. CASE CloseObject(x)
  BY <1>5 DEF CloseObject, CloseStream
<1> QED BY <1>1, <1>2, <1>3, <1>4, <1>5, InterruptTyped DEF Manage

(* What the kernel does to the request of a caller.                          *)
LEMMA ServeTyped ==
  ASSUME Types, RequestInv, Account, NEW c \in Callers, Serve(c)
  PROVE  Types'
<1> USE StreamAssumption, OperationAssumption
        DEF Types, OperationTypeOK, StreamTypeOK, pipeVars, workerVars
<1>1. ASSUME NEW k \in 0..MaxLen, NEW e \in {"nil", "error"}
      PROVE  [req EXCEPT ![c] = Done(e, k)] \in [Callers -> Requests]
  BY DEF Done, Requests
<1>2. part[c] <= len[c] /\ len[c] \in 0..MaxLen /\ part[c] \in Nat
  BY DEF Serve, Kernel, Fill, Flush, Break, Pending, RequestInv, Account, Busy
<1>3. CASE Fill(c)
  <2>1. PICK k \in 1..Least(len[c], avail) :
          /\ avail' = avail - k
          /\ moved' = [moved EXCEPT ![c] = k]
          /\ req' = [req EXCEPT ![c] = Done("nil", k)]
    BY <1>3 DEF Fill
  <2>2. k \in 0..MaxLen /\ avail - k \in 0..BufSize
    BY <1>2 DEF Least
  <2>3. req' \in [Callers -> Requests]
    BY <1>1, <2>1, <2>2
  <2>4. UNCHANGED <<pc, ctx, watch, len, out, part, cause, space, peer, rwOpen,
                    canceled, worker, opDone, thread, hold>>
    BY <1>3 DEF Fill, Serve
  <2> QED BY <2>1, <2>2, <2>3, <2>4
<1>4. CASE Flush(c)
  <2>1. PICK k \in 0..Least(len[c] - part[c], space) :
          /\ space' = space - k
          /\ part'  = [part EXCEPT ![c] = @ + k]
          /\ moved' = [moved EXCEPT ![c] = @ + k]
          /\ req' = IF part[c] + k = len[c]
                    THEN [req EXCEPT ![c] = Done("nil", len[c])] ELSE req
    BY <1>4 DEF Flush
  <2>2. k \in Nat /\ space - k \in 0..BufSize
    BY <1>2 DEF Least
  <2>3. req' \in [Callers -> Requests]
    BY <1>1, <1>2, <2>1
  <2>4. UNCHANGED <<pc, ctx, watch, len, out, cause, avail, peer, rwOpen,
                    canceled, worker, opDone, thread, hold>>
    BY <1>4 DEF Flush, Serve
  <2> QED BY <2>1, <2>2, <2>3, <2>4
<1>5. CASE Break(c)
  <2>1. req' \in [Callers -> Requests]
    BY <1>1, <1>2, <1>5 DEF Break
  <2> QED BY <1>5, <2>1 DEF Break, opVars, streamVars, Serve
<1> QED BY <1>3, <1>4, <1>5 DEF Serve, Kernel

LEMMA EnvironmentTyped ==
  ASSUME Types, Environment
  PROVE  Types'
<1> USE StreamAssumption, OperationAssumption
        DEF Types, OperationTypeOK, StreamTypeOK, opVars, streamVars, pipeVars,
             workerVars
<1>1. ASSUME NEW c \in Callers, BeginOperation(c) PROVE Types'
  BY <1>1 DEF BeginOperation, Begin, Lengths, NoResult
<1>2. ASSUME NEW c \in Callers, Expire(c) /\ UNCHANGED <<canceled, req, pipeVars>>
      PROVE  Types'
  BY <1>2 DEF Expire
<1>3. ASSUME NEW x \in Cancelers, NEW s,
             StartMethod(x, s) /\ UNCHANGED <<canceled, req, pipeVars>>
      PROVE  Types'
  BY <1>3 DEF StartMethod
<1>4. CASE Peer /\ UNCHANGED <<opVars, job, canceled, req, pipeVars>>
  BY <1>4 DEF Peer, Arrive, Leave, HangUp
<1> QED BY <1>1, <1>2, <1>3, <1>4 DEF Environment

LEMMA TypesStep ==
  ASSUME Types, WorkerInv, RequestInv, Account, [Next]_vars
  PROVE  Types'
<1>1. CASE UNCHANGED vars
  BY <1>1 DEF vars, Types, OperationTypeOK, StreamTypeOK, opVars, streamVars,
       pipeVars, workerVars
<1> QED BY <1>1, OperateTyped, RunTyped, WatchTyped, ManageTyped, ServeTyped,
           EnvironmentTyped
        DEF Next, System

-----------------------------------------------------------------------------
(* The jobs: a method is a sequence of steps, and a step of one replaces its *)
(* first by at most one other.                                               *)
LEMMA StepsTyped == \A o \in Ops : \A d \in Directions : <<Step(o, d)>> \in Seq(StepsOf)
BY DEF Step, StepsOf

LEMMA MethodsTyped == \A s \in Methods \cup {Close} : s \in Seq(StepsOf)
<1>1. "read" \in Directions /\ "write" \in Directions
  BY DEF Directions
<1>2. /\ CancelReads \in Seq(StepsOf) /\ CancelWrites \in Seq(StepsOf)
      /\ ResetReader \in Seq(StepsOf) /\ ResetWriter \in Seq(StepsOf)
      /\ <<Step("object", "read")>> \in Seq(StepsOf)
  BY <1>1, StepsTyped DEF CancelReads, CancelWrites, ResetReader, ResetWriter,
       Ops
<1>3. Cancel \in Seq(StepsOf) /\ Reset \in Seq(StepsOf)
  BY <1>2, ConcatProperties DEF Cancel, Reset
<1>4. Close \in Seq(StepsOf)
  BY <1>2, <1>3, ConcatProperties DEF Close
<1> QED BY <1>2, <1>3, <1>4 DEF Methods

LEMMA JobsTyped ==
  ASSUME Jobs
  PROVE  JobTypeOK(Ops)
<1> SUFFICES ASSUME NEW x \in Cancelers, NEW i \in DOMAIN job[x]
             PROVE  job[x][i] \in StepsOf
  BY DEF JobTypeOK, StepsOf
<1>1. job[x] \in Seq(StepsOf)
  BY DEF Jobs
<1> QED BY <1>1, LenProperties, ElementOfSeq

LEMMA JobsGoOn ==
  ASSUME Jobs, NEW x \in Cancelers, job[x] # <<>>,
         NEW r \in Seq(StepsOf),
         \/ job' = [job EXCEPT ![x] = r \o Tail(@)]
         \/ job' = [job EXCEPT ![x] = Tail(@)]
  PROVE  Jobs'
<1>1. Tail(job[x]) \in Seq(StepsOf)
  BY HeadTailProperties DEF Jobs
<1>2. r \o Tail(job[x]) \in Seq(StepsOf)
  BY <1>1, ConcatProperties
<1> QED BY <1>1, <1>2 DEF Jobs

(* Only the steps of cancelers, and calls of methods, change jobs.           *)
LEMMA JobsStay ==
  ASSUME [Next]_vars
  PROVE  \/ UNCHANGED job
         \/ \E x \in Cancelers : Manage(x) /\ ~ Interrupt(x)
         \/ \E x \in Cancelers, s \in Methods \cup {Close} : StartMethod(x, s)
<1>1. ASSUME NEW c \in Callers, Operate(c) PROVE UNCHANGED job
  BY <1>1 DEF Operate, Check, ContextStore, ContextUndo, Spawn, Return
<1>2. ASSUME NEW c \in Callers, Watch(c) PROVE UNCHANGED job
  BY <1>2 DEF Watch, WatchStore, WatchLookup, Interrupt, WatchLoop, WatchStop,
              WatchGoesOn
<1>3. ASSUME NEW c \in Callers, Serve(c) PROVE UNCHANGED job
  BY <1>3 DEF Serve, Kernel, Fill, Flush, Break
<1>4. ASSUME NEW t \in Threads, Run(t) PROVE UNCHANGED job
  BY <1>4 DEF Run, NoHandle, Register, Start, Finish, Send, Unregister, Exit
<1>5. ASSUME NEW x \in Cancelers, Interrupt(x) PROVE UNCHANGED job
  BY <1>5 DEF Interrupt
<1>6. ASSUME NEW c \in Callers, BeginOperation(c) \/ Expire(c) PROVE UNCHANGED job
  BY <1>6 DEF BeginOperation, Begin, Expire
<1> QED BY <1>1, <1>2, <1>3, <1>4, <1>5, <1>6
        DEF Next, System, Environment, vars

LEMMA JobsStep ==
  ASSUME Jobs, [Next]_vars
  PROVE  Jobs'
<1>1. CASE UNCHANGED job
  BY <1>1 DEF Jobs
<1>2. ASSUME NEW x \in Cancelers, Manage(x), ~ Interrupt(x) PROVE Jobs'
  <2>1. <<>> \in Seq(StepsOf)
    OBVIOUS
  <2>2. ASSUME NEW d \in Directions, CancelFlag(x, d) PROVE Jobs'
    BY <2>2, JobsGoOn, StepsTyped DEF CancelFlag, CancelStore, At, Ops
  <2>3. ASSUME NEW d \in Directions, CancelLookup(x, d) PROVE Jobs'
    <3>1. job[x] # <<>> /\ <<Step("loop", d)>> \in Seq(StepsOf)
      BY <2>3, StepsTyped DEF CancelLookup, At, Ops
    <3>2. \/ job' = [job EXCEPT ![x] = <<Step("loop", d)>> \o Tail(@)]
          \/ job' = [job EXCEPT ![x] = Tail(@)]
      BY <2>3 DEF CancelLookup, Advance
    <3> QED BY <3>1, <3>2, JobsGoOn
  <2>4. ASSUME NEW d \in Directions, CancelLoop(x, d) \/ CloseObject(x) PROVE Jobs'
    BY <2>1, <2>4, JobsGoOn DEF CancelLoop, CloseObject, Advance, At
  <2>5. ASSUME NEW d \in Directions, ResetFlag(x, d) PROVE Jobs'
    BY <2>1, <2>5, JobsGoOn DEF ResetFlag, ResetStore, At
  <2>6. "read" \in Directions
    BY DEF Directions
  <2> QED BY <1>2, <2>2, <2>3, <2>4, <2>5, <2>6 DEF Manage
<1>3. ASSUME NEW x \in Cancelers, NEW s \in Methods \cup {Close}, StartMethod(x, s)
      PROVE  Jobs'
  BY <1>3, MethodsTyped DEF StartMethod, Jobs
<1> QED BY <1>1, <1>2, <1>3, JobsStay

-----------------------------------------------------------------------------
(* Steps of everybody but the workers: who waits goes on waiting, and a      *)
(* request neither comes nor goes.                                           *)
Outside ==
  /\ UNCHANGED worker
  /\ \A c \in Callers :
       /\ pc[c] = "wait" => pc'[c] = "wait"
       /\ Ended(c) => req'[c] = req[c]
       /\ req'[c].st = "none" <=> req[c].st = "none"

LEMMA InterruptOutside ==
  ASSUME Types, NEW p, Interrupt(p)
  PROVE  Outside
<1>1. UNCHANGED <<worker, pc>> /\ \E t \in Threads : Aborted({worker[t].c})
  BY DEF Interrupt, pipeVars, workerVars
<1> QED BY <1>1 DEF Outside, Aborted, Done, Pending, Ended, Types

LEMMA OthersOutside ==
  ASSUME Types, [Next]_vars
  PROVE  \/ Outside
         \/ \E c \in Callers : Spawn(c)
         \/ \E t \in Threads : Run(t)
<1> USE DEF Types, OperationTypeOK, pipeVars, workerVars
<1>1. ASSUME NEW c \in Callers, Operate(c), ~ Spawn(c) PROVE Outside
  <2>1. UNCHANGED <<worker, req>>
    BY <1>1 DEF Operate
  <2>2. \A e \in Callers : pc[e] = "wait" => pc'[e] = "wait"
    BY <1>1 DEF Operate, Check, Settled, Proceed, ContextStore, ContextUndo,
         Return
  <2> QED BY <2>1, <2>2 DEF Outside
<1>2. ASSUME UNCHANGED <<pc, worker, req>> PROVE Outside
  BY <1>2 DEF Outside
<1>3. ASSUME NEW c \in Callers, Watch(c), ~ Interrupt(c) PROVE Outside
  BY <1>2, <1>3 DEF Watch, WatchStore, WatchLookup, WatchLoop, WatchStop,
       WatchGoesOn
<1>4. ASSUME NEW x \in Cancelers, Manage(x), ~ Interrupt(x) PROVE Outside
  BY <1>2, <1>4 DEF Manage, CancelFlag, CancelStore, CancelLookup, CancelLoop,
       ResetFlag, ResetStore, CloseObject, opVars
<1>5. ASSUME NEW c \in Callers, Serve(c) PROVE Outside
  <2>1. UNCHANGED <<pc, worker>>
    BY <1>5 DEF Serve, Kernel, Fill, Flush, Break, opVars
  <2>2. /\ Pending(c)
        /\ \/ \E e, k : req' = [req EXCEPT ![c] = Done(e, k)]
           \/ UNCHANGED req
    BY <1>5 DEF Serve, Kernel, Fill, Flush, Break
  <2> QED BY <2>1, <2>2 DEF Outside, Pending, Ended, Done
<1>6. ASSUME NEW c \in Callers, BeginOperation(c) PROVE Outside
  BY <1>6 DEF BeginOperation, Begin, Outside
<1>7. ASSUME NEW c \in Callers, Expire(c) /\ UNCHANGED <<canceled, req, pipeVars>>
      PROVE  Outside
  BY <1>2, <1>7 DEF Expire
<1>8. ASSUME NEW x \in Cancelers, NEW s,
             StartMethod(x, s) /\ UNCHANGED <<canceled, req, pipeVars>>
      PROVE  Outside
  BY <1>2, <1>8 DEF StartMethod, opVars
<1>9. CASE Peer /\ UNCHANGED <<opVars, job, canceled, req, pipeVars>>
  BY <1>2, <1>9 DEF opVars
<1>10. CASE UNCHANGED vars
  BY <1>2, <1>10 DEF vars, opVars
<1> QED BY <1>1, <1>3, <1>4, <1>5, <1>6, <1>7, <1>8, <1>9, <1>10,
       InterruptOutside DEF Next, System, Environment

LEMMA OutsideKeeps ==
  ASSUME WorkerInv, RequestInv, Outside
  PROVE  WorkerInv' /\ RequestInv'
<1>1. WorkerInv'
  BY DEF WorkerInv, Outside, Working, Ended
<1>2. RequestInv'
  BY DEF RequestInv, Outside
<1> QED BY <1>1, <1>2

LEMMA SpawnKeeps ==
  ASSUME Types, WorkerInv, RequestInv, NEW c \in Callers, Spawn(c)
  PROVE  WorkerInv' /\ RequestInv'
<1>1. PICK t \in Threads :
        /\ worker[t] = Gone
        /\ worker' = [worker EXCEPT ![t] = [Gone EXCEPT !.st = "start", !.c = c]]
  BY DEF Spawn, Fresh
<1>2. pc[c] = "enter" /\ pc' = [pc EXCEPT ![c] = "wait"] /\ UNCHANGED req
  BY DEF Spawn
<1>3. /\ worker[t].st = "gone"
      /\ worker'[t].st = "start" /\ worker'[t].c = c
      /\ \A u \in Threads \ {t} : worker'[u] = worker[u]
  BY <1>1 DEF Gone, Types
<1>4. /\ pc'[c] = "wait" /\ \A e \in Callers \ {c} : pc'[e] = pc[e]
      /\ \A e \in Callers : pc[e] = "wait" => pc'[e] = "wait"
  BY <1>2 DEF Types, OperationTypeOK
<1>5. \A u \in Threads : Working(u) => worker[u].c # c
  BY <1>2 DEF WorkerInv
<1>6. WorkerInv'
  BY <1>2, <1>3, <1>4, <1>5 DEF WorkerInv, Working, Ended
<1>7. RequestInv'
  BY <1>2, <1>3, <1>4 DEF RequestInv
<1> QED BY <1>6, <1>7

(* A worker that moves on to st, and leaves those of other callers alone.    *)
LEMMA RunKeeps ==
  ASSUME Types, WorkerInv, RequestInv, NEW t \in Threads, Run(t)
  PROVE  WorkerInv' /\ RequestInv'
<1> DEFINE c == worker[t].c
<1>1. /\ worker[t].st # "gone" /\ c \in Callers
      /\ \A u \in Threads \ {t} : worker'[u] = worker[u]
  <2>1. worker[t].st # "gone"
    BY DEF Run, NoHandle, Register, Start, Finish, Send, Unregister, Exit, Goes
  <2>2. c \in Callers
    BY <2>1 DEF WorkerInv
  <2>3. worker \in [Threads -> Workers]
    BY DEF Types
  <2>4. \A u \in Threads \ {t} : worker'[u] = worker[u]
    BY <2>3 DEF Run, NoHandle, Register, Start, Finish, Send, Unregister, Exit,
         Goes
  <2> QED BY <2>1, <2>2, <2>4
<1>2. CASE NoHandle(t) \/ Register(t) \/ Finish(t)
  <2>1. /\ worker'[t].c = c /\ UNCHANGED <<pc, req>>
        /\ \/ worker[t].st = "start" /\ worker'[t].st = "ready"
           \/ worker[t].st = "io" /\ worker'[t].st = "send" /\ Ended(c)
    BY <1>2 DEF NoHandle, Register, Finish, Goes, opVars, Types, Workers
  <2>2. WorkerInv'
    BY <1>1, <2>1 DEF WorkerInv, Working, Ended
  <2>3. RequestInv'
    BY <1>1, <2>1 DEF RequestInv
  <2> QED BY <2>2, <2>3
<1>3. CASE Start(t)
  <2>1. /\ worker[t].st = "ready" /\ worker'[t].st = "io" /\ worker'[t].c = c
        /\ UNCHANGED pc
        /\ \A e \in Callers \ {c} : req'[e] = req[e]
    BY <1>3 DEF Start, Goes, Issued, opVars, Types, Workers
  <2>2. pc[c] = "wait" /\ \A u \in Threads \ {t} : Working(u) => worker[u].c # c
    BY <1>1, <2>1 DEF WorkerInv, Working
  <2>3. WorkerInv'
    BY <1>1, <2>1, <2>2 DEF WorkerInv, Working, Ended
  <2>4. RequestInv'
    BY <1>1, <2>1, <2>2 DEF RequestInv
  <2> QED BY <2>3, <2>4
<1>4. CASE Send(t)
  <2>1. /\ worker[t].st = "send" /\ worker'[t].st = "sent" /\ worker'[t].c = c
        /\ req' = [req EXCEPT ![c] = NoRequest]
        /\ pc' = [pc EXCEPT ![c] = "join"]
    BY <1>4 DEF Send, Goes, Taken, SettledAs, Settled, Types, Workers
  <2>2. \A u \in Threads \ {t} : Working(u) => worker[u].c # c
    BY <1>1, <2>1 DEF WorkerInv, Working
  <2>3. /\ \A e \in Callers \ {c} : pc'[e] = pc[e] /\ req'[e] = req[e]
        /\ req'[c].st = "none"
    BY <1>1, <2>1 DEF NoRequest, Types, OperationTypeOK
  <2>4. WorkerInv'
    BY <1>1, <2>1, <2>2, <2>3 DEF WorkerInv, Working, Ended
  <2>5. RequestInv'
    BY <1>1, <2>1, <2>3 DEF RequestInv
  <2> QED BY <2>4, <2>5
<1>5. CASE Unregister(t)
  <2>1. /\ worker[t].st = "sent" /\ worker'[t].st = "closing" /\ worker'[t].c = c
        /\ UNCHANGED <<pc, req>>
    BY <1>5 DEF Unregister, opVars, Types, Workers
  <2>2. WorkerInv'
    BY <1>1, <2>1 DEF WorkerInv, Working, Ended
  <2>3. RequestInv'
    BY <1>1, <2>1 DEF RequestInv
  <2> QED BY <2>2, <2>3
<1>6. CASE Exit(t)
  <2>1. /\ worker[t].st = "closing" /\ worker'[t] = Gone /\ Gone.st = "gone"
        /\ UNCHANGED <<pc, req>>
    BY <1>6 DEF Exit, opVars, Types, Gone
  <2>2. WorkerInv'
    BY <1>1, <2>1 DEF WorkerInv, Working, Ended
  <2>3. RequestInv'
    BY <1>1, <2>1 DEF RequestInv
  <2> QED BY <2>2, <2>3
<1> QED BY <1>2, <1>3, <1>4, <1>5, <1>6 DEF Run

LEMMA WorkersStep ==
  ASSUME Types, WorkerInv, RequestInv, [Next]_vars
  PROVE  WorkerInv' /\ RequestInv'
BY OthersOutside, OutsideKeeps, SpawnKeeps, RunKeeps

-----------------------------------------------------------------------------
(* The account of an operation.                                              *)
AccountOf(c) ==
  /\ part[c] <= len[c]
  /\ req[c].st = "none" => moved[c] = 0 /\ part[c] = 0
  /\ Pending(c) => moved[c] = part[c] /\ (c \in Readers => part[c] = 0)
  /\ Ended(c) => IF req[c].err = "aborted" THEN c \in Readers => moved[c] = 0
                                           ELSE req[c].n = moved[c]

LEMMA AccountStays ==
  ASSUME Account, UNCHANGED <<part, len, moved, req>>,
         \A c \in Callers : Busy(c)' => Busy(c)
  PROVE  Account'
BY DEF Account, Pending, Ended

LEMMA AccountOfOne ==
  ASSUME Account, NEW c \in Callers, Busy(c)' => AccountOf(c)',
         \A e \in Callers \ {c} :
           /\ Busy(e)' => Busy(e)
           /\ part'[e] = part[e] /\ len'[e] = len[e]
           /\ moved'[e] = moved[e] /\ req'[e] = req[e]
  PROVE  Account'
BY DEF Account, AccountOf, Pending, Ended

LEMMA InterruptAccount ==
  ASSUME Types, Account, RequestInv, NEW p, Interrupt(p)
  PROVE  Account'
<1>1. PICK t \in Threads : Pending(worker[t].c) /\ Aborted({worker[t].c})
  BY DEF Interrupt
<1>2. UNCHANGED <<pc, part, len, moved>>
  BY DEF Interrupt
<1>3. ASSUME NEW e \in Callers, Busy(e)' PROVE AccountOf(e)'
  <2>1. Busy(e) /\ AccountOf(e)
    BY <1>2, <1>3 DEF Busy, Account, AccountOf
  <2>2. CASE req'[e] = req[e]
    BY <1>2, <2>1, <2>2 DEF AccountOf, Pending, Ended
  <2>3. CASE req'[e] # req[e]
    <3>1. Pending(e) /\ req'[e] = Done("aborted", 0)
      BY <1>1, <2>3 DEF Aborted
    <3>3. e \in Readers => moved[e] = 0
      BY <2>1, <3>1 DEF AccountOf
    <3> QED BY <1>2, <2>1, <3>1, <3>3 DEF AccountOf, Pending, Ended, Done
  <2> QED BY <2>2, <2>3
<1> QED BY <1>3 DEF Account, AccountOf

LEMMA StartAccount ==
  ASSUME Types, WorkerInv, RequestInv, Account, NEW t \in Threads, Start(t)
  PROVE  Account'
<1>c. PICK c \in Callers : c = worker[t].c
  BY DEF Start, Goes, WorkerInv
<1>1. worker[t].st = "ready" /\ Issued(c) /\ UNCHANGED <<pc, part, len, moved>>
  BY <1>c DEF Start, Goes, opVars
<1>2. pc[c] = "wait"
  BY <1>c, <1>1 DEF WorkerInv, Working
<1>3. req[c].st = "none"
  <2>1. SUFFICES ASSUME NEW u \in Threads, worker[u].st \in {"io", "send"},
                        worker[u].c = c
                 PROVE  FALSE
    BY <1>2 DEF RequestInv
  <2> QED BY <1>c, <1>1, <2>1 DEF WorkerInv, Working
<1>4. AccountOf(c) /\ moved[c] = 0 /\ part[c] = 0
  BY <1>2, <1>3 DEF Account, AccountOf, Busy
<1>5. \/ req'[c] = [NoRequest EXCEPT !.st = "pending"]
      \/ req'[c] = Done("error", 0)
  BY <1>1, <1>2 DEF Issued, Types
<1>6. AccountOf(c)'
  <2>1. CASE req'[c] = [NoRequest EXCEPT !.st = "pending"]
    BY <1>1, <1>4, <2>1 DEF AccountOf, Pending, Ended, NoRequest
  <2>2. CASE req'[c] = Done("error", 0)
    BY <1>1, <1>4, <2>2 DEF AccountOf, Pending, Ended, Done
  <2> QED BY <1>5, <2>1, <2>2
<1>7. \A e \in Callers \ {c} : req'[e] = req[e]
  BY <1>1 DEF Issued
<1> QED BY <1>1, <1>2, <1>6, <1>7, AccountOfOne DEF Busy

LEMMA ServeAccount ==
  ASSUME Types, RequestInv, Account, NEW c \in Callers, Serve(c)
  PROVE  Account'
<1> USE StreamAssumption, OperationAssumption
<1>1. /\ Pending(c) /\ pc[c] = "wait" /\ UNCHANGED <<pc, len>>
  BY DEF Serve, Kernel, Fill, Flush, Break, Pending, RequestInv, opVars
<1>2. AccountOf(c) /\ moved[c] = part[c] /\ (c \in Readers => part[c] = 0)
  BY <1>1 DEF Account, AccountOf, Busy
<1>t. /\ part \in [Callers -> Nat] /\ moved \in [Callers -> Nat]
      /\ len \in [Callers -> 0..MaxLen] /\ req \in [Callers -> Requests]
      /\ space \in 0..BufSize /\ avail \in 0..BufSize
  BY DEF Types, OperationTypeOK, StreamTypeOK
<1>3. CASE Fill(c)
  <2>1. PICK k \in 1..Least(len[c], avail) :
          moved' = [moved EXCEPT ![c] = k] /\ req' = [req EXCEPT ![c] = Done("nil", k)]
    BY <1>3 DEF Fill
  <2>2. UNCHANGED part
    BY <1>3 DEF Fill
  <2>3. AccountOf(c)'
    BY <1>1, <1>2, <1>t, <2>1, <2>2 DEF AccountOf, Pending, Ended, Done
  <2> QED BY <1>1, <1>t, <2>1, <2>2, <2>3, AccountOfOne DEF Busy
<1>4. CASE Flush(c)
  <2>1. PICK k \in 0..Least(len[c] - part[c], space) :
          /\ part'  = [part EXCEPT ![c] = @ + k]
          /\ moved' = [moved EXCEPT ![c] = @ + k]
          /\ req' = IF part[c] + k = len[c]
                    THEN [req EXCEPT ![c] = Done("nil", len[c])] ELSE req
    BY <1>4 DEF Flush
  <2>2. k \in Nat /\ part[c] + k <= len[c]
    BY <1>2, <1>t DEF Least, AccountOf
  <2>3. part'[c] = part[c] + k /\ moved'[c] = part[c] + k /\ part'[c] <= len[c]
    BY <1>2, <1>t, <2>1, <2>2
  <2>4. c \notin Readers
    BY <1>4 DEF Flush
  <2>5. AccountOf(c)'
    <3>1. CASE part[c] + k = len[c]
      <4>1. req'[c] = Done("nil", len[c])
        BY <1>t, <2>1, <3>1
      <4> QED BY <1>1, <2>3, <2>4, <3>1, <4>1 DEF AccountOf, Pending, Ended,
             Done
    <3>2. CASE part[c] + k # len[c]
      <4>1. req'[c] = req[c]
        BY <2>1, <3>2
      <4> QED BY <1>1, <2>3, <2>4, <4>1 DEF AccountOf, Pending, Ended
    <3> QED BY <3>1, <3>2
  <2>6. \A e \in Callers \ {c} : /\ part'[e] = part[e] /\ moved'[e] = moved[e]
                                /\ req'[e] = req[e]
    BY <1>t, <2>1
  <2> QED BY <1>1, <2>5, <2>6, AccountOfOne DEF Busy
<1>5. CASE Break(c)
  <2>1. req' = [req EXCEPT ![c] = Done("error", part[c])] /\ UNCHANGED <<part, moved>>
    BY <1>5 DEF Break, opVars
  <2>2. AccountOf(c)'
    BY <1>1, <1>2, <1>t, <2>1 DEF AccountOf, Pending, Ended, Done
  <2> QED BY <1>1, <1>t, <2>1, <2>2, AccountOfOne DEF Busy
<1> QED BY <1>3, <1>4, <1>5 DEF Serve, Kernel

LEMMA AccountStep ==
  ASSUME Types, WorkerInv, RequestInv, Account, [Next]_vars
  PROVE  Account'
<1> USE DEF pipeVars, workerVars
<1>t. pc \in [Callers -> Places] /\ len \in [Callers -> 0..MaxLen]
  BY DEF Types, OperationTypeOK, Places
<1>1. ASSUME UNCHANGED <<pc, part, len, moved, req>> PROVE Account'
  BY <1>1, AccountStays DEF Busy
<1>2. ASSUME NEW c \in Callers, Operate(c) PROVE Account'
  <2>1. UNCHANGED <<part, len, moved, req>>
    BY <1>2 DEF Operate, Check, ContextStore, ContextUndo, Spawn, Return
  <2>2. \A e \in Callers : Busy(e)' => Busy(e)
    BY <1>t, <1>2 DEF Operate, Check, Proceed, Settled, ContextStore,
         ContextUndo, Spawn, Return, Busy
  <2> QED BY <2>1, <2>2, AccountStays
<1>3. ASSUME NEW c \in Callers, Watch(c), ~ Interrupt(c) PROVE Account'
  BY <1>1, <1>3 DEF Watch, WatchStore, WatchLookup, WatchLoop, WatchStop,
       WatchGoesOn
<1>4. ASSUME NEW x \in Cancelers, Manage(x), ~ Interrupt(x) PROVE Account'
  BY <1>1, <1>4 DEF Manage, CancelFlag, CancelStore, CancelLookup, CancelLoop,
       ResetFlag, ResetStore, CloseObject, opVars
<1>5. ASSUME NEW t \in Threads, Run(t), ~ Start(t) PROVE Account'
  <2>1. CASE Send(t)
    <3>1. PICK c \in Callers : c = worker[t].c
      BY <2>1 DEF Send, Goes, WorkerInv
    <3>2. /\ pc' = [pc EXCEPT ![c] = "join"]
          /\ UNCHANGED <<part, len, moved>>
          /\ req' = [req EXCEPT ![c] = NoRequest]
      BY <2>1, <3>1 DEF Send, SettledAs, Settled, Taken
    <3>3. /\ pc'[c] = "join"
          /\ \A e \in Callers \ {c} : pc'[e] = pc[e] /\ req'[e] = req[e]
      BY <1>t, <3>1, <3>2 DEF Types
    <3> QED BY <3>2, <3>3, AccountOfOne DEF Busy
  <2>2. CASE ~ Send(t)
    BY <1>1, <1>5, <2>2 DEF Run, NoHandle, Register, Finish, Unregister, Exit,
         opVars
  <2> QED BY <2>1, <2>2
<1>6. ASSUME NEW c \in Callers, BeginOperation(c) PROVE Account'
  <2>1. PICK l \in Lengths(c) : len' = [len EXCEPT ![c] = l]
    BY <1>6 DEF BeginOperation, Begin
  <2>2. l \in Nat
    BY OperationAssumption DEF Lengths
  <2>3. /\ pc[c] = "idle" /\ pc' = [pc EXCEPT ![c] = "check"]
        /\ moved' = [moved EXCEPT ![c] = 0] /\ part' = [part EXCEPT ![c] = 0]
        /\ UNCHANGED req
    BY <1>6 DEF BeginOperation, Begin
  <2>4. req[c].st = "none"
    BY <2>3 DEF RequestInv
  <2>5. AccountOf(c)'
    BY <1>t, <2>1, <2>2, <2>3, <2>4
       DEF AccountOf, Types, OperationTypeOK, Pending, Ended
  <2>6. \A e \in Callers \ {c} :
          /\ pc'[e] = pc[e] /\ part'[e] = part[e] /\ len'[e] = len[e]
          /\ moved'[e] = moved[e]
    BY <1>t, <2>1, <2>3 DEF Types, OperationTypeOK
  <2> QED BY <2>3, <2>5, <2>6, AccountOfOne DEF Busy
<1>7. ASSUME NEW c \in Callers, Expire(c) /\ UNCHANGED <<canceled, req, pipeVars>>
      PROVE  Account'
  BY <1>1, <1>7 DEF Expire
<1>8. ASSUME NEW x \in Cancelers, NEW s,
             StartMethod(x, s) /\ UNCHANGED <<canceled, req, pipeVars>>
      PROVE  Account'
  BY <1>1, <1>8 DEF StartMethod, opVars
<1>9. CASE Peer /\ UNCHANGED <<opVars, job, canceled, req, pipeVars>>
  BY <1>1, <1>9 DEF opVars
<1>10. CASE UNCHANGED vars
  BY <1>1, <1>10 DEF vars, opVars
<1> QED BY <1>2, <1>3, <1>4, <1>5, <1>6, <1>7, <1>8, <1>9, <1>10,
       InterruptAccount, StartAccount, ServeAccount DEF Next, System,
       Environment

LEMMA TypesStart == Init => PipeTypes
<1> SUFFICES ASSUME Init PROVE PipeTypes
  OBVIOUS
<1>1. /\ worker = [t \in Threads |-> Gone] /\ OperationInit /\ RequestInit
  BY DEF Init
<1>2. WorkerInv
  BY <1>1 DEF WorkerInv, Working, Gone
<1>3. RequestInv /\ Account /\ Jobs
  BY <1>1 DEF OperationInit, RequestInit, RequestInv, Account, Busy, Jobs,
       NoRequest
<1> QED BY <1>2, <1>3, TypesInit DEF PipeTypes

LEMMA TypesKept == PipeTypes /\ [Next]_vars => PipeTypes'
BY TypesStep, JobsStep, WorkersStep, AccountStep DEF PipeTypes

(***************************************************************************)
(* Type correctness of the backend for anonymous pipes, in particular of   *)
(* the count of a request, which is at most the length of the buffer.      *)
(***************************************************************************)
THEOREM WinPipeTypeCorrect == Spec => []TypeOK
<1>1. PipeTypes => TypeOK
  BY JobsTyped DEF PipeTypes, Types, Requests, RequestTypeOK, Workers, Holds,
       Ops, TypeOK
<1> QED BY <1>1, TypesStart, TypesKept, PTL DEF Spec

-----------------------------------------------------------------------------
(* One direction is in use.                                                  *)
OneWay ==
  /\ use \in Directions
  /\ \A c \in Callers : Dir(c) # use => pc[c] = "idle"

OneWayNext ==
  /\ Next
  /\ \A c \in Callers : Dir(c) # use => pc'[c] = "idle"
  /\ use' = use

OneWaySpec == Init /\ use \in Directions /\ [][OneWayNext]_mcVars

(* Whatever a cancel finds belongs to that direction, and is kept no longer  *)
(* than the cancel lasts.                                                    *)
Held ==
  /\ \A c \in Callers : hold[c] # NoHold => watch[c] = "aborting"
  /\ \A x \in Cancelers : hold[x] # NoHold => At(x, "loop", use)

Attributed ==
  /\ \A t \in Threads : worker[t].st # "gone" => Dir(worker[t].c) = use
  /\ \A d \in Directions : thread[d] # 0 => d = use
  /\ Held

(* A watcher runs during its operation, and fires only for a context that is *)
(* done.                                                                     *)
WatchInv ==
  \A c \in Callers :
    /\ watch[c] # "off" => pc[c] \notin {"idle", "check", "reset", "drain"}
    /\ watch[c] \in {"fired", "signaling", "aborting"} => ctx[c] = "done"

(* Everything that can end an operation with ErrCanceled is a reason.        *)
CauseInv ==
  \A c \in Callers : pc[c] # "idle" =>
    /\ ctx[c] = "done" => cause[c]
    /\ canceled[Dir(c)] =>
         cause[c] \/ (ctx[c] = "live" /\ pc[c] \in {"check", "reset"})
    /\ Ended(c) /\ req[c].err = "aborted" => cause[c]

LEMMA WatchStep ==
  ASSUME Types, WorkerInv, WatchInv, [Next]_vars
  PROVE  WatchInv'
<1> USE DEF WatchInv, Types, OperationTypeOK
<1>1. ASSUME UNCHANGED <<pc, watch, ctx>> PROVE WatchInv'
  BY <1>1
<1>2. ASSUME NEW c \in Callers, Operate(c) PROVE WatchInv'
  BY <1>2 DEF Operate, Check, ContextStore, ContextUndo, Spawn, Return, Proceed,
       Settled
<1>3. ASSUME NEW p, Interrupt(p) PROVE WatchInv'
  BY <1>1, <1>3 DEF Interrupt
<1>4. ASSUME NEW c \in Callers, Watch(c), ~ Interrupt(c) PROVE WatchInv'
  BY <1>4 DEF Watch, WatchStore, WatchLookup, WatchLoop, WatchStop, WatchGoesOn
<1>5. ASSUME NEW x \in Cancelers, Manage(x), ~ Interrupt(x) PROVE WatchInv'
  BY <1>1, <1>5 DEF Manage, CancelFlag, CancelStore, CancelLookup, CancelLoop,
       ResetFlag, ResetStore, CloseObject, opVars
<1>6. ASSUME NEW t \in Threads, Run(t) PROVE WatchInv'
  <2>1. CASE Send(t)
    <3>1. PICK c \in Callers : c = worker[t].c
      BY <2>1 DEF Send, Goes, WorkerInv
    <3>2. pc' = [pc EXCEPT ![c] = "join"] /\ UNCHANGED <<ctx, watch>>
      BY <2>1, <3>1 DEF Send, SettledAs, Settled
    <3> QED BY <3>2
  <2>2. CASE ~ Send(t)
    BY <1>1, <1>6, <2>2
       DEF Run, NoHandle, Register, Start, Finish, Unregister, Exit, opVars
  <2> QED BY <2>1, <2>2
<1>7. ASSUME NEW c \in Callers, Serve(c) PROVE WatchInv'
  BY <1>1, <1>7 DEF Serve, Kernel, Fill, Flush, Break, opVars
<1>8. ASSUME NEW c \in Callers, BeginOperation(c) PROVE WatchInv'
  BY <1>8 DEF BeginOperation, Begin
<1>9. ASSUME NEW c \in Callers, Expire(c) PROVE WatchInv'
  BY <1>9 DEF Expire
<1>10. ASSUME NEW x \in Cancelers, NEW s, StartMethod(x, s) PROVE WatchInv'
  BY <1>1, <1>10 DEF StartMethod, opVars
<1>11. CASE UNCHANGED opVars \/ UNCHANGED vars
  BY <1>1, <1>11 DEF vars, opVars
<1> QED BY <1>2, <1>3, <1>4, <1>5, <1>6, <1>7, <1>8, <1>9, <1>10, <1>11
        DEF Next, System, Environment

LEMMA HeldStays ==
  ASSUME Held, use' = use, UNCHANGED hold,
         \A c \in Callers : watch[c] = "aborting" => watch'[c] = "aborting",
         \A x \in Cancelers : job'[x] = job[x] \/ hold[x] = NoHold
  PROVE  Held'
BY DEF Held, At

LEMMA HeldStep ==
  ASSUME Types, Jobs, WatchInv, Attributed, [Next]_vars, use' = use
  PROVE  Held'
<1> USE DEF pipeVars, workerVars
<1>h. Held
  BY DEF Attributed
<1>t. /\ hold \in [Callers \cup Cancelers -> Holds]
      /\ watch \in [Callers -> {"off", "armed", "fired", "signaling", "aborting"}]
      /\ job \in [Cancelers -> Seq(StepsOf)]
      /\ \A x \in Cancelers : x \notin Callers
  BY OperationAssumption DEF Types, OperationTypeOK, Jobs
<1>0. ASSUME UNCHANGED <<hold, watch, job>> PROVE Held'
  BY <1>0, <1>h, HeldStays
<1>1. ASSUME NEW c \in Callers, Operate(c) PROVE Held'
  <2>1. UNCHANGED <<hold, job>>
    BY <1>1 DEF Operate, Check, ContextStore, ContextUndo, Spawn, Return
  <2>2. UNCHANGED watch \/ (Proceed(c) /\ pc[c] \in {"check", "drain"})
    BY <1>1 DEF Operate, Check, ContextStore, ContextUndo, Spawn, Return
  <2>3. \A e \in Callers : watch[e] = "aborting" => watch'[e] = "aborting"
    BY <1>t, <2>2 DEF Proceed, WatchInv
  <2> QED BY <1>h, <2>1, <2>3, HeldStays
<1>2. ASSUME NEW p, Interrupt(p) PROVE Held'
  BY <1>0, <1>2 DEF Interrupt
<1>3. ASSUME NEW c \in Callers, Watch(c), ~ Interrupt(c) PROVE Held'
  <2>1. CASE WatchLookup(c)
    <3>1. /\ UNCHANGED job
          /\ \A x \in Cancelers : hold'[x] = hold[x]
          /\ \A e \in Callers \ {c} : hold'[e] = hold[e] /\ watch'[e] = watch[e]
      BY <1>t, <2>1 DEF WatchLookup, WatchGoesOn, Note
    <3>2. hold'[c] # NoHold => watch'[c] = "aborting"
      BY <1>h, <1>t, <2>1 DEF WatchLookup, WatchGoesOn, Note, Held
    <3> QED BY <1>h, <3>1, <3>2 DEF Held, At
  <2>2. CASE WatchLoop(c)
    <3>1. /\ UNCHANGED job
          /\ \A x \in Cancelers : hold'[x] = hold[x]
          /\ \A e \in Callers \ {c} : hold'[e] = hold[e] /\ watch'[e] = watch[e]
          /\ hold'[c] = NoHold
      BY <1>t, <2>2 DEF WatchLoop, WatchGoesOn, Released
    <3> QED BY <1>h, <3>1 DEF Held, At
  <2>3. CASE ~ WatchLookup(c) /\ ~ WatchLoop(c)
    <3>1. UNCHANGED <<hold, job>>
      BY <1>3, <2>3 DEF Watch, WatchStore, WatchStop
    <3>2. \A e \in Callers : watch[e] = "aborting" => watch'[e] = "aborting"
      BY <1>3, <1>t, <2>3 DEF Watch, WatchStore, WatchStop
    <3> QED BY <1>h, <3>1, <3>2, HeldStays
  <2> QED BY <2>1, <2>2, <2>3
<1>4. ASSUME NEW x \in Cancelers, Manage(x), ~ Interrupt(x) PROVE Held'
  <2>0. /\ UNCHANGED watch
        /\ \A y \in Cancelers \ {x} : job'[y] = job[y]
    BY <1>4, <1>t DEF Manage, CancelFlag, CancelStore, CancelLookup, CancelLoop,
         ResetFlag, ResetStore, CloseObject, Advance, opVars
  <2>1. ASSUME NEW d \in Directions, CancelLookup(x, d) PROVE Held'
    <3>1. CASE Found(d)
      <4>1. d = use
        BY <3>1 DEF Found, Attributed
      <4>2. job'[x] = <<Step("loop", d)>> \o Tail(job[x]) /\ job[x] # <<>>
        BY <1>t, <2>1, <3>1 DEF CancelLookup, At
      <4>3. Tail(job[x]) \in Seq(StepsOf) /\ <<Step("loop", d)>> \in Seq(StepsOf)
        BY <1>t, <4>2, HeadTailProperties, StepsTyped DEF Ops
      <4>4. job'[x] # <<>> /\ Head(job'[x]) = Step("loop", d)
        BY <4>2, <4>3
      <4>5. \A p \in (Callers \cup Cancelers) \ {x} : hold'[p] = hold[p]
        BY <1>t, <2>1, <3>1 DEF CancelLookup, Note
      <4> QED BY <1>h, <1>t, <2>0, <4>1, <4>4, <4>5 DEF Held, At
    <3>2. CASE ~ Found(d)
      <4>1. UNCHANGED hold /\ At(x, "lookup", d)
        BY <2>1, <3>2 DEF CancelLookup
      <4>2. hold[x] = NoHold
        BY <1>h, <4>1 DEF Held, At, Step
      <4> QED BY <1>h, <2>0, <4>1, <4>2, HeldStays
    <3> QED BY <3>1, <3>2
  <2>2. ASSUME NEW d \in Directions, CancelLoop(x, d) PROVE Held'
    <3>1. /\ hold'[x] = NoHold
          /\ \A p \in (Callers \cup Cancelers) \ {x} : hold'[p] = hold[p]
      BY <1>t, <2>2 DEF CancelLoop, Released
    <3> QED BY <1>h, <1>t, <2>0, <3>1 DEF Held, At
  <2>3. ASSUME NEW d \in Directions,
               CancelFlag(x, d) \/ ResetFlag(x, d) \/ CloseObject(x)
        PROVE  Held'
    <3>1. /\ UNCHANGED hold
          /\ \E e \in Directions : \/ At(x, "cancel", e) \/ At(x, "reset", e)
                                  \/ At(x, "object", e)
      BY <2>3 DEF CancelFlag, CancelStore, ResetFlag, ResetStore, CloseObject,
           Directions
    <3>2. hold[x] = NoHold
      BY <1>h, <3>1 DEF Held, At, Step
    <3> QED BY <1>h, <2>0, <3>1, <3>2, HeldStays
  <2>4. "read" \in Directions
    BY DEF Directions
  <2> QED BY <1>4, <2>1, <2>2, <2>3, <2>4 DEF Manage
<1>5. ASSUME NEW t \in Threads, Run(t) PROVE Held'
  BY <1>0, <1>5 DEF Run, NoHandle, Register, Start, Finish, Send, Unregister,
       Exit, opVars
<1>6. ASSUME NEW c \in Callers, Serve(c) \/ BeginOperation(c) PROVE Held'
  BY <1>0, <1>6 DEF Serve, Kernel, Fill, Flush, Break, BeginOperation, Begin,
       opVars
<1>7. ASSUME NEW c \in Callers, Expire(c) /\ UNCHANGED <<canceled, req, pipeVars>>
      PROVE  Held'
  <2>1. \A e \in Callers : watch[e] = "aborting" => watch'[e] = "aborting"
    BY <1>t, <1>7 DEF Expire
  <2> QED BY <1>h, <1>7, <2>1, HeldStays DEF Expire
<1>8. ASSUME NEW x \in Cancelers, NEW s \in Methods \cup {Close},
             StartMethod(x, s) /\ UNCHANGED <<canceled, req, pipeVars>>
      PROVE  Held'
  <2>1. hold[x] = NoHold /\ UNCHANGED <<watch, hold>>
    BY <1>h, <1>8 DEF Held, At, StartMethod, opVars
  <2> QED BY <1>h, <1>t, <1>8, <2>1, HeldStays DEF StartMethod
<1>9. CASE Peer /\ UNCHANGED <<opVars, job, canceled, req, pipeVars>>
  BY <1>0, <1>9 DEF opVars
<1>10. CASE UNCHANGED vars
  BY <1>0, <1>10 DEF vars, opVars
<1> QED BY <1>1, <1>2, <1>3, <1>4, <1>5, <1>6, <1>7, <1>8, <1>9, <1>10
        DEF Next, System, Environment

LEMMA AttributedStep ==
  ASSUME Types, Jobs, WorkerInv, WatchInv, OneWay, Attributed, [OneWayNext]_mcVars
  PROVE  Attributed'
<1> USE DEF pipeVars, workerVars
<1>1. use' = use /\ [Next]_vars
  BY DEF OneWayNext, mcVars
<1>2. Held'
  BY <1>1, HeldStep
<1>t. worker \in [Threads -> Workers] /\ thread \in [Directions -> Handles \cup {0}]
  BY DEF Types
<1>3. ASSUME UNCHANGED <<worker, thread>> PROVE Attributed'
  BY <1>1, <1>2, <1>3 DEF Attributed
<1>4. ASSUME NEW c \in Callers, Spawn(c) PROVE Attributed'
  <2>1. PICK t \in Threads :
          worker' = [worker EXCEPT ![t] = [Gone EXCEPT !.st = "start", !.c = c]]
    BY <1>4 DEF Spawn
  <2>2. Dir(c) = use /\ UNCHANGED thread
    BY <1>4 DEF Spawn, OneWay
  <2>3. worker'[t].c = c /\ \A u \in Threads \ {t} : worker'[u] = worker[u]
    BY <1>t, <2>1 DEF Gone
  <2> QED BY <1>1, <1>2, <2>2, <2>3 DEF Attributed
<1>5. ASSUME NEW t \in Threads, Run(t) PROVE Attributed'
  <2>1. PICK c \in Callers : c = worker[t].c
    BY <1>5 DEF Run, NoHandle, Register, Start, Finish, Send, Unregister, Exit,
         Goes, WorkerInv
  <2>2. worker[t].st # "gone" /\ Dir(c) = use
    BY <1>5, <2>1 DEF Run, NoHandle, Register, Start, Finish, Send, Unregister,
         Exit, Goes, Attributed
  <2>3. /\ \A u \in Threads \ {t} : worker'[u] = worker[u]
        /\ worker'[t].st = "gone" \/ worker'[t].c = c
    BY <1>5, <1>t, <2>1 DEF Run, NoHandle, Register, Start, Finish, Send,
         Unregister, Exit, Goes, Gone, Workers
  <2>4. UNCHANGED thread \/ \E h : thread' = [thread EXCEPT ![use] = h]
    BY <1>5, <2>1, <2>2
       DEF Run, NoHandle, Register, Start, Finish, Send, Unregister, Exit
  <2>5. \A d \in Directions : thread'[d] # 0 => d = use
    BY <1>t, <2>4 DEF Attributed
  <2> QED BY <1>1, <1>2, <2>2, <2>3, <2>5 DEF Attributed
<1>6. ASSUME NEW c \in Callers, Operate(c), ~ Spawn(c) PROVE Attributed'
  BY <1>3, <1>6 DEF Operate
<1>7. ASSUME NEW p, Interrupt(p) PROVE Attributed'
  BY <1>3, <1>7 DEF Interrupt
<1>8. ASSUME NEW c \in Callers, Watch(c), ~ Interrupt(c) PROVE Attributed'
  BY <1>3, <1>8 DEF Watch, WatchLookup, WatchLoop
<1>9. ASSUME NEW x \in Cancelers, Manage(x), ~ Interrupt(x) PROVE Attributed'
  BY <1>3, <1>9 DEF Manage, CancelFlag, CancelLookup, CancelLoop, ResetFlag,
       CloseObject
<1>10. ASSUME NEW c \in Callers, Serve(c) \/ BeginOperation(c) PROVE Attributed'
  BY <1>3, <1>10 DEF Serve, BeginOperation
<1>11. CASE UNCHANGED pipeVars \/ UNCHANGED vars
  BY <1>3, <1>11 DEF vars
<1> QED BY <1>1, <1>4, <1>5, <1>6, <1>7, <1>8, <1>9, <1>10, <1>11
        DEF Next, System, Environment

(* An interrupted call is that of the operation whose watcher interrupts it, *)
(* or of one in progress while a cancel of its direction lasts.              *)
LEMMA InterruptHasCause ==
  ASSUME OneEach, Types, WorkerInv, RequestInv, WatchInv, OneWay, Attributed, CauseInv,
         NEW p \in Callers \cup Cancelers, Interrupt(p), NEW e \in Callers,
         req'[e] # req[e]
  PROVE  cause'[e]
<1>1. PICK t \in Threads :
        /\ hold[p] # NoHold /\ worker[t].st = "io" /\ Pending(worker[t].c)
        /\ Aborted({worker[t].c})
        /\ cause' = [cause EXCEPT ![worker[t].c] =
             @ \/ \E x \in Cancelers : p = x /\ At(x, "loop", Dir(worker[t].c))]
  BY DEF Interrupt
<1>2. worker[t].c = e
  BY <1>1 DEF Aborted, Types
<1>3. Dir(e) = use /\ cause \in [Callers -> BOOLEAN]
  BY <1>1, <1>2 DEF Attributed, Types, OperationTypeOK
<1>4. CASE p \in Cancelers
  <2>1. At(p, "loop", Dir(e))
    BY <1>1, <1>3, <1>4 DEF Attributed, Held
  <2> QED BY <1>1, <1>2, <1>3, <1>4, <2>1
<1>5. CASE p \in Callers
  <2>1. watch[p] = "aborting"
    BY <1>1, <1>5 DEF Attributed, Held
  <2>2. ctx[p] = "done" /\ pc[p] # "idle"
    BY <1>5, <2>1 DEF WatchInv
  <2>3. Dir(p) = use
    BY <1>5, <2>2 DEF OneWay
  <2>4. p = e
    BY <1>3, <1>5, <2>3 DEF OneEach
  <2>5. cause[e]
    BY <2>2, <2>4 DEF CauseInv
  <2> QED BY <1>1, <1>2, <1>3, <2>5
<1> QED BY <1>4, <1>5

LEMMA CauseStep ==
  ASSUME OneEach, Types, WorkerInv, RequestInv, WatchInv, OneWay, Attributed, CauseInv,
         [Next]_vars
  PROVE  CauseInv'
<1> USE CallersHaveDirections DEF pipeVars, workerVars
<1>t. /\ pc \in [Callers -> Places] /\ cause \in [Callers -> BOOLEAN]
      /\ canceled \in [Directions -> BOOLEAN] /\ req \in [Callers -> Requests]
      /\ ctx \in [Callers -> {"none", "live", "done"}]
      /\ watch \in [Callers -> {"off", "armed", "fired", "signaling", "aborting"}]
  BY DEF Types, OperationTypeOK, Places
<1>1. ASSUME UNCHANGED <<pc, ctx, canceled, req>>,
             \A e \in Callers : cause[e] => cause'[e]
      PROVE  CauseInv'
  BY <1>1 DEF CauseInv, Ended
<1>2. ASSUME NEW c \in Callers, Operate(c) PROVE CauseInv'
  <2>1. UNCHANGED <<ctx, cause, req>>
    BY <1>2 DEF Operate, Check, ContextStore, ContextUndo, Spawn, Return
  <2>2. CASE Check(c)
    BY <1>t, <2>1, <2>2 DEF Check, Proceed, Settled, CauseInv, Ended
  <2>3. CASE ContextStore(c)
    BY <1>t, <2>1, <2>3 DEF ContextStore, CauseInv, Ended
  <2>4. CASE ContextUndo(c) \/ Spawn(c) \/ Return(c)
    <3>1. /\ pc[c] \in {"drain", "enter", "join"} /\ UNCHANGED canceled
          /\ \E q \in {"enter", "wait", "idle"} : pc' = [pc EXCEPT ![c] = q]
      BY <1>2, <2>4 DEF Operate, ContextUndo, Spawn, Return, Proceed, Check,
           ContextStore
    <3> QED BY <1>t, <2>1, <3>1 DEF CauseInv, Ended
  <2> QED BY <1>2, <2>2, <2>3, <2>4 DEF Operate
<1>3. ASSUME NEW p \in Callers \cup Cancelers, Interrupt(p) PROVE CauseInv'
  <2>1. UNCHANGED <<pc, ctx, canceled>>
    BY <1>3 DEF Interrupt
  <2>2. \A e \in Callers : cause[e] => cause'[e]
    BY <1>t, <1>3 DEF Interrupt
  <2>3. ASSUME NEW e \in Callers PROVE req'[e] = req[e] \/ cause'[e]
    BY <1>3, InterruptHasCause
  <2> QED BY <2>1, <2>2, <2>3 DEF CauseInv, Ended
<1>4. ASSUME NEW c \in Callers, Watch(c), ~ Interrupt(c) PROVE CauseInv'
  <2>1. CASE WatchStore(c)
    <3>1. /\ canceled' = [canceled EXCEPT ![Dir(c)] = TRUE]
          /\ UNCHANGED <<pc, ctx, cause, req>>
      BY <1>4, <2>1 DEF Watch, WatchLookup, WatchLoop, WatchStore
    <3>2. ctx[c] = "done" /\ pc[c] # "idle"
      BY <2>1 DEF WatchStore, WatchInv
    <3>3. cause[c]
      BY <3>2 DEF CauseInv
    <3>4. ASSUME NEW e \in Callers, e # c PROVE canceled'[Dir(e)] = canceled[Dir(e)]
      <4>1. Dir(e) # Dir(c)
        BY <3>4 DEF OneEach
      <4> QED BY <1>t, <3>1, <4>1
    <3> QED BY <3>1, <3>3, <3>4 DEF CauseInv, Ended
  <2>2. CASE ~ WatchStore(c)
    BY <1>1, <1>4, <2>2 DEF Watch, WatchLookup, WatchLoop, WatchStop,
         WatchGoesOn
  <2> QED BY <1>4, <2>1, <2>2 DEF Watch
<1>5. ASSUME NEW x \in Cancelers, Manage(x), ~ Interrupt(x) PROVE CauseInv'
  <2>1. ASSUME NEW d \in Directions, CancelFlag(x, d) PROVE CauseInv'
    BY <1>t, <2>1 DEF CancelFlag, CancelStore, GiveCause, InProgress, CauseInv,
         Ended
  <2>2. ASSUME NEW d \in Directions, ResetFlag(x, d) PROVE CauseInv'
    <3>1. /\ canceled' = [canceled EXCEPT ![d] = FALSE]
          /\ UNCHANGED <<pc, ctx, cause, req>>
      BY <2>2 DEF ResetFlag, ResetStore, opVars
    <3>2. \A e \in Directions : canceled'[e] => canceled[e]
      BY <1>t, <3>1
    <3> QED BY <3>1, <3>2 DEF CauseInv, Ended
  <2>3. ASSUME NEW d \in Directions,
               CancelLookup(x, d) \/ CancelLoop(x, d) \/ CloseObject(x)
        PROVE  CauseInv'
    <3>1. UNCHANGED <<pc, ctx, canceled, req>> /\ (UNCHANGED cause \/ GiveCause(d))
      BY <2>3 DEF CancelLookup, CancelLoop, CloseObject, opVars
    <3> QED BY <1>1, <3>1 DEF GiveCause
  <2>4. "read" \in Directions
    BY DEF Directions
  <2> QED BY <1>5, <2>1, <2>2, <2>3, <2>4 DEF Manage
<1>6. ASSUME NEW t \in Threads, Run(t) PROVE CauseInv'
  <2>1. CASE Send(t)
    <3>1. PICK c \in Callers : c = worker[t].c
      BY <2>1 DEF Send, Goes, WorkerInv
    <3>2. /\ pc[c] = "wait" /\ pc' = [pc EXCEPT ![c] = "join"]
          /\ UNCHANGED <<ctx, cause, canceled>>
          /\ req' = [req EXCEPT ![c] = NoRequest]
      BY <2>1, <3>1 DEF Send, Goes, SettledAs, Settled, Taken, WorkerInv,
           Working
    <3> QED BY <1>t, <3>2 DEF CauseInv, Ended, NoRequest
  <2>2. CASE Start(t)
    <3>1. PICK c \in Callers : c = worker[t].c
      BY <2>2 DEF Start, Goes, WorkerInv
    <3>2. /\ UNCHANGED <<pc, ctx, cause, canceled>>
          /\ \A e \in Callers \ {c} : req'[e] = req[e]
          /\ req'[c].err # "aborted"
      BY <1>t, <2>2, <3>1 DEF Start, Issued, Done, NoRequest, opVars
    <3> QED BY <3>2 DEF CauseInv, Ended
  <2>3. CASE ~ Send(t) /\ ~ Start(t)
    BY <1>1, <1>6, <2>3 DEF Run, NoHandle, Register, Finish, Unregister, Exit,
         opVars
  <2> QED BY <2>1, <2>2, <2>3
<1>7. ASSUME NEW c \in Callers, Serve(c) PROVE CauseInv'
  <2>1. /\ UNCHANGED <<pc, ctx, cause, canceled>>
        /\ \/ \E e \in {"nil", "error"} : \E k : req' = [req EXCEPT ![c] = Done(e, k)]
           \/ UNCHANGED req
    BY <1>7 DEF Serve, Kernel, Fill, Flush, Break, opVars
  <2>2. \A e \in Callers : req'[e] = req[e] \/ req'[e].err \in {"nil", "error"}
    BY <1>t, <2>1 DEF Done
  <2> QED BY <2>1, <2>2 DEF CauseInv, Ended
<1>8. ASSUME NEW c \in Callers, BeginOperation(c) PROVE CauseInv'
  <2>1. PICK k \in {"none", "live"} :
          /\ ctx' = [ctx EXCEPT ![c] = k]
          /\ cause' = [cause EXCEPT ![c] = k = "none" /\ canceled[Dir(c)]]
    BY <1>8 DEF BeginOperation, Begin
  <2>2. /\ pc[c] = "idle" /\ pc' = [pc EXCEPT ![c] = "check"]
        /\ UNCHANGED <<canceled, req>>
    BY <1>8 DEF BeginOperation, Begin
  <2>3. req[c].st = "none"
    BY <2>2 DEF RequestInv
  <2>4. /\ ctx'[c] = k /\ pc'[c] = "check" /\ canceled'[Dir(c)] = canceled[Dir(c)]
        /\ k = "none" /\ canceled[Dir(c)] => cause'[c]
        /\ ~ Ended(c)'
    BY <1>t, <2>1, <2>2, <2>3 DEF Ended
  <2>5. \A e \in Callers \ {c} :
          /\ ctx'[e] = ctx[e] /\ pc'[e] = pc[e] /\ cause'[e] = cause[e]
          /\ req'[e] = req[e] /\ canceled'[Dir(e)] = canceled[Dir(e)]
    BY <1>t, <2>1, <2>2
  <2> QED BY <2>4, <2>5 DEF CauseInv, Ended
<1>9. ASSUME NEW c \in Callers, Expire(c) /\ UNCHANGED <<canceled, req, pipeVars>>
      PROVE  CauseInv'
  BY <1>t, <1>9 DEF Expire, CauseInv, Ended
<1>10. ASSUME NEW x \in Cancelers, NEW s,
              StartMethod(x, s) /\ UNCHANGED <<canceled, req, pipeVars>>
       PROVE  CauseInv'
  BY <1>1, <1>10 DEF StartMethod, opVars
<1>11. CASE UNCHANGED <<opVars, canceled, req>> \/ UNCHANGED vars
  BY <1>1, <1>11 DEF vars, opVars
<1> QED BY <1>2, <1>3, <1>4, <1>5, <1>6, <1>7, <1>8, <1>9, <1>10, <1>11
        DEF Next, System, Environment

-----------------------------------------------------------------------------
(* The refinement: the phase of a call is a function of its pc.              *)
Phase(q) == CASE q = "idle" -> "idle"
              [] q = "join" -> "done"
              [] OTHER -> "busy"

(* What the steps are compared with: the promise, and its part about the     *)
(* counts, which a step keeps with any number of callers.                    *)
KeepsPromise == [Promise!ContextNext]_Promise!contextVars
KeepsCounts  == [Counts!ContextNext]_Counts!contextVars

LEMMA PromiseKeepsCounts ==
  ASSUME KeepsPromise
  PROVE  KeepsCounts
<1>1. CASE UNCHANGED Promise!contextVars
  BY <1>1 DEF KeepsCounts, Promise!contextVars, Counts!contextVars
<1>2. CASE Promise!Disturb
  <2>1. Counts!Disturb
    BY <1>2 DEF Promise!Disturb, Counts!Disturb
  <2> QED BY <2>1 DEF KeepsCounts, Counts!ContextNext
<1>3. ASSUME NEW c \in Callers, Promise!Call(c) PROVE KeepsCounts
  <2>1. Counts!Call(c)
    BY <1>3 DEF Promise!Call, Counts!Call, Promise!NoResult, Counts!NoResult
  <2> QED BY <2>1 DEF KeepsCounts, Counts!ContextNext
<1>4. ASSUME NEW c \in Callers, Promise!Finish(c) PROVE KeepsCounts
  <2>1. Counts!Finish(c)
    BY <1>4 DEF Promise!Finish, Counts!Finish
  <2> QED BY <2>1 DEF KeepsCounts, Counts!ContextNext
<1>5. ASSUME NEW c \in Callers, NEW k \in 0..MaxLen, Promise!Transfer(c, k)
      PROVE  KeepsCounts
  <2>1. Counts!Transfer(c, k)
    BY <1>5 DEF Promise!Transfer, Counts!Transfer
  <2> QED BY <2>1 DEF KeepsCounts, Counts!ContextNext
<1>6. ASSUME NEW c \in Callers, NEW k \in 0..MaxLen, NEW err \in Promise!Errors,
             Promise!Settle(c, k, err)
      PROVE  KeepsCounts
  <2>1. Counts!Settle(c, k, err)
    BY <1>6 DEF Promise!Settle, Counts!Settle
  <2> QED BY <2>1 DEF KeepsCounts, Counts!ContextNext, Promise!Errors,
         Counts!Errors
<1> QED BY <1>1, <1>2, <1>3, <1>4, <1>5, <1>6 DEF KeepsPromise,
       Promise!ContextNext

LEMMA Stutters ==
  ASSUME UNCHANGED <<cause, moved, out>>,
         \A c \in Callers : Phase(pc'[c]) = Phase(pc[c])
  PROVE  UNCHANGED Promise!contextVars
BY DEF Promise!contextVars, Phase

LEMMA GoesOn ==
  ASSUME Types, NEW c \in Callers, Phase(pc[c]) = "busy",
         NEW q \in Places, q \notin {"idle", "join"},
         pc' = [pc EXCEPT ![c] = q], UNCHANGED <<cause, moved, out>>
  PROVE  UNCHANGED Promise!contextVars
<1>1. \A e \in Callers : Phase(pc'[e]) = Phase(pc[e])
  BY DEF Phase, Types, OperationTypeOK
<1> QED BY <1>1, Stutters

(* An operation that returns what it moved before, or 0 where it may.        *)
LEMMA Settles ==
  ASSUME Types, NEW c \in Callers, Phase(pc[c]) = "busy", NEW e \in ErrorNames,
         e = "canceled" => cause[c],
         \/ Settled(c, e, moved[c])
         \/ c \in Writers /\ e \in Forgotten /\ Settled(c, e, 0),
         UNCHANGED <<moved, cause>>
  PROVE  Promise!ContextNext
<1>1. /\ 0 \in 0..MaxLen /\ moved[c] + 0 = moved[c]
      /\ moved' = [moved EXCEPT ![c] = moved[c] + 0]
  BY OperationAssumption DEF Types, OperationTypeOK
<1>2. CASE Settled(c, e, moved[c])
  <2>1. Settled(c, e, moved[c] + 0)
    BY <1>1, <1>2
  <2>2. Promise!Settle(c, 0, e)
    BY <1>1, <2>1 DEF Promise!Settle, Settled, Phase, Types, OperationTypeOK
  <2> QED BY <1>1, <2>2 DEF Promise!ContextNext, Promise!Errors, ErrorNames
<1>3. CASE c \in Writers /\ e \in Forgotten /\ Settled(c, e, 0)
  <2>1. Promise!Settle(c, 0, e)
    BY <1>1, <1>3 DEF Promise!Settle, Settled, Phase, Types, OperationTypeOK
  <2> QED BY <1>1, <2>1 DEF Promise!ContextNext, Promise!Errors, ErrorNames
<1> QED BY <1>2, <1>3

(* With ErrCanceled the count is right, and a reason is all that is left.    *)
LEMMA SettlesCanceled ==
  ASSUME Types, NEW c \in Callers, Phase(pc[c]) = "busy",
         \/ Settled(c, "canceled", 0) /\ moved[c] = 0
         \/ c \in Writers /\ "canceled" \in Forgotten /\ Settled(c, "canceled", 0),
         UNCHANGED <<moved, cause>>
  PROVE  KeepsCounts /\ (cause[c] => KeepsPromise)
<1>1. ASSUME cause[c] PROVE KeepsPromise
  <2>1. Promise!ContextNext
    BY <1>1, Settles DEF ErrorNames
  <2> QED BY <2>1 DEF KeepsPromise
<1>2. /\ 0 \in 0..MaxLen /\ moved[c] + 0 = moved[c]
      /\ moved' = [moved EXCEPT ![c] = moved[c] + 0]
  BY OperationAssumption DEF Types, OperationTypeOK
<1>s. Settled(c, "canceled", 0)
  OBVIOUS
<1>3. Counts!Settle(c, 0, "canceled")
  <2>1. CASE moved[c] = 0
    <3>1. out' = [out EXCEPT ![c] = [err |-> "canceled", n |-> moved[c] + 0]]
      BY <1>2, <1>s, <2>1 DEF Settled
    <3> QED BY <1>2, <1>s, <3>1
            DEF Counts!Settle, Settled, Phase, Types, OperationTypeOK
  <2>2. CASE c \in Writers /\ "canceled" \in Forgotten
    BY <1>2, <1>s, <2>2 DEF Counts!Settle, Settled, Phase, Types,
         OperationTypeOK
  <2> QED BY <2>1, <2>2
<1>4. KeepsCounts
  BY <1>2, <1>3 DEF KeepsCounts, Counts!ContextNext, Counts!Errors
<1> QED BY <1>1, <1>4

LEMMA Disturbs ==
  ASSUME NEW S \in SUBSET Callers, UNCHANGED <<pc, moved, out>>,
         cause' = [c \in Callers |-> cause[c] \/ c \in S]
  PROVE  Promise!ContextNext
BY DEF Promise!ContextNext, Promise!Disturb

LEMMA GivesCause ==
  ASSUME NEW d, GiveCause(d), UNCHANGED <<pc, moved, out>>
  PROVE  Promise!ContextNext
<1>1. InProgress(d) \in SUBSET Callers
  BY DEF InProgress
<1> QED BY <1>1, Disturbs DEF GiveCause

LEMMA OperateRefines ==
  ASSUME Types, RequestInv, Account, NEW c \in Callers, Operate(c)
  PROVE  KeepsCounts /\ (CauseInv => KeepsPromise)
<1>t. pc \in [Callers -> Places]
  BY DEF Types, OperationTypeOK, Places
<1>1. CASE Check(c)
  <2>1. pc[c] = "check" /\ Phase(pc[c]) = "busy" /\ UNCHANGED <<moved, cause>>
    BY <1>1 DEF Check, Phase
  <2>2. moved[c] = 0
    BY <2>1 DEF RequestInv, Account, Busy
  <2>3. CASE Settled(c, "canceled", 0) /\ (ctx[c] = "done" \/ canceled[Dir(c)])
    <3>1. KeepsCounts /\ (cause[c] => KeepsPromise)
      BY <2>1, <2>2, <2>3, SettlesCanceled
    <3>2. ASSUME CauseInv, ~ cause[c] PROVE KeepsPromise
      <4>1. ctx[c] = "live" /\ canceled[Dir(c)]
        BY <2>1, <2>3, <3>2 DEF CauseInv
      <4>2. pc' = [pc EXCEPT ![c] = "reset"] /\ UNCHANGED out
        BY <1>1, <4>1 DEF Check
      <4> QED BY <2>1, <4>2, GoesOn DEF Places, KeepsPromise
    <3> QED BY <3>1, <3>2
  <2>4. CASE ~ (Settled(c, "canceled", 0) /\ (ctx[c] = "done" \/ canceled[Dir(c)]))
    <3>1. UNCHANGED out /\ \E q \in {"reset", "enter"} : pc' = [pc EXCEPT ![c] = q]
      BY <1>1, <2>4 DEF Check, Proceed
    <3>2. UNCHANGED Promise!contextVars
      BY <2>1, <3>1, GoesOn DEF Places
    <3> QED BY <3>2, PromiseKeepsCounts DEF KeepsPromise
  <2> QED BY <2>3, <2>4
<1>2. ASSUME ContextStore(c) \/ ContextUndo(c) \/ Spawn(c)
      PROVE  UNCHANGED Promise!contextVars
  <2>1. /\ Phase(pc[c]) = "busy" /\ UNCHANGED <<moved, cause, out>>
        /\ \E q \in {"drain", "enter", "wait"} : pc' = [pc EXCEPT ![c] = q]
    BY <1>2 DEF ContextStore, ContextUndo, Spawn, Proceed, Phase
  <2> QED BY <2>1, GoesOn DEF Places
<1>3. ASSUME Return(c) PROVE Promise!ContextNext
  <2>1. Promise!Finish(c)
    BY <1>t, <1>3 DEF Return, Promise!Finish
  <2> QED BY <2>1 DEF Promise!ContextNext
<1>4. CASE ~ Check(c)
  <2>1. KeepsPromise
    BY <1>2, <1>3, <1>4 DEF Operate, KeepsPromise
  <2> QED BY <2>1, PromiseKeepsCounts
<1> QED BY <1>1, <1>4

(* The worker sends the result of its request.                               *)
LEMMA SendRefines ==
  ASSUME Types, WorkerInv, Account, "canceled" \in Forgotten,
         NEW t \in Threads, Send(t)
  PROVE  KeepsCounts /\ (CauseInv => KeepsPromise)
<1>1. PICK c \in Callers : c = worker[t].c
  BY DEF Send, Goes, WorkerInv
<1>2. pc[c] = "wait" /\ Ended(c)
  BY <1>1 DEF Send, Goes, WorkerInv, Working
<1>3. Phase(pc[c]) = "busy" /\ UNCHANGED <<moved, cause>>
  BY <1>2 DEF Send, Phase
<1>4. CASE req[c].err = "aborted"
  <2>1. Settled(c, "canceled", 0)
    BY <1>1, <1>4 DEF Send, SettledAs
  <2>2. CauseInv => cause[c]
    BY <1>2, <1>4 DEF CauseInv
  <2>3. c \in Readers => moved[c] = 0
    BY <1>2, <1>4 DEF Account, Busy
  <2> QED BY <1>3, <2>1, <2>2, <2>3, SettlesCanceled DEF Callers
<1>5. CASE req[c].err # "aborted"
  <2>1. Settled(c, req[c].err, req[c].n)
    BY <1>1, <1>5 DEF Send, SettledAs
  <2>2. req[c].n = moved[c]
    BY <1>2, <1>5 DEF Account, Busy
  <2>3. req[c].err \in {"nil", "error"}
    BY <1>5 DEF Types, Requests
  <2>4. Promise!ContextNext
    BY <1>3, <2>1, <2>2, <2>3, Settles DEF ErrorNames
  <2> QED BY <2>4, PromiseKeepsCounts DEF KeepsPromise
<1> QED BY <1>4, <1>5

LEMMA InterruptRefines ==
  ASSUME Types, NEW p, Interrupt(p)
  PROVE  [Promise!ContextNext]_Promise!contextVars
<1>1. PICK t \in Threads :
        cause' = [cause EXCEPT ![worker[t].c] =
             @ \/ \E x \in Cancelers : p = x /\ At(x, "loop", Dir(worker[t].c))]
  BY DEF Interrupt
<1>2. UNCHANGED <<pc, moved, out>> /\ cause \in [Callers -> BOOLEAN]
  BY DEF Interrupt, Types, OperationTypeOK
<1>3. CASE \E x \in Cancelers : p = x /\ At(x, "loop", Dir(worker[t].c))
  <2>1. cause' = [e \in Callers |-> cause[e] \/ e \in {worker[t].c} \cap Callers]
    BY <1>1, <1>2, <1>3
  <2> QED BY <1>2, <2>1, Disturbs
<1>4. CASE ~ \E x \in Cancelers : p = x /\ At(x, "loop", Dir(worker[t].c))
  <2>1. UNCHANGED cause
    BY <1>1, <1>2, <1>4
  <2> QED BY <1>2, <2>1, Stutters
<1> QED BY <1>3, <1>4

LEMMA ServeRefines ==
  ASSUME Types, RequestInv, Account, NEW c \in Callers, Serve(c)
  PROVE  [Promise!ContextNext]_Promise!contextVars
<1> USE StreamAssumption, OperationAssumption
<1>t. /\ part \in [Callers -> Nat] /\ len \in [Callers -> 0..MaxLen]
      /\ space \in 0..BufSize /\ avail \in 0..BufSize
      /\ moved \in [Callers -> Nat]
  BY DEF Types, OperationTypeOK, StreamTypeOK
<1>1. /\ Pending(c) /\ pc[c] = "wait" /\ UNCHANGED <<pc, cause, out>>
  BY DEF Serve, Kernel, Fill, Flush, Break, Pending, RequestInv, opVars
<1>2. moved[c] = part[c] /\ (c \in Readers => part[c] = 0)
  BY <1>1 DEF Account, Busy
<1>3. ASSUME NEW k \in 0..MaxLen, moved' = [moved EXCEPT ![c] = moved[c] + k]
      PROVE  Promise!ContextNext
  <2>1. Promise!Transfer(c, k)
    BY <1>1, <1>3 DEF Promise!Transfer
  <2> QED BY <2>1 DEF Promise!ContextNext
<1>4. CASE Fill(c)
  <2>1. PICK k \in 1..Least(len[c], avail) : moved' = [moved EXCEPT ![c] = k]
    BY <1>4 DEF Fill
  <2>2. k \in 0..MaxLen /\ moved[c] + k = k
    BY <1>2, <1>4, <1>t DEF Least, Fill
  <2> QED BY <1>3, <2>1, <2>2
<1>5. CASE Flush(c)
  <2>1. PICK k \in 0..Least(len[c] - part[c], space) :
          moved' = [moved EXCEPT ![c] = moved[c] + k]
    BY <1>5 DEF Flush
  <2>2. k \in 0..MaxLen
    BY <1>t DEF Least
  <2> QED BY <1>3, <2>1, <2>2
<1>6. CASE Break(c)
  BY <1>1, <1>6, Stutters DEF Break, opVars
<1> QED BY <1>4, <1>5, <1>6 DEF Serve, Kernel

LEMMA ManageRefines ==
  ASSUME Types, NEW x \in Cancelers, Manage(x)
  PROVE  [Promise!ContextNext]_Promise!contextVars
<1>1. ASSUME NEW d \in Directions, CancelFlag(x, d) \/ CancelLookup(x, d)
      PROVE  Promise!ContextNext
  BY <1>1, GivesCause DEF CancelFlag, CancelStore, CancelLookup
<1>2. ASSUME NEW d \in Directions, CancelLoop(x, d) \/ ResetFlag(x, d) \/ CloseObject(x)
      PROVE  UNCHANGED Promise!contextVars
  BY <1>2, Stutters DEF CancelLoop, ResetFlag, ResetStore, CloseObject, opVars
<1>3. "read" \in Directions
  BY DEF Directions
<1> QED BY <1>1, <1>2, <1>3, InterruptRefines DEF Manage

LEMMA EnvironmentRefines ==
  ASSUME Types, Environment
  PROVE  [Promise!ContextNext]_Promise!contextVars
<1>1. ASSUME NEW c \in Callers, BeginOperation(c) PROVE Promise!ContextNext
  <2>1. PICK k \in {"none", "live"} :
          cause' = [cause EXCEPT ![c] = k = "none" /\ canceled[Dir(c)]]
    BY <1>1 DEF BeginOperation, Begin
  <2>2. PICK b \in BOOLEAN : cause' = [cause EXCEPT ![c] = b]
    BY <2>1
  <2>3. /\ pc[c] = "idle" /\ pc' = [pc EXCEPT ![c] = "check"]
        /\ moved' = [moved EXCEPT ![c] = 0]
        /\ out' = [out EXCEPT ![c] = Promise!NoResult]
    BY <1>1 DEF BeginOperation, Begin, NoResult, Promise!NoResult
  <2>4. Promise!Call(c)
    BY <2>2, <2>3 DEF Promise!Call, Types, OperationTypeOK
  <2> QED BY <2>4 DEF Promise!ContextNext
<1>2. ASSUME NEW c \in Callers, Expire(c) PROVE Promise!ContextNext
  <2>1. UNCHANGED <<pc, moved, out>> /\ cause' = [cause EXCEPT ![c] = TRUE]
    BY <1>2 DEF Expire
  <2>2. cause' = [e \in Callers |-> cause[e] \/ e \in {c}]
    BY <2>1 DEF Types, OperationTypeOK
  <2> QED BY <2>1, <2>2, Disturbs
<1>3. ASSUME NEW x \in Cancelers, NEW s, StartMethod(x, s)
      PROVE  UNCHANGED Promise!contextVars
  BY <1>3, Stutters DEF StartMethod, opVars
<1>4. UNCHANGED opVars => UNCHANGED Promise!contextVars
  BY Stutters DEF opVars
<1> QED BY <1>1, <1>2, <1>3, <1>4 DEF Environment

PipeInv == PipeTypes /\ OneWay /\ WatchInv /\ Attributed /\ CauseInv

LEMMA StepRefines ==
  ASSUME PipeTypes, "canceled" \in Forgotten, [Next]_vars
  PROVE  KeepsCounts /\ (CauseInv => KeepsPromise)
<1>0. Types /\ WorkerInv /\ RequestInv /\ Account
  BY DEF PipeTypes
<1>1. ASSUME NEW c \in Callers, Watch(c), ~ Interrupt(c)
      PROVE  UNCHANGED Promise!contextVars
  BY <1>1, Stutters DEF Watch, WatchStore, WatchLookup, WatchLoop, WatchStop,
       WatchGoesOn
<1>2. ASSUME NEW t \in Threads, Run(t), ~ Send(t) PROVE UNCHANGED Promise!contextVars
  BY <1>2, Stutters DEF Run, NoHandle, Register, Start, Finish, Unregister,
       Exit, opVars
<1>3. UNCHANGED vars => UNCHANGED Promise!contextVars
  BY Stutters DEF vars, opVars
<1>4. CASE /\ \A c \in Callers : ~ Operate(c)
           /\ \A t \in Threads : ~ Send(t)
  <2>1. ASSUME NEW c \in Callers, Interrupt(c) PROVE KeepsPromise
    BY <1>0, <2>1, InterruptRefines DEF KeepsPromise
  <2>2. ASSUME NEW c \in Callers, Serve(c) PROVE KeepsPromise
    BY <1>0, <2>2, ServeRefines DEF KeepsPromise
  <2>3. ASSUME NEW x \in Cancelers, Manage(x) PROVE KeepsPromise
    BY <1>0, <2>3, ManageRefines DEF KeepsPromise
  <2>4. Environment => KeepsPromise
    BY <1>0, EnvironmentRefines DEF KeepsPromise
  <2>5. UNCHANGED Promise!contextVars => KeepsPromise
    BY DEF KeepsPromise
  <2>6. System => KeepsPromise
    <3>1. ASSUME NEW c \in Callers, Watch(c) PROVE KeepsPromise
      BY <1>1, <2>1, <2>5, <3>1
    <3>2. ASSUME NEW t \in Threads, Run(t) PROVE KeepsPromise
      BY <1>2, <1>4, <2>5, <3>2
    <3> QED BY <1>4, <2>2, <2>3, <3>1, <3>2 DEF System
  <2>7. KeepsPromise
    BY <1>3, <2>4, <2>5, <2>6 DEF Next
  <2> QED BY <2>7, PromiseKeepsCounts
<1> QED BY <1>0, <1>4, OperateRefines, SendRefines

LEMMA PipeStart == Init /\ use \in Directions => PipeInv
<1> SUFFICES ASSUME Init, use \in Directions PROVE PipeInv
  OBVIOUS
<1>1. OneWay /\ WatchInv /\ CauseInv
  BY DEF Init, OperationInit, OneWay, WatchInv, CauseInv
<1>2. Attributed
  BY DEF Init, Attributed, Held, Gone
<1> QED BY <1>1, <1>2, TypesStart DEF PipeInv

LEMMA PipeKept ==
  ASSUME OneEach, PipeInv, [OneWayNext]_mcVars
  PROVE  PipeInv'
<1>1. [Next]_vars /\ use' = use
  BY DEF OneWayNext, mcVars
<1>2. OneWay'
  BY DEF PipeInv, OneWay, OneWayNext, mcVars, vars, opVars
<1> QED BY <1>1, <1>2, TypesKept, WatchStep, AttributedStep, CauseStep
        DEF PipeInv, PipeTypes

(***************************************************************************)
(* On one end of an anonymous pipe, with one caller, the backend keeps the *)
(* promise of ContextIO, whatever goroutines call whatever methods: counts *)
(* are exact but that of a canceled write, and ErrCanceled has a reason    *)
(* although a cancel interrupts whatever its thread handle stands for.     *)
(***************************************************************************)
THEOREM OneWayImplements ==
  ASSUME OneEach, "canceled" \in Forgotten
  PROVE  OneWaySpec => ImplementsContextIO
<1>1. Init => Promise!ContextInit
  BY DEF Init, OperationInit, NoResult, Promise!ContextInit, Promise!NoResult
<1>2. PipeInv /\ [OneWayNext]_mcVars => PipeInv'
  BY PipeKept
<1>3. PipeInv /\ [OneWayNext]_mcVars => [Promise!ContextNext]_Promise!contextVars
  <2>1. [OneWayNext]_mcVars => [Next]_vars
    BY DEF OneWayNext, mcVars
  <2> QED BY <2>1, StepRefines DEF PipeInv, KeepsPromise
<1> QED BY <1>1, <1>2, <1>3, PipeStart, PTL
        DEF OneWaySpec, ImplementsContextIO, Promise!ContextSpec

(***************************************************************************)
(* Any number of operations on both ends of any number of threads, with    *)
(* workers and handle values left over from older ones: a cancel may abort *)
(* the wrong request, but every operation returns the count of its own,    *)
(* except a canceled write, which returns 0.                               *)
(***************************************************************************)
THEOREM WinPipeCounts ==
  ASSUME "canceled" \in Forgotten
  PROVE  Spec => CountsExact
<1>1. Init => Counts!ContextInit
  BY DEF Init, OperationInit, NoResult, Counts!ContextInit, Counts!NoResult
<1>2. Init => PipeTypes
  BY TypesStart
<1>3. PipeTypes /\ [Next]_vars => PipeTypes'
  BY TypesKept DEF PipeTypes
<1>4. PipeTypes /\ [Next]_vars => [Counts!ContextNext]_Counts!contextVars
  BY StepRefines DEF KeepsCounts
<1> QED BY <1>1, <1>2, <1>3, <1>4, PTL DEF Spec, CountsExact, Counts!ContextSpec

(***************************************************************************)
(* The runs are such behaviours: they bound the methods and the buffers.   *)
(***************************************************************************)
THEOREM WinPipeImplements ==
  ASSUME OneEach, "canceled" \in Forgotten
  PROVE  MCSpec => ImplementsContextIO
<1>1. MCInit => Init /\ use \in Directions
  BY DEF MCInit
<1>2. MCNext => OneWayNext
  BY DEF MCNext, OneWayNext, Absent
<1>3. [MCNext]_mcVars => [OneWayNext]_mcVars
  BY <1>2
<1> QED BY <1>1, <1>3, OneWayImplements, PTL DEF MCSpec, OneWaySpec

=============================================================================
