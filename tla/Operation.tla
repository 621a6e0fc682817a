------------------------------ MODULE Operation ------------------------------
(***************************************************************************)
(* What the I/O operations of all backends have in common: goroutines that *)
(* call Read, ReadContext, Write and WriteContext, the watcher goroutine   *)
(* that cancelWhenContextIsDone starts for the operations with a context   *)
(* (ctxio.go), and goroutines in the middle of Cancel, Reset and Close.    *)
(*                                                                         *)
(* The calling rules are those of the interface: ResetReader and           *)
(* ResetWriter are not called while an operation of that direction is in   *)
(* progress.  Everything else may overlap.                                 *)
(***************************************************************************)
EXTENDS Stream, Sequences

CONSTANTS Readers,    \* goroutines that call Read and ReadContext
          Writers,    \* goroutines that call Write and WriteContext
          Cancelers,  \* goroutines that call Cancel*, Reset* and Close
          Forgotten,  \* the errors with which the backend's write reports 0
          MaxLen      \* the longest buffer passed to an operation

Callers == Readers \cup Writers

ASSUME OperationAssumption ==
  /\ Readers \cap Writers = {}
  /\ Callers \cap Cancelers = {}
  /\ Forgotten \subseteq {"canceled", "error"}
  /\ MaxLen \in Nat

VARIABLES pc,     \* pc[c]: where the caller's goroutine is
          ctx,    \* ctx[c]: "none" for Read and Write, else "live" or "done"
          watch,  \* watch[c]: where the watcher goroutine is
          len,    \* len[c]: len(data)
          out,    \* out[c]: the results of the last operation
          part,   \* part[c]: bytes moved by the rw.Write in progress
          cause,  \* cause[c]: history: there was a reason to cancel it
          moved,  \* moved[c]: history: bytes the operation moved
          job     \* job[x]: what is left of the method a canceler is in

opVars == <<pc, ctx, watch, len, out, part, cause, moved>>

Directions == {"read", "write"}

Dir(c) == IF c \in Readers THEN "read" ELSE "write"

Lengths(c) == IF c \in Readers THEN 1..MaxLen ELSE 0..MaxLen

NoResult == [err |-> "nil", n |-> 0]

OperationInit ==
  /\ pc    = [c \in Callers |-> "idle"]
  /\ ctx   = [c \in Callers |-> "none"]
  /\ watch = [c \in Callers |-> "off"]
  /\ len   = [c \in Callers |-> 0]
  /\ out   = [c \in Callers |-> NoResult]
  /\ part  = [c \in Callers |-> 0]
  /\ cause = [c \in Callers |-> FALSE]
  /\ moved = [c \in Callers |-> 0]
  /\ job   = [x \in Cancelers |-> <<>>]

InProgress(d) == {c \in Callers : Dir(c) = d /\ pc[c] # "idle"}

-----------------------------------------------------------------------------
(* Methods of cancelers, as the steps they take in order.                    *)
Step(op, d) == [op |-> op, dir |-> d]

CancelReads  == <<Step("cancel", "read")>>
CancelWrites == <<Step("cancel", "write")>>
Cancel       == CancelReads \o CancelWrites
ResetReader  == <<Step("reset", "read")>>
ResetWriter  == <<Step("reset", "write")>>
Reset        == ResetReader \o ResetWriter

Methods == {CancelReads, CancelWrites, Cancel, ResetReader, ResetWriter, Reset}

(* A reset of direction d is yet to come or half done.                       *)
Resets(s, d) ==
  \E i \in DOMAIN s : s[i].op \in {"reset", "zero"} /\ s[i].dir = d

ResetPending(d) == \E x \in Cancelers : Resets(job[x], d)

At(x, op, d) == job[x] # <<>> /\ Head(job[x]) = Step(op, d)

Advance(x) == job' = [job EXCEPT ![x] = Tail(@)]

StartMethod(x, s) ==
  /\ job[x] = <<>>
  /\ \A d \in Directions : Resets(s, d) => InProgress(d) = {}
  /\ job' = [job EXCEPT ![x] = s]
  /\ UNCHANGED <<opVars, streamVars>>

(* A call that cancels is a reason for every operation in progress to end.   *)
GiveCause(d) == cause' = [c \in Callers |-> cause[c] \/ c \in InProgress(d)]

-----------------------------------------------------------------------------
(* A call with a buffer of l bytes; k is "none" for Read and Write; b says   *)
(* whether there is a reason to cancel it already.                           *)
Begin(c, k, l, b) ==
  /\ pc[c] = "idle"
  /\ ~ ResetPending(Dir(c))
  /\ pc'    = [pc EXCEPT ![c] = "check"]
  /\ ctx'   = [ctx EXCEPT ![c] = k]
  /\ len'   = [len EXCEPT ![c] = l]
  /\ out'   = [out EXCEPT ![c] = NoResult]
  /\ cause' = [cause EXCEPT ![c] = b]
  /\ moved' = [moved EXCEPT ![c] = 0]
  /\ part'  = [part EXCEPT ![c] = 0]
  /\ UNCHANGED <<watch, job, streamVars>>

(* The results are settled; the deferred done() has yet to run.              *)
Settled(c, err, k) ==
  /\ pc' = [pc EXCEPT ![c] = "join"]
  /\ out' = [out EXCEPT ![c] = [err |-> err, n |-> k]]

(* cancelWhenContextIsDone starts the watcher, then read or write begins.    *)
Proceed(c) ==
  /\ pc' = [pc EXCEPT ![c] = "enter"]
  /\ watch' = [watch EXCEPT ![c] =
                 CASE ctx[c] = "none" -> "off"
                   [] ctx[c] = "live" -> "armed"
                   [] ctx[c] = "done" -> "fired"]

(* Mutant: done() without wg.Wait().                                         *)
ReturnWithoutWait(c) ==
  /\ pc[c] = "join"
  /\ pc' = [pc EXCEPT ![c] = "idle"]
  /\ UNCHANGED <<ctx, watch, len, out, part, cause, moved, job, streamVars>>

(* done(): close(operationFinished), then wg.Wait().                         *)
Return(c) ==
  /\ pc[c] = "join"
  /\ watch[c] = "off"
  /\ pc' = [pc EXCEPT ![c] = "idle"]
  /\ UNCHANGED <<ctx, watch, len, out, part, cause, moved, job, streamVars>>

(* The context of an operation expires.                                      *)
Expire(c) ==
  /\ pc[c] # "idle" /\ ctx[c] = "live"
  /\ ctx' = [ctx EXCEPT ![c] = "done"]
  /\ watch' = [watch EXCEPT ![c] = IF @ = "armed" THEN "fired" ELSE @]
  /\ cause' = [cause EXCEPT ![c] = TRUE]
  /\ UNCHANGED <<pc, len, out, part, moved, job, streamVars>>

(* The watcher receives from operationFinished; when ctx.Done() is ready as  *)
(* well, the select statement may pick either case.                          *)
WatchStop(c) ==
  /\ pc[c] = "join"
  /\ watch[c] \in {"armed", "fired"}
  /\ watch' = [watch EXCEPT ![c] = "off"]
  /\ UNCHANGED <<pc, ctx, len, out, part, cause, moved, job, streamVars>>

-----------------------------------------------------------------------------
(* rw.Read into a buffer of size most blocks until there is a byte, the end  *)
(* of the stream or a closed object.                                         *)
RwReadData(c, most) ==
  /\ pc[c] = "io" /\ c \in Readers /\ rwOpen
  /\ \E k \in 1..Least(most, avail) :
       /\ avail' = avail - k
       /\ moved' = [moved EXCEPT ![c] = k]
       /\ Settled(c, "nil", k)
  /\ UNCHANGED <<ctx, watch, len, part, cause, job, space, peer, rwOpen>>

ReadFails(c, err) ==
  /\ pc[c] = "io" /\ c \in Readers
  /\ \/ err = "eof" /\ rwOpen /\ avail = 0 /\ peer = "closed"
     \/ err = "error" /\ ~ rwOpen

(* The backends that return what rw.Read returns.                            *)
RwRead(c, most) ==
  \/ RwReadData(c, most)
  \/ /\ \E err \in {"eof", "error"} : ReadFails(c, err) /\ Settled(c, err, 0)
     /\ UNCHANGED <<ctx, watch, len, part, cause, moved, job, streamVars>>

(* rw.Write of todo bytes puts them in the buffer as there is room for them. *)
RwWriteSome(c, todo) ==
  /\ pc[c] = "io" /\ c \in Writers
  /\ rwOpen /\ peer = "open"
  /\ \E k \in 1..Least(todo - part[c], space) :
       /\ space' = space - k
       /\ part'  = [part EXCEPT ![c] = @ + k]
       /\ moved' = [moved EXCEPT ![c] = @ + k]
  /\ UNCHANGED <<pc, ctx, watch, len, out, cause, job, avail, peer, rwOpen>>

(* It returns when all are in it, or with an error.                          *)
WroteAll(c, todo) ==
  /\ pc[c] = "io" /\ c \in Writers
  /\ part[c] = todo
  /\ todo > 0 \/ (peer = "open" /\ rwOpen)

WriteFails(c, todo) ==
  /\ pc[c] = "io" /\ c \in Writers
  /\ part[c] < todo \/ todo = 0
  /\ peer = "closed" \/ ~ rwOpen

(* It is blocked: some are not in it, there is no room, and nothing fails.   *)
RwWriteBlocked(c, todo) ==
  /\ pc[c] = "io" /\ c \in Writers
  /\ part[c] < todo /\ space = 0
  /\ peer = "open" /\ rwOpen

-----------------------------------------------------------------------------
OperationTypeOK ==
  /\ pc    \in [Callers -> {"idle", "check", "reset", "drain", "enter", "wait",
                            "woken", "io", "late", "join"}]
  /\ ctx   \in [Callers -> {"none", "live", "done"}]
  /\ watch \in [Callers -> {"off", "armed", "fired", "signaling", "aborting"}]
  /\ len   \in [Callers -> 0..MaxLen]
  /\ out   \in [Callers -> [err : {"nil", "canceled", "eof", "error"}, n : Nat]]
  /\ part  \in [Callers -> Nat]
  /\ cause \in [Callers -> BOOLEAN]
  /\ moved \in [Callers -> Nat]

JobTypeOK(ops) ==
  \A x \in Cancelers : \A i \in DOMAIN job[x] :
    job[x][i] \in [op : ops, dir : Directions]

(***************************************************************************)
(* The promise of ContextIO (ctxio.go:21-72) to every caller: the count    *)
(* that is returned is the count that was moved, and ErrCanceled has a     *)
(* reason: the context of this very operation is done, or somebody         *)
(* canceled this direction while it was in progress, or before a plain     *)
(* Read or Write with no reset in between.  A signal that was meant for an *)
(* earlier operation does not reach a later one, and a read that fails     *)
(* has taken nothing.                                                      *)
(***************************************************************************)
Promise == INSTANCE ContextIO WITH
  phase <- [c \in Callers |-> CASE pc[c] = "idle" -> "idle"
                                [] pc[c] = "join" -> "done"
                                [] OTHER -> "busy"],
  Forgets <- [c \in Callers |-> IF c \in Writers THEN Forgotten ELSE {}],
  Steps <- 0..MaxLen

ImplementsContextIO == Promise!ContextSpec

(***************************************************************************)
(* The part of that promise that is about the counts: every operation      *)
(* reports the bytes it moved, with whatever error.  It does not ask for a *)
(* reason to cancel, which belongs to a direction and not to an operation, *)
(* so that it holds of any number of operations at a time.                 *)
(***************************************************************************)
Counts == INSTANCE ContextIO WITH
  phase <- [c \in Callers |-> CASE pc[c] = "idle" -> "idle"
                                [] pc[c] = "join" -> "done"
                                [] OTHER -> "busy"],
  cause <- [c \in Callers |-> TRUE],
  Forgets <- [c \in Callers |-> IF c \in Writers THEN Forgotten ELSE {}],
  Steps <- 0..MaxLen

CountsExact == Counts!ContextSpec

(***************************************************************************)
(* A reader is in rw.Read, which cannot be canceled, only while that       *)
(* cannot block: the wait before it saw the data, and nobody takes it away.*)
(***************************************************************************)
ReadNeverBlocks ==
  \A c \in Readers : pc[c] = "io" => Readable \/ ~ rwOpen

(***************************************************************************)
(* An operation whose context is done returns (ctxio.go:31 and 36),        *)
(* whatever the peer does, unless the object is closed while it waits.     *)
(***************************************************************************)
ExpiredReturns ==
  \A c \in Callers :
    (pc[c] # "idle" /\ ctx[c] = "done") ~> (pc[c] = "idle" \/ ~ rwOpen)

(***************************************************************************)
(* Cancel, Reset and Close return: no method waits for an operation.       *)
(***************************************************************************)
MethodsReturn ==
  \A x \in Cancelers : job[x] # <<>> ~> job[x] = <<>>

=============================================================================
