------------------------------- MODULE SignalIO -------------------------------
(***************************************************************************)
(* The backends that cancel with a flag and a pipe (epoll, kqueue and      *)
(* select) around their waits: the check of the flag, the reset by         *)
(* ReadContext and WriteContext, the watcher and the cancelers, composed   *)
(* of the signal (CancelSignal) and the operations (Operation).            *)
(***************************************************************************)
EXTENDS CancelSignal, Operation

ASSUME SignalIOAssumption ==
  /\ Dirs = Directions
  /\ Procs = Callers \cup Cancelers

(* CancelReads and CancelWrites.                                             *)
CancelFlag(x, d) ==
  /\ At(x, "cancel", d)
  /\ CompareAndSwap(x, d)
  /\ IF canceled[d] THEN Advance(x) /\ UNCHANGED cause
                    ELSE GiveCause(d) /\ UNCHANGED job
  /\ UNCHANGED <<pc, ctx, watch, len, out, part, moved, streamVars>>

CancelWrite(x, d) ==
  /\ At(x, "cancel", d)
  /\ WriteSignal(x, d)
  /\ Advance(x)
  /\ UNCHANGED <<opVars, streamVars>>

(* ResetReader and ResetWriter.                                              *)
ResetFlag(x, d) ==
  /\ At(x, "reset", d)
  /\ Swap(x, d)
  /\ IF canceled[d] THEN UNCHANGED job ELSE Advance(x)
  /\ UNCHANGED <<opVars, streamVars>>

ResetRead(x, d) ==
  /\ At(x, "reset", d)
  /\ ReadSignal(x, d)
  /\ Advance(x)
  /\ UNCHANGED <<opVars, streamVars>>

(* The part of Close that closes the pipes; the hang-up ends every wait of   *)
(* that direction from here on.                                              *)
ClosePipe(x, d, e) ==
  /\ At(x, e, d)
  /\ CloseEnd(d, e)
  /\ Advance(x)
  /\ GiveCause(d)
  /\ UNCHANGED <<pc, ctx, watch, len, out, part, moved, streamVars>>

(* The part of Close that closes the wrapped object.                         *)
CloseObject(x) ==
  /\ At(x, "object", "read")
  /\ CloseStream
  /\ Advance(x)
  /\ UNCHANGED <<signalVars, opVars>>

(* The steps of Close after Cancel, from the pipes on.                       *)
ClosePipes ==
  <<Step("writer", "read"),  Step("reader", "read"),
    Step("writer", "write"), Step("reader", "write"), Step("object", "read")>>

-----------------------------------------------------------------------------
(* A call of one of the four operations.  A Read on a canceled reader has    *)
(* its reason to be canceled from the start; a ReadContext has not, unless   *)
(* the pipe is closed: it resets the reader.                                 *)
BeginOperation(c) ==
  /\ \E k \in {"none", "live"}, l \in Lengths(c) :
       Begin(c, k, l, \/ k = "none" /\ canceled[Dir(c)]
                      \/ ends[Dir(c)] # BothEnds)
  /\ UNCHANGED signalVars

(* Mutant: ReadContext and WriteContext do not reset a canceled direction.   *)
CheckWithoutReset(c) ==
  /\ pc[c] = "check"
  /\ IF ctx[c] = "done" \/ (ctx[c] = "none" /\ canceled[Dir(c)])
     THEN Settled(c, "canceled", 0) /\ UNCHANGED watch
     ELSE Proceed(c) /\ UNCHANGED out
  /\ UNCHANGED <<signalVars, job, ctx, len, part, cause, moved, streamVars>>

(* The tests of ctx.Err() and of the flag.                                   *)
Check(c) ==
  /\ pc[c] = "check"
  /\ \/ /\ \/ ctx[c] = "done"
           \/ ctx[c] = "none" /\ canceled[Dir(c)]
        /\ Settled(c, "canceled", 0)
        /\ UNCHANGED watch
     \/ /\ ctx[c] = "live" /\ canceled[Dir(c)]
        /\ pc' = [pc EXCEPT ![c] = "reset"]
        /\ UNCHANGED <<watch, out>>
     \/ /\ ctx[c] # "done" /\ ~ canceled[Dir(c)]
        /\ Proceed(c)
        /\ UNCHANGED out
  /\ UNCHANGED <<signalVars, job, ctx, len, part, cause, moved, streamVars>>

(* ReadContext calls ResetReader on a canceled reader: the Swap ...          *)
ContextSwap(c) ==
  /\ pc[c] = "reset"
  /\ Swap(c, Dir(c))
  /\ IF canceled[Dir(c)]
     THEN pc' = [pc EXCEPT ![c] = "drain"] /\ UNCHANGED watch
     ELSE Proceed(c)
  /\ UNCHANGED <<job, ctx, len, out, part, cause, moved, streamVars>>

(* ... and the read of the byte.                                             *)
ContextDrain(c) ==
  /\ pc[c] = "drain"
  /\ ReadSignal(c, Dir(c))
  /\ Proceed(c)
  /\ UNCHANGED <<job, ctx, len, out, part, cause, moved, streamVars>>

(* Mutant: the watcher ends and cancels nothing.                             *)
WatchIgnored(c) ==
  /\ watch[c] = "fired"
  /\ watch' = [watch EXCEPT ![c] = "off"]
  /\ UNCHANGED <<signalVars, job, pc, ctx, len, out, part, cause, moved, streamVars>>

(* The watcher receives from ctx.Done() and calls CancelReads.               *)
WatchCancel(c) ==
  /\ watch[c] = "fired"
  /\ CompareAndSwap(c, Dir(c))
  /\ watch' = [watch EXCEPT ![c] = IF canceled[Dir(c)] THEN "off" ELSE "signaling"]
  /\ UNCHANGED <<job, pc, ctx, len, out, part, cause, moved, streamVars>>

WatchSignal(c) ==
  /\ watch[c] = "signaling"
  /\ WriteSignal(c, Dir(c))
  /\ watch' = [watch EXCEPT ![c] = "off"]
  /\ UNCHANGED <<job, pc, ctx, len, out, part, cause, moved, streamVars>>

-----------------------------------------------------------------------------
CallStep(c) ==
  \/ Check(c) \/ ContextSwap(c) \/ ContextDrain(c)
  \/ Return(c) /\ UNCHANGED signalVars

WatcherStep(c) ==
  \/ WatchCancel(c) \/ WatchSignal(c)
  \/ WatchStop(c) /\ UNCHANGED signalVars

MethodStep(x) ==
  \/ \E d \in Dirs : \/ CancelFlag(x, d) \/ CancelWrite(x, d)
                     \/ ResetFlag(x, d)  \/ ResetRead(x, d)
                     \/ \E e \in BothEnds : ClosePipe(x, d, e)
  \/ CloseObject(x)

PeerStep == Peer /\ UNCHANGED <<signalVars, opVars, job>>

(* Past its check of the flag, and not yet back at the caller.               *)
Ongoing(c) == pc[c] \in {"enter", "wait", "woken", "io", "join"}

(***************************************************************************)
(* Once the flag is set, a reader that is past its check of it returns,    *)
(* whatever the peer does (Cancel "cancels any ongoing ... calls",         *)
(* ctxio.go:45), also when the cancel is the first step of Close.          *)
(***************************************************************************)
CancelEndsReads ==
  \A c \in Readers : (Ongoing(c) /\ canceled["read"]) ~> pc[c] = "idle"

(***************************************************************************)
(* No wake-up is lost and none is stale: while an operation is past its    *)
(* check and its pipe is open, an expired context is with the watcher or   *)
(* has set the flag, and the flag is set exactly when its byte is in the   *)
(* pipe or about to be written, so that the wait ends for a cancel and for *)
(* nothing an earlier cancel or reset left behind.                         *)
(***************************************************************************)
CancelReaches ==
  \A c \in Callers :
    pc[c] \in {"enter", "wait", "woken", "io"} /\ ends[Dir(c)] = BothEnds =>
      /\ ctx[c] = "done" => watch[c] = "fired" \/ canceled[Dir(c)]
      /\ canceled[Dir(c)] <=> pipe[Dir(c)] > 0 \/ signaling[Dir(c)] # {}

=============================================================================
