------------------------------ MODULE WinConsoleIO ------------------------------
(***************************************************************************)
(* The console backend of Windows (ctxio_windows_console.go).  A read      *)
(* waits for CONIN$ or for the cancel event, an auto-reset event, and then *)
(* reads; CONIN$ is signaled by records that carry no character as well,   *)
(* on which the read may end empty, be aborted, or block.  A write goes    *)
(* straight to the writer, and nothing but the flag cancels it.            *)
(*                                                                         *)
(* avail counts the characters typed, space the room on the screen.        *)
(***************************************************************************)
EXTENDS WinRequest

CONSTANT MaxNoise   \* records without a character: a bound

VARIABLES event,   \* event[d]: readCancelEvent and writeCancelEvent
          halves,  \* conin # 0, writer # nil
          noise    \* records without a character in the input buffer

consoleVars == <<event, halves, noise>>

vars == <<opVars, job, streamVars, canceled, req, consoleVars>>

(* openConsoleReader, openConsoleWriter, and newWinConsoleIO or Console.     *)
Opened == {{"read"}, {"write"}, {"read", "write"}}

Init ==
  /\ OperationInit /\ StreamInit /\ FlagInit /\ RequestInit
  /\ event = [d \in Directions |-> "clear"]
  /\ halves \in Opened
  /\ noise = 0

-----------------------------------------------------------------------------
SetReadEvent ==
  event' = [event EXCEPT !["read"] = IF @ = "closed" THEN @ ELSE "set"]

ResetReadEvent ==
  event' = [event EXCEPT !["read"] = IF @ = "closed" THEN @ ELSE "clear"]

(* CancelReads: the store, then SetEvent, then CancelIoEx; CancelWrites: the *)
(* store.                                                                    *)
CancelFlag(x, d) ==
  /\ CancelStore(x, d, IF d = "read" THEN <<Step("signal", d), Step("abort", d)>>
                                     ELSE <<>>)
  /\ UNCHANGED <<req, consoleVars>>

CancelSignal(x) ==
  /\ At(x, "signal", "read")
  /\ SetReadEvent
  /\ GiveCause("read")
  /\ Advance(x)
  /\ UNCHANGED <<pc, ctx, watch, len, out, part, moved, streamVars, canceled, req,
                 halves, noise>>

CancelAbort(x) ==
  /\ At(x, "abort", "read")
  /\ Aborted(Readers)
  /\ GiveCause("read")
  /\ Advance(x)
  /\ UNCHANGED <<pc, ctx, watch, len, out, part, moved, streamVars, canceled,
                 consoleVars>>

(* ResetReader: the store, then ResetEvent; ResetWriter: the store.          *)
ResetFlag(x, d) ==
  /\ ResetStore(x, d, IF d = "read" THEN <<Step("zero", d)>> ELSE <<>>)
  /\ UNCHANGED <<req, consoleVars>>

ResetSignal(x) ==
  /\ At(x, "zero", "read")
  /\ ResetReadEvent
  /\ Advance(x)
  /\ UNCHANGED <<opVars, streamVars, canceled, req, halves, noise>>

(* Close cancels, closes the events, and then CONIN$ and the writer.         *)
Close ==
  Cancel \o <<Step("event", "read"), Step("event", "write"), Step("object", "read")>>

CloseEvent(x, d) ==
  /\ At(x, "event", d)
  /\ event' = [event EXCEPT ![d] = "closed"]
  /\ Advance(x)
  /\ UNCHANGED <<opVars, streamVars, canceled, req, halves, noise>>

CloseObject(x) ==
  /\ At(x, "object", "read")
  /\ CloseStream
  /\ Advance(x)
  /\ UNCHANGED <<opVars, canceled, req, consoleVars>>

-----------------------------------------------------------------------------
(* A call of one of the four operations; an event left over by a cancel that *)
(* a ReadContext reset in its middle ends a read without a reason of its own.*)
LeftOver == event["read"] = "set" /\ ~ canceled["read"]

BeginOperation(c) ==
  /\ \E k \in {"none", "live"}, l \in Lengths(c) :
       Begin(c, k, l, \/ k = "none" /\ canceled[Dir(c)]
                      \/ c \in Readers /\ LeftOver)
  /\ UNCHANGED <<canceled, req, consoleVars>>

ContextResetEvent(c) ==
  /\ ContextUndo(c)
  /\ IF c \in Readers THEN ResetReadEvent ELSE UNCHANGED event
  /\ UNCHANGED <<req, halves, noise>>

(* The first statement of read and write: an error without that half.        *)
Enter(c) ==
  /\ pc[c] = "enter"
  /\ IF Dir(c) \in halves
     THEN pc' = [pc EXCEPT ![c] = IF c \in Readers THEN "wait" ELSE "io"]
          /\ UNCHANGED out
     ELSE Settled(c, "error", 0)
  /\ UNCHANGED <<job, ctx, watch, len, part, cause, moved, streamVars, canceled,
                 req, consoleVars>>

(* WaitForMultipleObjects: CONIN$ counts before the event.                   *)
InputSignaled == avail > 0 \/ noise > 0

Wait(c) ==
  /\ pc[c] = "wait" /\ c \in Readers
  /\ \/ /\ event["read"] # "closed" /\ rwOpen /\ InputSignaled
        /\ pc' = [pc EXCEPT ![c] = "woken"]
        /\ UNCHANGED <<out, event>>
     \/ /\ event["read"] = "set" /\ rwOpen /\ ~ InputSignaled
        /\ Settled(c, "canceled", 0)
        /\ ResetReadEvent
     \/ /\ event["read"] = "closed" \/ ~ rwOpen
        /\ Settled(c, "error", 0)
        /\ UNCHANGED event
  /\ UNCHANGED <<job, ctx, watch, len, part, cause, moved, streamVars, canceled,
                 req, halves, noise>>

(* The flag is tested once more before overlappedRead.                       *)
Issue(c) ==
  /\ pc[c] = "woken"
  /\ IF canceled["read"]
     THEN Settled(c, "canceled", 0) /\ UNCHANGED req
     ELSE pc' = [pc EXCEPT ![c] = "io"] /\ Issued(c) /\ UNCHANGED out
  /\ UNCHANGED <<job, ctx, watch, len, part, cause, moved, streamVars, canceled,
                 consoleVars>>

(* Mutant: the flag is tested after every read.                              *)
ReadThenCheck(c) ==
  /\ pc[c] = "io" /\ Ended(c)
  /\ IF canceled["read"] THEN Settled(c, "canceled", 0)
     ELSE IF req[c].err = "aborted" \/ (req[c].err = "nil" /\ req[c].n = 0)
     THEN pc' = [pc EXCEPT ![c] = "wait"] /\ UNCHANGED out
     ELSE SettledAs(c, req[c])
  /\ Taken(c)
  /\ UNCHANGED <<job, ctx, watch, len, part, cause, moved, streamVars, canceled,
                 consoleVars>>

(* overlappedRead returns; the loop goes on when it was aborted without the  *)
(* flag, and when it came back with nothing.                                 *)
Read(c) ==
  /\ pc[c] = "io" /\ Ended(c)
  /\ IF \/ req[c].err = "aborted" /\ ~ canceled["read"]
        \/ req[c].err = "nil" /\ req[c].n = 0
     THEN pc' = [pc EXCEPT ![c] = "wait"] /\ UNCHANGED out
     ELSE SettledAs(c, req[c])
  /\ Taken(c)
  /\ UNCHANGED <<job, ctx, watch, len, part, cause, moved, streamVars, canceled,
                 consoleVars>>

(* The writer's Write.                                                       *)
WriteSome(c) ==
  /\ RwWriteSome(c, len[c])
  /\ UNCHANGED <<canceled, req, consoleVars>>

WriteReturn(c) ==
  /\ \/ WroteAll(c, len[c]) /\ Settled(c, "nil", part[c])
     \/ WriteFails(c, len[c]) /\ Settled(c, "error", part[c])
  /\ UNCHANGED <<job, ctx, watch, len, part, cause, moved, streamVars, canceled,
                 req, consoleVars>>

(* The console takes a record without a character off the buffer for a read: *)
(* it ends empty, is aborted, or goes on waiting.                            *)
Swallow(c) ==
  /\ Pending(c) /\ avail = 0 /\ noise > 0 /\ rwOpen
  /\ noise' = noise - 1
  /\ \/ req' = [req EXCEPT ![c] = Done("nil", 0)]
     \/ req' = [req EXCEPT ![c] = Done("aborted", 0)]
     \/ UNCHANGED req
  /\ UNCHANGED <<opVars, job, streamVars, canceled, event, halves>>

Serve(c) ==
  \/ Kernel(c) /\ UNCHANGED <<canceled, consoleVars>>
  \/ Swallow(c)

(* The watcher's CancelReads; its CancelWrites is no more than the store.    *)
WatchSetEvent(c) ==
  /\ c \in Readers
  /\ WatchGoesOn(c, "signaling", "aborting")
  /\ SetReadEvent
  /\ UNCHANGED <<cause, streamVars, req, halves, noise>>

WatchAbort(c) ==
  /\ WatchGoesOn(c, IF c \in Readers THEN "aborting" ELSE "signaling", "off")
  /\ IF c \in Readers THEN Aborted(Readers) ELSE UNCHANGED req
  /\ UNCHANGED <<cause, streamVars, consoleVars>>

-----------------------------------------------------------------------------
(* The four operations, the watcher and the explicit methods.                *)
Operate(c) ==
  \/ (Check(c) \/ ContextStore(c)) /\ UNCHANGED <<req, consoleVars>>
  \/ ContextResetEvent(c) \/ Enter(c)
  \/ Wait(c) \/ Issue(c) \/ Read(c)
  \/ WriteSome(c) \/ WriteReturn(c)
  \/ Return(c) /\ UNCHANGED <<canceled, req, consoleVars>>

Watch(c) ==
  \/ WatchStore(c) /\ UNCHANGED <<req, consoleVars>>
  \/ WatchSetEvent(c) \/ WatchAbort(c)
  \/ WatchStop(c) /\ UNCHANGED <<canceled, req, consoleVars>>

Manage(x) ==
  \/ \E d \in Directions : CancelFlag(x, d) \/ ResetFlag(x, d) \/ CloseEvent(x, d)
  \/ CancelSignal(x) \/ CancelAbort(x) \/ ResetSignal(x) \/ CloseObject(x)

System ==
  \/ \E c \in Callers : Operate(c) \/ Watch(c) \/ Serve(c)
  \/ \E x \in Cancelers : Manage(x)

(* A mouse moves, a window is resized or gets the focus.                     *)
Fidget ==
  /\ noise < MaxNoise
  /\ noise' = noise + 1
  /\ UNCHANGED <<opVars, job, streamVars, canceled, req, event, halves>>

Environment ==
  \/ \E c \in Callers : \/ BeginOperation(c)
                        \/ Expire(c) /\ UNCHANGED <<canceled, req, consoleVars>>
  \/ \E x \in Cancelers, s \in Methods \cup {Close} :
       StartMethod(x, s) /\ UNCHANGED <<canceled, req, consoleVars>>
  \/ (Arrive \/ Leave) /\ UNCHANGED <<opVars, job, canceled, req, consoleVars>>
  \/ Fidget

Next == System \/ Environment

Spec == Init /\ [][Next]_vars

(* Goroutines run.                                                           *)
Fairness ==
  /\ \A c \in Callers : WF_vars(Operate(c)) /\ WF_vars(Watch(c))
  /\ \A x \in Cancelers : WF_vars(Manage(x))

FairSpec == Spec /\ Fairness

-----------------------------------------------------------------------------
TypeOK ==
  /\ OperationTypeOK /\ StreamTypeOK /\ RequestTypeOK
  /\ JobTypeOK({"cancel", "signal", "abort", "reset", "zero", "event", "object"})
  /\ canceled \in [Directions -> BOOLEAN]
  /\ event \in [Directions -> {"clear", "set", "closed"}]
  /\ halves \in Opened
  /\ noise \in 0..MaxNoise

=============================================================================
