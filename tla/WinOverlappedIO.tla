---------------------------- MODULE WinOverlappedIO ----------------------------
(***************************************************************************)
(* The overlapped backend of Windows (ctxio_windows_overlapped.go), for    *)
(* files and named pipes.  An operation issues an overlapped request and   *)
(* waits for its end or for the cancel event of its direction, an          *)
(* auto-reset event.  A cancel stores the flag, sets the event and aborts  *)
(* every request on the handle; a reset stores the flag and resets the     *)
(* event.                                                                  *)
(*                                                                         *)
(* A file is read and written at offsets of the backend's own: avail       *)
(* counts the bytes behind readOffset, space those that fit behind         *)
(* writeOffset, and only an operation that succeeds advances them.  A read *)
(* has taken its bytes when the offset is past them; those of a write are  *)
(* on the disk as soon as its request is served.                           *)
(***************************************************************************)
EXTENDS WinRequest

VARIABLES event,   \* event[d]: readCancel, writeCancel: "clear", "set", "closed"
          isFile   \* a file on a disk, not a named pipe

eventVars == <<event, isFile>>

vars == <<opVars, job, streamVars, canceled, req, eventVars>>

Init ==
  /\ OperationInit /\ StreamInit /\ FlagInit /\ RequestInit
  /\ event = [d \in Directions |-> "clear"]
  /\ isFile \in BOOLEAN

-----------------------------------------------------------------------------
SetEvent(d) ==
  event' = [event EXCEPT ![d] = IF @ = "closed" THEN @ ELSE "set"]

ResetEvent(d) ==
  event' = [event EXCEPT ![d] = IF @ = "closed" THEN @ ELSE "clear"]

(* A cancel of direction d is a reason for its operations to end for as long *)
(* as it lasts; the last step of it reaches both directions.                 *)
GiveCauseToAll ==
  cause' = [c \in Callers |-> cause[c] \/ pc[c] # "idle"]

(* CancelReads, CancelWrites: the store, then SetEvent, then CancelIoEx with *)
(* no request named.                                                         *)
CancelFlag(x, d) ==
  /\ CancelStore(x, d, <<Step("signal", d), Step("abort", d)>>)
  /\ UNCHANGED <<req, eventVars>>

CancelSignal(x, d) ==
  /\ At(x, "signal", d)
  /\ SetEvent(d)
  /\ GiveCause(d)
  /\ Advance(x)
  /\ UNCHANGED <<pc, ctx, watch, len, out, part, moved, streamVars, canceled,
                 req, isFile>>

CancelAbort(x, d) ==
  /\ At(x, "abort", d)
  /\ Aborted(Callers)
  /\ GiveCauseToAll
  /\ Advance(x)
  /\ UNCHANGED <<pc, ctx, watch, len, out, part, moved, streamVars, canceled,
                 eventVars>>

(* resetReader, resetWriter: the store, then ResetEvent.                     *)
ResetFlag(x, d) ==
  /\ ResetStore(x, d, <<Step("zero", d)>>)
  /\ UNCHANGED <<req, eventVars>>

ResetSignal(x, d) ==
  /\ At(x, "zero", d)
  /\ ResetEvent(d)
  /\ Advance(x)
  /\ UNCHANGED <<opVars, streamVars, canceled, req, isFile>>

(* Close cancels, closes the events, the handle if it is our own, the file.  *)
Close ==
  Cancel \o <<Step("event", "read"), Step("event", "write"), Step("object", "read")>>

CloseEvent(x, d) ==
  /\ At(x, "event", d)
  /\ event' = [event EXCEPT ![d] = "closed"]
  /\ Advance(x)
  /\ UNCHANGED <<opVars, streamVars, canceled, req, isFile>>

CloseObject(x) ==
  /\ At(x, "object", "read")
  /\ CloseStream
  /\ Advance(x)
  /\ UNCHANGED <<opVars, canceled, req, eventVars>>

-----------------------------------------------------------------------------
(* A call of one of the four operations.  An event that is set although the  *)
(* flag is not was left over by a cancel that a ReadContext reset in its     *)
(* middle, and ends an operation that has no reason of its own.              *)
LeftOver(d) == event[d] = "set" /\ ~ canceled[d]

BeginOperation(c) ==
  /\ \E k \in {"none", "live"}, l \in Lengths(c) :
       Begin(c, k, l, \/ k = "none" /\ canceled[Dir(c)]
                      \/ LeftOver(Dir(c)))
  /\ UNCHANGED <<canceled, req, eventVars>>

ContextResetEvent(c) ==
  /\ ContextUndo(c)
  /\ ResetEvent(Dir(c))
  /\ UNCHANGED <<req, isFile>>

(* overlappedIO begins: ReadFile or WriteFile.                               *)
Issue(c) ==
  /\ pc[c] = "enter"
  /\ pc' = [pc EXCEPT ![c] = "wait"]
  /\ Issued(c)
  /\ UNCHANGED <<job, ctx, watch, len, out, part, cause, moved, streamVars,
                 canceled, eventVars>>

(* The kernel serves a named pipe as it can; a request on a file ends at     *)
(* once, with an error at the end of the file or without room.  A write has  *)
(* moved its bytes then, whatever the operation makes of the request; a read *)
(* has left its own in the file.                                             *)
FileServed(c) ==
  /\ Pending(c)
  /\ LET most == IF c \in Readers THEN Least(len[c], avail)
                 ELSE IF len[c] <= space THEN len[c] ELSE 0
         done == IF rwOpen /\ (most > 0 \/ len[c] = 0) THEN Done("nil", most)
                                                       ELSE Done("error", 0)
     IN /\ req' = [req EXCEPT ![c] = done]
        /\ moved' = IF c \in Readers THEN moved ELSE [moved EXCEPT ![c] = done.n]
  /\ UNCHANGED <<pc, ctx, watch, len, out, part, cause, job, streamVars>>

Serve(c) ==
  /\ pc[c] \in {"wait", "woken"}
  /\ IF isFile THEN FileServed(c) ELSE Kernel(c)
  /\ UNCHANGED <<canceled, eventVars>>

(* readOffset += n, with which the bytes are taken, or writeOffset += n.     *)
Advances(c, k) ==
  /\ \/ /\ c \in Readers
        /\ avail' = avail - k /\ moved' = [moved EXCEPT ![c] = k]
        /\ UNCHANGED space
     \/ /\ c \in Writers
        /\ space' = space - k
        /\ UNCHANGED <<avail, moved>>
  /\ UNCHANGED <<peer, rwOpen>>

(* The request has ended, which counts before the cancel event.              *)
Complete(c) ==
  /\ pc[c] = "wait" /\ Ended(c)
  /\ SettledAs(c, req[c])
  /\ Taken(c)
  /\ IF isFile /\ req[c].err = "nil" THEN Advances(c, req[c].n)
                                     ELSE UNCHANGED <<moved, streamVars>>
  /\ UNCHANGED <<job, ctx, watch, len, part, cause, canceled, eventVars>>

(* Mutant: the wait takes the cancel event for the end of the request.       *)
WakeIgnores(c) ==
  /\ pc[c] = "wait" /\ Pending(c)
  /\ event[Dir(c)] = "set"
  /\ ResetEvent(Dir(c))
  /\ UNCHANGED <<opVars, job, streamVars, canceled, req, isFile>>

(* The wait takes the cancel event; with a closed one it fails, and the      *)
(* request stays behind, whatever becomes of it.                             *)
Wake(c) ==
  /\ pc[c] = "wait"
  /\ \/ /\ Pending(c) /\ event[Dir(c)] = "set"
        /\ pc' = [pc EXCEPT ![c] = "woken"]
        /\ ResetEvent(Dir(c))
        /\ UNCHANGED out
     \/ /\ event[Dir(c)] = "closed"
        /\ Settled(c, "error", 0)
        /\ UNCHANGED event
  /\ UNCHANGED <<job, ctx, watch, len, part, cause, moved, streamVars, canceled,
                 req, isFile>>

(* Mutant: the canceled request is not waited for.                           *)
GiveUp(c) ==
  /\ pc[c] = "woken"
  /\ Settled(c, "canceled", 0)
  /\ UNCHANGED <<job, ctx, watch, len, part, cause, moved, streamVars, canceled,
                 req, eventVars>>

(* CancelIoEx of the own request, and GetOverlappedResult waits for its end; *)
(* what it moved is dropped.                                                 *)
Drain(c) ==
  /\ pc[c] = "woken"
  /\ Settled(c, "canceled", 0)
  /\ Taken(c)
  /\ UNCHANGED <<job, ctx, watch, len, part, cause, moved, streamVars, canceled,
                 eventVars>>

(* The watcher's CancelReads.                                                *)
WatchSetEvent(c) ==
  /\ WatchGoesOn(c, "signaling", "aborting")
  /\ SetEvent(Dir(c))
  /\ UNCHANGED <<cause, streamVars, req, isFile>>

WatchAbort(c) ==
  /\ WatchGoesOn(c, "aborting", "off")
  /\ Aborted(Callers)
  /\ GiveCauseToAll
  /\ UNCHANGED <<streamVars, eventVars>>

-----------------------------------------------------------------------------
(* The four operations, the watcher and the explicit methods.                *)
Operate(c) ==
  \/ (Check(c) \/ ContextStore(c)) /\ UNCHANGED <<req, eventVars>>
  \/ ContextResetEvent(c) \/ Issue(c) \/ Complete(c) \/ Wake(c) \/ Drain(c)
  \/ Return(c) /\ UNCHANGED <<canceled, req, eventVars>>

Watch(c) ==
  \/ WatchStore(c) /\ UNCHANGED <<req, eventVars>>
  \/ WatchSetEvent(c) \/ WatchAbort(c)
  \/ WatchStop(c) /\ UNCHANGED <<canceled, req, eventVars>>

Manage(x) ==
  \/ \E d \in Directions : \/ CancelFlag(x, d) \/ CancelSignal(x, d)
                           \/ CancelAbort(x, d) \/ CloseEvent(x, d)
                           \/ ResetFlag(x, d) \/ ResetSignal(x, d)
  \/ CloseObject(x)

System ==
  \/ \E c \in Callers : Operate(c) \/ Watch(c) \/ Serve(c)
  \/ \E x \in Cancelers : Manage(x)

(* A file grows or gets room; it has no other end that could hang up.        *)
Environment ==
  \/ \E c \in Callers : \/ BeginOperation(c)
                        \/ Expire(c) /\ UNCHANGED <<canceled, req, eventVars>>
  \/ \E x \in Cancelers, s \in Methods \cup {Close} :
       StartMethod(x, s) /\ UNCHANGED <<canceled, req, eventVars>>
  \/ /\ Arrive \/ Leave \/ (HangUp /\ ~ isFile)
     /\ UNCHANGED <<opVars, job, canceled, req, eventVars>>

Next == System \/ Environment

Spec == Init /\ [][Next]_vars

(* Goroutines run; the kernel owes no bytes.                                 *)
Fairness ==
  /\ \A c \in Callers : WF_vars(Operate(c)) /\ WF_vars(Watch(c))
  /\ \A x \in Cancelers : WF_vars(Manage(x))

FairSpec == Spec /\ Fairness

-----------------------------------------------------------------------------
TypeOK ==
  /\ OperationTypeOK /\ StreamTypeOK /\ RequestTypeOK
  /\ JobTypeOK({"cancel", "signal", "abort", "reset", "zero", "event", "object"})
  /\ canceled \in [Directions -> BOOLEAN]
  /\ event \in [Directions -> {"clear", "set", "closed"}]
  /\ isFile \in BOOLEAN

(***************************************************************************)
(* The kernel holds the buffer of no operation that has returned (lines    *)
(* 211-218), unless Close closed the event the operation waits for.        *)
(***************************************************************************)
RequestsOwned ==
  \A c \in Callers :
    Pending(c) => pc[c] \in {"wait", "woken"} \/ event[Dir(c)] = "closed"

(***************************************************************************)
(* README.md:13-15: an operation is canceled without consuming data; that  *)
(* is, a read that returns ErrCanceled has taken nothing from the object.  *)
(***************************************************************************)
CanceledReadTakesNothing ==
  \A c \in Readers :
    pc[c] = "join" /\ out[c].err = "canceled" => moved[c] = 0

=============================================================================
