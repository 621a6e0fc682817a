-------------------------------- MODULE CloseIO --------------------------------
(***************************************************************************)
(* The closable backend (ctxio_closable.go).  A cancel stores the flag of  *)
(* its direction and closes the wrapped object, which ends the operations  *)
(* of both directions; a mutex and a flag keep it from being closed twice. *)
(* A reset clears the flag and leaves the object closed.                   *)
(***************************************************************************)
EXTENDS FlagIO

VARIABLES halves,    \* the directions that are wrapped: c.r, c.w are not nil
          closed,    \* the flag the mutex guards
          closes,    \* history: calls of closer.Close()
          failed     \* failed[c]: the error c.r.Read or c.w.Write returned

guardVars == <<closed, closes>>

closeVars == <<halves, canceled, guardVars, failed>>

vars == <<opVars, job, streamVars, closeVars>>

(* WrapClosableReader, WrapClosableWriter and WrapClosableReadWriter.        *)
Wrapped == {{"read"}, {"write"}, {"read", "write"}}

Init ==
  /\ OperationInit /\ StreamInit /\ FlagInit
  /\ halves \in Wrapped
  /\ closed = FALSE
  /\ closes = 0
  /\ failed = [c \in Callers |-> "error"]

-----------------------------------------------------------------------------
(* Mutant: close() without the test of the flag.                             *)
CloseAlways ==
  /\ closed' = TRUE
  /\ closes' = closes + 1
  /\ CloseStream

(* close(): the whole of it under the mutex.                                 *)
CloseOnce ==
  /\ closed' = TRUE
  /\ IF closed THEN UNCHANGED <<closes, streamVars>>
               ELSE closes' = closes + 1 /\ CloseStream

(* CancelReads, CancelWrites: after the store, close().                      *)
CancelFlag(x, d) ==
  /\ CancelStore(x, d, <<Step("close", d)>>)
  /\ UNCHANGED <<guardVars, failed, halves>>

CancelClose(x, d) ==
  /\ At(x, "close", d)
  /\ CloseOnce
  /\ Advance(x)
  /\ UNCHANGED <<opVars, canceled, failed, halves>>

(* ResetReader, ResetWriter: the object stays closed.                        *)
ResetFlag(x, d) ==
  /\ ResetStore(x, d, <<>>)
  /\ UNCHANGED <<guardVars, failed, halves>>

(* Close cancels and closes once more.                                       *)
Close == Cancel \o <<Step("close", "read")>>

-----------------------------------------------------------------------------
(* A call of one of the four operations; none of them resets the flag.       *)
BeginOperation(c) ==
  /\ \E k \in {"none", "live"}, l \in Lengths(c) :
       Begin(c, k, l, canceled[Dir(c)])
  /\ UNCHANGED closeVars

(* The tests of ctx.Err() and of the flag, which also ends ReadContext.      *)
CheckFlag(c) ==
  /\ pc[c] = "check"
  /\ IF ctx[c] = "done" \/ canceled[Dir(c)]
     THEN Settled(c, "canceled", 0) /\ UNCHANGED watch
     ELSE Proceed(c) /\ UNCHANGED out
  /\ UNCHANGED <<job, ctx, len, part, cause, moved, streamVars, closeVars>>

(* The first statement of read and write: ErrNotSupported without a half.    *)
Enter(c) ==
  /\ pc[c] = "enter"
  /\ IF Dir(c) \in halves
     THEN pc' = [pc EXCEPT ![c] = "io"] /\ UNCHANGED out
     ELSE Settled(c, "error", 0)
  /\ UNCHANGED <<job, ctx, watch, len, part, cause, moved, streamVars, closeVars>>

(* c.r.Read and c.w.Write: without an error their results are returned.      *)
Read(c) ==
  /\ RwReadData(c, len[c])
  /\ UNCHANGED closeVars

WriteSome(c) ==
  /\ RwWriteSome(c, len[c])
  /\ UNCHANGED closeVars

WriteReturn(c) ==
  /\ WroteAll(c, len[c])
  /\ Settled(c, "nil", part[c])
  /\ UNCHANGED <<job, ctx, watch, len, part, cause, moved, streamVars, closeVars>>

(* With an error, the flag is looked at afterwards ...                       *)
Fail(c) ==
  /\ \E err \in {"eof", "error"} :
       /\ ReadFails(c, err) \/ (WriteFails(c, len[c]) /\ err = "error")
       /\ failed' = [failed EXCEPT ![c] = err]
  /\ pc' = [pc EXCEPT ![c] = "late"]
  /\ UNCHANGED <<job, ctx, watch, len, out, part, cause, moved, streamVars,
                 canceled, guardVars, halves>>

(* ... and makes any error ErrCanceled.                                      *)
Late(c) ==
  /\ pc[c] = "late"
  /\ IF canceled[Dir(c)] THEN Settled(c, "canceled", 0)
                         ELSE Settled(c, failed[c], part[c])
  /\ UNCHANGED <<job, ctx, watch, len, part, cause, moved, streamVars, closeVars>>

(* The watcher's CancelReads closes the object.                              *)
WatchClose(c) ==
  /\ WatchGoesOn(c, "signaling", "off")
  /\ CloseOnce
  /\ UNCHANGED <<cause, failed, halves>>

-----------------------------------------------------------------------------
(* The four operations, the watcher and the explicit methods.                *)
Operate(c) ==
  \/ CheckFlag(c) \/ Enter(c) \/ Read(c) \/ WriteSome(c) \/ WriteReturn(c)
  \/ Fail(c) \/ Late(c)
  \/ Return(c) /\ UNCHANGED closeVars

Watch(c) ==
  \/ WatchStore(c) /\ UNCHANGED <<guardVars, failed, halves>>
  \/ WatchClose(c)
  \/ WatchStop(c) /\ UNCHANGED closeVars

Manage(x) ==
  \E d \in Directions : CancelFlag(x, d) \/ CancelClose(x, d) \/ ResetFlag(x, d)

System ==
  \/ \E c \in Callers : Operate(c) \/ Watch(c)
  \/ \E x \in Cancelers : Manage(x)

Use ==
  \/ \E c \in Callers : \/ BeginOperation(c)
                        \/ Expire(c) /\ UNCHANGED closeVars
  \/ Peer /\ UNCHANGED <<opVars, job, closeVars>>

UserMethod(ms) ==
  \E x \in Cancelers, s \in ms : StartMethod(x, s) /\ UNCHANGED closeVars

Next == System \/ Use \/ UserMethod(Methods \cup {Close})

Spec == Init /\ [][Next]_vars

(* Goroutines run; nobody has to call anything and the peer owes nothing.    *)
Fairness ==
  /\ \A c \in Callers : WF_vars(Operate(c)) /\ WF_vars(Watch(c))
  /\ \A x \in Cancelers : WF_vars(Manage(x))

FairSpec == Spec /\ Fairness

-----------------------------------------------------------------------------
TypeOK ==
  /\ OperationTypeOK /\ StreamTypeOK
  /\ JobTypeOK({"cancel", "close", "reset"})
  /\ halves \in Wrapped
  /\ canceled \in [Directions -> BOOLEAN]
  /\ closed \in BOOLEAN
  /\ closes \in Nat
  /\ failed \in [Callers -> {"eof", "error"}]

(***************************************************************************)
(* Watchers, cancelers and Close race to close the object and it is closed *)
(* once (lines 165-177).                                                   *)
(***************************************************************************)
ClosedOnce == closes = (IF rwOpen THEN 0 ELSE 1)

=============================================================================
