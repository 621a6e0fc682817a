------------------------------ MODULE DeadlineIO ------------------------------
(***************************************************************************)
(* The deadline backend (ctxio_deadline.go).  A cancel stores the flag and *)
(* then sets a deadline in the past; a reset stores the flag and clears    *)
(* the deadline; and read and write clear the deadline once more before    *)
(* they call d.Read or d.Write.  Each of these is a step of its own.       *)
(***************************************************************************)
EXTENDS FlagIO

VARIABLE deadline  \* deadline[d]: "none" or "past"

deadlineVars == <<canceled, deadline>>

vars == <<opVars, job, streamVars, deadlineVars>>

Init ==
  /\ OperationInit /\ StreamInit /\ FlagInit
  /\ deadline = [d \in Directions |-> "none"]

-----------------------------------------------------------------------------
(* CancelReads, CancelWrites: after the store, SetReadDeadline(now).         *)
CancelFlag(x, d) ==
  /\ CancelStore(x, d, <<Step("past", d)>>)
  /\ UNCHANGED deadline

CancelDeadline(x, d) ==
  /\ At(x, "past", d)
  /\ deadline' = [deadline EXCEPT ![d] = "past"]
  /\ Advance(x)
  /\ UNCHANGED <<opVars, streamVars, canceled>>

(* ResetReader, ResetWriter: after the store, SetReadDeadline(zero).         *)
ResetFlag(x, d) ==
  /\ ResetStore(x, d, <<Step("zero", d)>>)
  /\ UNCHANGED deadline

ResetDeadline(x, d) ==
  /\ At(x, "zero", d)
  /\ deadline' = [deadline EXCEPT ![d] = "none"]
  /\ Advance(x)
  /\ UNCHANGED <<opVars, streamVars, canceled>>

(* Close cancels and closes the wrapped object.                              *)
Close == Cancel \o <<Step("object", "read")>>

CloseObject(x) ==
  /\ At(x, "object", "read")
  /\ CloseStream
  /\ Advance(x)
  /\ UNCHANGED <<opVars, deadlineVars>>

-----------------------------------------------------------------------------
(* A call of one of the four operations.                                     *)
BeginOperation(c) ==
  /\ \E k \in {"none", "live"}, l \in Lengths(c) :
       Begin(c, k, l, k = "none" /\ canceled[Dir(c)])
  /\ UNCHANGED deadlineVars

(* ReadContext and WriteContext clear the deadline of a canceled direction.  *)
ContextDeadline(c) ==
  /\ ContextUndo(c)
  /\ deadline' = [deadline EXCEPT ![Dir(c)] = "none"]

(* The first statement of read and write, whatever happened since the check. *)
ClearDeadline(c) ==
  /\ pc[c] = "enter"
  /\ pc' = [pc EXCEPT ![c] = "io"]
  /\ deadline' = [deadline EXCEPT ![Dir(c)] = "none"]
  /\ UNCHANGED <<job, ctx, watch, len, out, part, cause, moved, streamVars, canceled>>

(* d.Read and d.Write without a timeout.                                     *)
Read(c) ==
  /\ RwRead(c, len[c])
  /\ UNCHANGED deadlineVars

WriteSome(c) ==
  /\ RwWriteSome(c, len[c])
  /\ UNCHANGED deadlineVars

WriteReturn(c) ==
  /\ \/ WroteAll(c, len[c]) /\ Settled(c, "nil", part[c])
     \/ WriteFails(c, len[c]) /\ Settled(c, "error", part[c])
  /\ UNCHANGED <<job, ctx, watch, len, part, cause, moved, streamVars, deadlineVars>>

(* d.Read or d.Write returns a timeout ...                                   *)
TimeOut(c) ==
  /\ pc[c] = "io" /\ rwOpen
  /\ deadline[Dir(c)] = "past"
  /\ pc' = [pc EXCEPT ![c] = "late"]
  /\ UNCHANGED <<job, ctx, watch, len, out, part, cause, moved, streamVars,
                 deadlineVars>>

(* Mutants: every timeout is ErrCanceled, none is, or it has a type of its own. *)
LateCanceled(c) ==
  /\ pc[c] = "late"
  /\ Settled(c, "canceled", 0)
  /\ UNCHANGED <<job, ctx, watch, len, part, cause, moved, streamVars, deadlineVars>>

LateError(c) ==
  /\ pc[c] = "late"
  /\ Settled(c, "error", part[c])
  /\ UNCHANGED <<job, ctx, watch, len, part, cause, moved, streamVars, deadlineVars>>

LateTimeout(c) ==
  /\ pc[c] = "late"
  /\ Settled(c, IF canceled[Dir(c)] THEN "canceled" ELSE "timeout", part[c])
  /\ UNCHANGED <<job, ctx, watch, len, part, cause, moved, streamVars, deadlineVars>>

(* ... which is ErrCanceled when the flag is set, with no bytes reported.    *)
Late(c) ==
  /\ pc[c] = "late"
  /\ IF canceled[Dir(c)] THEN Settled(c, "canceled", 0)
                         ELSE Settled(c, "error", part[c])
  /\ UNCHANGED <<job, ctx, watch, len, part, cause, moved, streamVars, deadlineVars>>

(* The watcher's CancelReads sets the deadline.                              *)
WatchDeadline(c) ==
  /\ WatchGoesOn(c, "signaling", "off")
  /\ deadline' = [deadline EXCEPT ![Dir(c)] = "past"]
  /\ UNCHANGED <<cause, streamVars>>

-----------------------------------------------------------------------------
(* The four operations, the watcher and the explicit methods.                *)
Operate(c) ==
  \/ (Check(c) \/ ContextStore(c)) /\ UNCHANGED deadline
  \/ ContextDeadline(c) \/ ClearDeadline(c)
  \/ Read(c) \/ WriteSome(c) \/ WriteReturn(c) \/ TimeOut(c) \/ Late(c)
  \/ Return(c) /\ UNCHANGED deadlineVars

Watch(c) ==
  \/ WatchStore(c) /\ UNCHANGED deadline
  \/ WatchDeadline(c)
  \/ WatchStop(c) /\ UNCHANGED deadlineVars

Manage(x) ==
  \/ \E d \in Directions : \/ CancelFlag(x, d) \/ CancelDeadline(x, d)
                           \/ ResetFlag(x, d)  \/ ResetDeadline(x, d)
  \/ CloseObject(x)

System ==
  \/ \E c \in Callers : Operate(c) \/ Watch(c)
  \/ \E x \in Cancelers : Manage(x)

Environment ==
  \/ \E c \in Callers : \/ BeginOperation(c)
                        \/ Expire(c) /\ UNCHANGED deadlineVars
  \/ \E x \in Cancelers, s \in Methods :
       StartMethod(x, s) /\ UNCHANGED deadlineVars
  \/ Peer /\ UNCHANGED <<opVars, job, deadlineVars>>

UserClose ==
  \E x \in Cancelers : StartMethod(x, Close) /\ UNCHANGED deadlineVars

Next == System \/ Environment \/ UserClose

Spec == Init /\ [][Next]_vars

(* Goroutines run; nobody has to call anything and the peer owes nothing.    *)
Fairness ==
  /\ \A c \in Callers : WF_vars(Operate(c)) /\ WF_vars(Watch(c))
  /\ \A x \in Cancelers : WF_vars(Manage(x))

FairSpec == Spec /\ Fairness

-----------------------------------------------------------------------------
TypeOK ==
  /\ OperationTypeOK /\ StreamTypeOK
  /\ JobTypeOK({"cancel", "past", "reset", "zero", "object"})
  /\ canceled \in [Directions -> BOOLEAN]
  /\ deadline \in [Directions -> {"none", "past"}]

=============================================================================
