------------------------------- MODULE ContextIO -------------------------------
(***************************************************************************)
(* What the ContextIO interface promises to every goroutine that calls one *)
(* of its four operations, whatever the backend: an operation moves bytes  *)
(* while it is in progress, fails with ErrCanceled only when there was a   *)
(* reason to cancel it, and reports exactly the bytes it moved.  The       *)
(* backends are shown to implement this module, each with the errors on    *)
(* which it drops the count.                                               *)
(***************************************************************************)
EXTENDS Naturals

CONSTANTS Callers,  \* goroutines that call Read, ReadContext, Write, WriteContext
          Forgets,  \* Forgets[c]: the errors with which 0 bytes may be reported
          Steps     \* the numbers of bytes one step may move, 0 among them

VARIABLES phase,   \* phase[c]: "idle", "busy", "done"
          cause,   \* cause[c]: the operation may be canceled: its context is
                   \*   done, Cancel was called, or the reader was canceled
                   \*   before and never reset
          moved,   \* moved[c]: bytes the operation took from or gave to the object
          out      \* out[c]: the error and the count of the last operation

contextVars == <<phase, cause, moved, out>>

Errors == {"nil", "canceled", "eof", "error"}

NoResult == [err |-> "nil", n |-> 0]

ContextInit ==
  /\ phase = [c \in Callers |-> "idle"]
  /\ cause \in [Callers -> BOOLEAN]
  /\ moved = [c \in Callers |-> 0]
  /\ out   = [c \in Callers |-> NoResult]

(* A call; a Read on a canceled ContextIO has a cause from the start.        *)
Call(c) ==
  /\ phase[c] = "idle"
  /\ phase' = [phase EXCEPT ![c] = "busy"]
  /\ \E b \in BOOLEAN : cause' = [cause EXCEPT ![c] = b]
  /\ moved' = [moved EXCEPT ![c] = 0]
  /\ out' = [out EXCEPT ![c] = NoResult]

(* A context expires or somebody cancels.                                    *)
Disturb ==
  /\ \E S \in SUBSET Callers :
       cause' = [c \in Callers |-> cause[c] \/ c \in S]
  /\ UNCHANGED <<phase, moved, out>>

Transfer(c, k) ==
  /\ phase[c] = "busy"
  /\ moved' = [moved EXCEPT ![c] = @ + k]
  /\ UNCHANGED <<phase, cause, out>>

(* The result is settled, with the last bytes if any.                        *)
Settle(c, k, err) ==
  /\ phase[c] = "busy"
  /\ err = "canceled" => cause[c]
  /\ phase' = [phase EXCEPT ![c] = "done"]
  /\ moved' = [moved EXCEPT ![c] = @ + k]
  /\ \/ out' = [out EXCEPT ![c] = [err |-> err, n |-> moved[c] + k]]
     \/ /\ err \in Forgets[c]
        /\ out' = [out EXCEPT ![c] = [err |-> err, n |-> 0]]
  /\ UNCHANGED cause

(* The call returns to its caller.                                           *)
Finish(c) ==
  /\ phase[c] = "done"
  /\ phase' = [phase EXCEPT ![c] = "idle"]
  /\ UNCHANGED <<cause, moved, out>>

ContextNext ==
  \/ Disturb
  \/ \E c \in Callers :
       \/ Call(c)
       \/ Finish(c)
       \/ \E k \in Steps : \/ Transfer(c, k)
                           \/ \E err \in Errors : Settle(c, k, err)

ContextSpec == ContextInit /\ [][ContextNext]_contextVars

=============================================================================
