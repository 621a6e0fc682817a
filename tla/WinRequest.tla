------------------------------ MODULE WinRequest ------------------------------
(***************************************************************************)
(* The I/O requests of the Windows backends: ReadFile and WriteFile hand   *)
(* the buffer to the kernel, which moves bytes whenever it can and ends    *)
(* the request with a result, until CancelIoEx or CancelSynchronousIo      *)
(* aborts it.  None of it is this repository's code; it is what the        *)
(* backends rely on.  A closed pipe is ERROR_BROKEN_PIPE to ReadFile, and  *)
(* the backends pass it on: there is no io.EOF.                            *)
(***************************************************************************)
EXTENDS FlagIO

VARIABLE req  \* req[c]: the request of caller c and its result

NoRequest == [st |-> "none", err |-> "nil", n |-> 0]

RequestInit == req = [c \in Callers |-> NoRequest]

Pending(c) == req[c].st = "pending"

Ended(c) == req[c].st = "done"

Done(err, k) == [st |-> "done", err |-> err, n |-> k]

(* ReadFile, WriteFile; a call that completes at once is one whose request   *)
(* has ended before anybody looks.                                           *)
Issued(c) ==
  req' = [req EXCEPT ![c] = IF rwOpen THEN [NoRequest EXCEPT !.st = "pending"]
                                      ELSE Done("error", 0)]

(* CancelIoEx, CancelSynchronousIo: the pending requests of the callers S.   *)
Aborted(S) ==
  req' = [c \in Callers |-> IF c \in S /\ Pending(c) THEN Done("aborted", 0)
                                                     ELSE req[c]]

(* The kernel takes bytes for a read ...                                     *)
Fill(c) ==
  /\ Pending(c) /\ c \in Readers /\ rwOpen
  /\ \E k \in 1..Least(len[c], avail) :
       /\ avail' = avail - k
       /\ moved' = [moved EXCEPT ![c] = k]
       /\ req' = [req EXCEPT ![c] = Done("nil", k)]
  /\ UNCHANGED <<pc, ctx, watch, len, out, part, cause, job, space, peer, rwOpen>>

(* ... and gives those of a write, until all are written.                    *)
Flush(c) ==
  /\ Pending(c) /\ c \in Writers /\ rwOpen /\ peer = "open"
  /\ \E k \in 0..Least(len[c] - part[c], space) :
       /\ k = 0 => len[c] = 0
       /\ space' = space - k
       /\ part'  = [part EXCEPT ![c] = @ + k]
       /\ moved' = [moved EXCEPT ![c] = @ + k]
       /\ req' = IF part[c] + k = len[c]
                 THEN [req EXCEPT ![c] = Done("nil", len[c])] ELSE req
  /\ UNCHANGED <<pc, ctx, watch, len, out, cause, job, avail, peer, rwOpen>>

(* The other end is gone, or the handle.                                     *)
Break(c) ==
  /\ Pending(c)
  /\ \/ ~ rwOpen
     \/ peer = "closed" /\ (c \in Readers => avail = 0)
  /\ req' = [req EXCEPT ![c] = Done("error", part[c])]
  /\ UNCHANGED <<opVars, job, streamVars>>

Kernel(c) == Fill(c) \/ Flush(c) \/ Break(c)

(* What a backend makes of the result: ERROR_OPERATION_ABORTED is            *)
(* ErrCanceled, and everything else is returned as it is.                    *)
SettledAs(c, r) ==
  IF r.err = "aborted" THEN Settled(c, "canceled", 0) ELSE Settled(c, r.err, r.n)

Taken(c) == req' = [req EXCEPT ![c] = NoRequest]

RequestTypeOK ==
  req \in [Callers -> [st  : {"none", "pending", "done"},
                       err : {"nil", "error", "aborted"}, n : 0..MaxLen]]

=============================================================================
