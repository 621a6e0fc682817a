------------------------------- MODULE SelectIO -------------------------------
(***************************************************************************)
(* The select backend (ctxio_select.go).  Every call of select builds its  *)
(* descriptor sets anew from the numbers of the descriptors, and looks at  *)
(* the cancel pipe before it looks at the object; a write is one rw.Write  *)
(* of the whole buffer.                                                    *)
(***************************************************************************)
EXTENDS SignalIO

VARIABLE abort   \* abort[c]: abort.Fd() was a descriptor when select was called

vars == <<signalVars, opVars, job, streamVars, abort>>

Init ==
  /\ SignalInit /\ OperationInit /\ StreamInit
  /\ abort = [c \in Callers |-> TRUE]

(* Close closes the pipes and the object; there is no other descriptor.      *)
Close == Cancel \o ClosePipes

-----------------------------------------------------------------------------
(* waitForRead, waitForWrite up to the call of select, which fails on a      *)
(* closed descriptor.                                                        *)
EnterSelect(c) ==
  /\ pc[c] = "enter"
  /\ IF rwOpen THEN pc' = [pc EXCEPT ![c] = "wait"] /\ UNCHANGED out
               ELSE Settled(c, "error", 0)
  /\ abort' = [abort EXCEPT ![c] = "reader" \in ends[Dir(c)]]
  /\ UNCHANGED <<signalVars, job, ctx, watch, len, part, cause, moved,
                 streamVars>>

(* Mutant: a pipe that is closed under the select does not wake it.          *)
ByteOnly(c) == abort[c] /\ SignalReady(Dir(c))

(* What select marks: the byte or the hang-up wakes it, and a pipe that is   *)
(* closed by the time it looks is marked as well, as invalid.  The close of  *)
(* the object alone does not wake it.                                        *)
AbortSet(c) ==
  abort[c] /\ (SignalReady(Dir(c)) \/ "reader" \notin ends[Dir(c)])

ObjectSet(d) == rwOpen /\ IF d = "read" THEN Readable ELSE Writable

(* Mutant: the object is looked at before the cancel pipe.                   *)
SelectDataFirst(c) ==
  /\ pc[c] = "wait"
  /\ \/ /\ ObjectSet(Dir(c))
        /\ pc' = [pc EXCEPT ![c] = "io"]
        /\ UNCHANGED out
     \/ ~ ObjectSet(Dir(c)) /\ AbortSet(c) /\ Settled(c, "canceled", 0)
  /\ UNCHANGED <<signalVars, job, ctx, watch, len, part, cause, moved,
                 streamVars, abort>>

(* select returns: a cancel comes before data that is ready as well.         *)
Select(c) ==
  /\ pc[c] = "wait"
  /\ \/ AbortSet(c) /\ Settled(c, "canceled", 0)
     \/ /\ ~ AbortSet(c) /\ ObjectSet(Dir(c))
        /\ pc' = [pc EXCEPT ![c] = "io"]
        /\ UNCHANGED out
  /\ UNCHANGED <<signalVars, job, ctx, watch, len, part, cause, moved,
                 streamVars, abort>>

(* return r.rw.Read(data)                                                    *)
Read(c) ==
  /\ RwRead(c, len[c])
  /\ UNCHANGED <<signalVars, abort>>

(* return r.rw.Write(data)                                                   *)
WriteSome(c) ==
  /\ RwWriteSome(c, len[c])
  /\ UNCHANGED <<signalVars, abort>>

WriteReturn(c) ==
  /\ \/ WroteAll(c, len[c]) /\ Settled(c, "nil", part[c])
     \/ WriteFails(c, len[c]) /\ Settled(c, "error", part[c])
  /\ UNCHANGED <<signalVars, job, ctx, watch, len, part, cause, moved,
                 streamVars, abort>>

-----------------------------------------------------------------------------
(* The four operations, the watcher and the explicit methods.                *)
Operate(c) ==
  \/ EnterSelect(c) \/ Select(c)
  \/ Read(c) \/ WriteSome(c) \/ WriteReturn(c)
  \/ CallStep(c) /\ UNCHANGED abort

Watch(c) == WatcherStep(c) /\ UNCHANGED abort

Manage(x) == MethodStep(x) /\ UNCHANGED abort

System ==
  \/ \E c \in Callers : Operate(c) \/ Watch(c)
  \/ \E x \in Cancelers : Manage(x)

Environment ==
  \/ \E c \in Callers : \/ BeginOperation(c) /\ UNCHANGED abort
                        \/ Expire(c) /\ UNCHANGED <<signalVars, abort>>
  \/ \E x \in Cancelers, s \in Methods :
       StartMethod(x, s) /\ UNCHANGED <<signalVars, abort>>
  \/ PeerStep /\ UNCHANGED abort

UserClose ==
  \E x \in Cancelers :
    StartMethod(x, Close) /\ UNCHANGED <<signalVars, abort>>

Next == System \/ Environment \/ UserClose

Spec == Init /\ [][Next]_vars

(* Goroutines run; nobody has to call anything and the peer owes nothing.    *)
Fairness ==
  /\ \A c \in Callers : WF_vars(Operate(c)) /\ WF_vars(Watch(c))
  /\ \A x \in Cancelers : WF_vars(Manage(x))

FairSpec == Spec /\ Fairness

-----------------------------------------------------------------------------
TypeOK ==
  /\ SignalTypeOK /\ OperationTypeOK /\ StreamTypeOK
  /\ JobTypeOK({"cancel", "reset", "writer", "reader", "object"})
  /\ abort \in [Callers -> BOOLEAN]

(***************************************************************************)
(* An operation that begins after a cancel is over moves nothing: when the *)
(* flag is set and its byte is in the pipe, select reports the pipe first  *)
(* and rw.Read or rw.Write is not entered (lines 231-237, 258-264).        *)
(***************************************************************************)
CanceledFirst ==
  [][\A c \in Callers :
       pc[c] = "wait" /\ pc'[c] = "io" /\ abort[c]
         => ~ canceled[Dir(c)] \/ signaling[Dir(c)] # {}]_vars

(***************************************************************************)
(* A reader that waits when its direction is canceled returns, also when   *)
(* the cancel is the first step of Close and the pipe is closed before the *)
(* reader runs (lines 177-240).                                            *)
(***************************************************************************)
CancelEndsWaits ==
  \A c \in Readers :
    (pc[c] = "wait" /\ abort[c] /\ canceled["read"]) ~> pc[c] = "idle"

(***************************************************************************)
(* An operation whose context is done returns (ctxio.go:31 and 36),        *)
(* whatever the peer does, unless the object is closed while it waits or   *)
(* the peer leaves no room for the rest of a buffer that is in rw.Write:   *)
(* the descriptor was writable with less free than that (line 136).        *)
(***************************************************************************)
ExpiredEnds ==
  \A c \in Callers :
    (pc[c] # "idle" /\ ctx[c] = "done")
      ~> (pc[c] = "idle" \/ ~ rwOpen \/ RwWriteBlocked(c, len[c]))

=============================================================================
