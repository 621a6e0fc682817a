------------------------------- MODULE KqueueIO -------------------------------
(***************************************************************************)
(* The kqueue backend (ctxio_bsd.go).  Both directions wait on the same    *)
(* kqueue.  A wait adds its two filters and leaves them there (EV_ADD      *)
(* without EV_ONESHOT or EV_DELETE), so that from then on a wait of the    *)
(* other direction is given their events as well; the event is told apart  *)
(* by its descriptor alone.  The size a filter reports bounds the read or  *)
(* the write that follows.                                                 *)
(***************************************************************************)
EXTENDS SignalIO

CONSTANT IsFile   \* rw is an *os.File

ASSUME KqueueAssumption == IsFile \in BOOLEAN

VARIABLES queueOpen,   \* kQueue is open
          registered,  \* the directions whose filters were added
          written,     \* written[c]: bytesWritten
          size         \* size[c]: Data of the event, as waitRead, waitWrite return it

queueVars == <<queueOpen, registered, written, size>>

vars == <<signalVars, opVars, job, streamVars, queueVars>>

Init ==
  /\ SignalInit /\ OperationInit /\ StreamInit
  /\ queueOpen = TRUE
  /\ registered = {}
  /\ written = [c \in Callers |-> 0]
  /\ size = [c \in Callers |-> 0]

-----------------------------------------------------------------------------
(* Close, in the order of its statements.                                    *)
Close == Cancel \o <<Step("queue", "read")>> \o ClosePipes

CloseQueue(x) ==
  /\ At(x, "queue", "read")
  /\ queueOpen' = FALSE
  /\ Advance(x)
  /\ UNCHANGED <<signalVars, opVars, streamVars, registered, written, size>>

-----------------------------------------------------------------------------
BeginCall(c) ==
  /\ BeginOperation(c)
  /\ written' = [written EXCEPT ![c] = 0]
  /\ UNCHANGED <<queueOpen, registered, size>>

(* The loop condition of write, and kevent adding the filters.               *)
EnterWait(c) ==
  /\ pc[c] = "enter"
  /\ \/ /\ c \in Writers /\ written[c] >= len[c]
        /\ Settled(c, "nil", written[c])
        /\ UNCHANGED registered
     \/ /\ c \in Readers \/ written[c] < len[c]
        /\ pc' = [pc EXCEPT ![c] = "wait"]
        /\ registered' = registered \cup {Dir(c)}
        /\ UNCHANGED out
  /\ UNCHANGED <<signalVars, job, ctx, watch, len, part, cause, moved,
                 streamVars, queueOpen, written, size>>

(* Mutant: no wait for the object.                                           *)
ReadyAtOnce(d) == rwOpen

(* The object's event of direction d; its size is what can be moved.         *)
ObjectReady(d) == rwOpen /\ IF d = "read" THEN Readable ELSE Writable
EventSize(d) == IF d = "read" THEN avail ELSE space

(* kevent returns one of the events of all registered filters.  An event of  *)
(* the other direction's pipe matches no descriptor of this wait, and a wait *)
(* that is canceled forgets bytesWritten.                                    *)
Harvest(c) ==
  /\ pc[c] = "wait"
  /\ \/ /\ queueOpen
        /\ \E d \in registered :
             \/ /\ ObjectReady(d)
                /\ pc' = [pc EXCEPT ![c] = "io"]
                /\ size' = [size EXCEPT ![c] = EventSize(d)]
                /\ UNCHANGED out
             \/ /\ SignalReady(d) /\ d = Dir(c)
                /\ pc' = [pc EXCEPT ![c] = "woken"]
                /\ UNCHANGED <<out, size>>
             \/ /\ SignalReady(d) /\ d # Dir(c)
                /\ Settled(c, "error", 0)
                /\ UNCHANGED size
     \/ /\ ~ queueOpen
        /\ Settled(c, "error", 0)
        /\ UNCHANGED size
  /\ UNCHANGED <<signalVars, job, ctx, watch, len, part, cause, moved,
                 streamVars, queueOpen, registered, written>>

(* The switch on activeEvent[0].Ident, and the return of the error.          *)
Woken(c) ==
  /\ pc[c] = "woken"
  /\ Settled(c, IF "reader" \in ends[Dir(c)] THEN "canceled" ELSE "error", 0)
  /\ UNCHANGED <<signalVars, job, ctx, watch, len, part, cause, moved,
                 streamVars, queueVars>>

(* rw.Read(data[:bytesAvailable])                                            *)
Read(c) ==
  /\ RwRead(c, IF size[c] < 1 THEN len[c] ELSE Least(size[c], len[c]))
  /\ UNCHANGED <<signalVars, queueVars>>

(* Mutant: the size the event reports is ignored.                            *)
WholeRest(c) == len[c] - written[c]

(* data[bytesWritten:maxOffset]; a file reports a size of 1 when it does not *)
(* know, and gets the whole buffer in its first write.                       *)
ChunkLen(c) ==
  IF IsFile /\ written[c] = 0 /\ size[c] < 2
  THEN len[c]
  ELSE Least(size[c], len[c] - written[c])

WriteSome(c) ==
  /\ RwWriteSome(c, ChunkLen(c))
  /\ UNCHANGED <<signalVars, queueVars>>

WriteReturn(c) ==
  /\ \/ /\ WroteAll(c, ChunkLen(c))
        /\ pc' = [pc EXCEPT ![c] = "enter"]
        /\ written' = [written EXCEPT ![c] = @ + part[c]]
        /\ UNCHANGED out
     \/ /\ WriteFails(c, ChunkLen(c))
        /\ Settled(c, "error", written[c] + part[c])
        /\ UNCHANGED written
  /\ part' = [part EXCEPT ![c] = 0]
  /\ UNCHANGED <<signalVars, job, ctx, watch, len, cause, moved,
                 streamVars, queueOpen, registered, size>>

-----------------------------------------------------------------------------
(* The four operations, the watcher and the explicit methods.                *)
Operate(c) ==
  \/ EnterWait(c) \/ Harvest(c) \/ Woken(c)
  \/ Read(c) \/ WriteSome(c) \/ WriteReturn(c)
  \/ CallStep(c) /\ UNCHANGED queueVars

Watch(c) == WatcherStep(c) /\ UNCHANGED queueVars

Manage(x) ==
  \/ MethodStep(x) /\ UNCHANGED queueVars
  \/ CloseQueue(x)

System ==
  \/ \E c \in Callers : Operate(c) \/ Watch(c)
  \/ \E x \in Cancelers : Manage(x)

Environment ==
  \/ \E c \in Callers : \/ BeginCall(c)
                        \/ Expire(c) /\ UNCHANGED <<signalVars, queueVars>>
  \/ \E x \in Cancelers, s \in Methods :
       StartMethod(x, s) /\ UNCHANGED <<signalVars, queueVars>>
  \/ PeerStep /\ UNCHANGED queueVars

UserClose ==
  \E x \in Cancelers :
    StartMethod(x, Close) /\ UNCHANGED <<signalVars, queueVars>>

Next == System \/ Environment \/ UserClose

Spec == Init /\ [][Next]_vars

(* Goroutines run; nobody has to call anything and the peer owes nothing.    *)
Fairness ==
  /\ \A c \in Callers : WF_vars(Operate(c)) /\ WF_vars(Watch(c))
  /\ \A x \in Cancelers : WF_vars(Manage(x))

FairSpec == Spec /\ Fairness

-----------------------------------------------------------------------------
TypeOK ==
  /\ SignalTypeOK /\ OperationTypeOK /\ StreamTypeOK
  /\ JobTypeOK({"cancel", "reset", "queue", "writer", "reader", "object"})
  /\ queueOpen \in BOOLEAN
  /\ registered \in SUBSET Dirs
  /\ written \in [Callers -> Nat]
  /\ size \in [Callers -> 0..BufSize]

(***************************************************************************)
(* A read fails with another error than ErrCanceled and io.EOF only when   *)
(* the object is being closed: CancelWrites is no business of a reader     *)
(* (ctxio.go:56).                                                          *)
(***************************************************************************)
WritesLeaveReadsAlone ==
  \A r \in Readers :
    pc[r] = "join" /\ out[r].err = "error" => ~ queueOpen \/ ~ rwOpen

(***************************************************************************)
(* A write of no more than the reported size does not block: whoever is in *)
(* rw.Write finds room for the rest of the chunk (lines 269-297).          *)
(***************************************************************************)
WriteNeverBlocks ==
  \A c \in Writers :
    pc[c] = "io" =>
      \/ ChunkLen(c) - part[c] <= space
      \/ peer = "closed" \/ ~ rwOpen

=============================================================================
