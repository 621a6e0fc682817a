------------------------------- MODULE EpollIO -------------------------------
(***************************************************************************)
(* The epoll backend (ctxio_linux.go).  An operation first waits for its   *)
(* descriptor or for the cancel pipe of its direction, then calls rw.Read  *)
(* or rw.Write; a write goes through this loop once per chunk.  There is   *)
(* one epoll instance per direction.                                       *)
(***************************************************************************)
EXTENDS SignalIO

CONSTANT Chunk   \* writeChunkSize

ASSUME ChunkAssumption == Chunk \in Nat \ {0}

VARIABLES epollOpen,  \* epollOpen[d]: readEpoll, writeEpoll are open
          written     \* written[c]: bytesWritten

epollVars == <<epollOpen, written>>

vars == <<signalVars, opVars, job, streamVars, epollVars>>

Init ==
  /\ SignalInit /\ OperationInit /\ StreamInit
  /\ epollOpen = [d \in Dirs |-> TRUE]
  /\ written = [c \in Callers |-> 0]

-----------------------------------------------------------------------------
(* Close, in the order of its statements.                                    *)
Close ==
  Cancel \o <<Step("epoll", "read"), Step("epoll", "write")>> \o ClosePipes

CloseEpoll(x, d) ==
  /\ At(x, "epoll", d)
  /\ epollOpen' = [epollOpen EXCEPT ![d] = FALSE]
  /\ Advance(x)
  /\ UNCHANGED <<signalVars, opVars, streamVars, written>>

-----------------------------------------------------------------------------
BeginCall(c) ==
  /\ BeginOperation(c)
  /\ written' = [written EXCEPT ![c] = 0]
  /\ UNCHANGED epollOpen

(* The loop condition of write, and the call of epoll_wait, which fails on a *)
(* closed epoll descriptor.                                                  *)
EnterWait(c) ==
  /\ pc[c] = "enter"
  /\ \/ /\ c \in Writers /\ written[c] >= len[c]
        /\ Settled(c, "nil", written[c])
     \/ /\ c \in Readers \/ written[c] < len[c]
        /\ IF epollOpen[Dir(c)]
           THEN pc' = [pc EXCEPT ![c] = "wait"] /\ UNCHANGED out
           ELSE Settled(c, "error", written[c])
  /\ UNCHANGED <<signalVars, job, ctx, watch, len, part, cause, moved,
                 streamVars, epollVars>>

(* Mutant: no wait for the object.                                           *)
ReadyAtOnce(d) == rwOpen

(* The event of the descriptor: a closed object has left the interest list.  *)
ObjectReady(d) == rwOpen /\ IF d = "read" THEN Readable ELSE Writable

(* epoll_wait returns one of the events that are pending when the goroutine  *)
(* runs; events[0] is compared with the descriptors after that.              *)
Harvest(c) ==
  /\ pc[c] = "wait"
  /\ \/ ObjectReady(Dir(c)) /\ pc' = [pc EXCEPT ![c] = "io"]
     \/ SignalReady(Dir(c)) /\ pc' = [pc EXCEPT ![c] = "woken"]
  /\ UNCHANGED <<signalVars, job, ctx, watch, len, out, part, cause, moved,
                 streamVars, epollVars>>

(* Mutant: a canceled write forgets the chunks it wrote.                     *)
WokenForgets(c) ==
  /\ pc[c] = "woken"
  /\ Settled(c, IF "reader" \in ends[Dir(c)] THEN "canceled" ELSE "error", 0)
  /\ UNCHANGED <<signalVars, job, ctx, watch, len, part, cause, moved,
                 streamVars, epollVars>>

(* The switch on events[0].Fd: readCancelReader.Fd() is no descriptor any    *)
(* more once the pipe is closed.                                             *)
Woken(c) ==
  /\ pc[c] = "woken"
  /\ Settled(c, IF "reader" \in ends[Dir(c)] THEN "canceled" ELSE "error",
             written[c])
  /\ UNCHANGED <<signalVars, job, ctx, watch, len, part, cause, moved,
                 streamVars, epollVars>>

(* return r.rw.Read(data)                                                    *)
Read(c) ==
  /\ RwRead(c, len[c])
  /\ UNCHANGED <<signalVars, epollVars>>

(* The chunk data[bytesWritten:end].                                         *)
ChunkLen(c) == Least(Chunk, len[c] - written[c])

WriteSome(c) ==
  /\ RwWriteSome(c, ChunkLen(c))
  /\ UNCHANGED <<signalVars, epollVars>>

(* Mutant: bytesWritten is not advanced.                                      *)
WriteReturnForgets(c) ==
  /\ \/ /\ WroteAll(c, ChunkLen(c))
        /\ pc' = [pc EXCEPT ![c] = "enter"]
        /\ UNCHANGED out
     \/ /\ WriteFails(c, ChunkLen(c))
        /\ Settled(c, "error", written[c] + part[c])
  /\ part' = [part EXCEPT ![c] = 0]
  /\ UNCHANGED <<signalVars, job, ctx, watch, len, cause, moved,
                 streamVars, epollVars>>

(* rw.Write returns n: the whole chunk, or less and an error.                *)
WriteReturn(c) ==
  /\ \/ /\ WroteAll(c, ChunkLen(c))
        /\ pc' = [pc EXCEPT ![c] = "enter"]
        /\ UNCHANGED out
     \/ /\ WriteFails(c, ChunkLen(c))
        /\ Settled(c, "error", written[c] + part[c])
  /\ written' = [written EXCEPT ![c] = @ + part[c]]
  /\ part' = [part EXCEPT ![c] = 0]
  /\ UNCHANGED <<signalVars, job, ctx, watch, len, cause, moved,
                 streamVars, epollOpen>>

-----------------------------------------------------------------------------
Operate(c) ==
  \/ EnterWait(c) \/ Harvest(c) \/ Woken(c)
  \/ Read(c) \/ WriteSome(c) \/ WriteReturn(c)
  \/ CallStep(c) /\ UNCHANGED epollVars

Watch(c) == WatcherStep(c) /\ UNCHANGED epollVars

Manage(x) ==
  \/ MethodStep(x) /\ UNCHANGED epollVars
  \/ \E d \in Dirs : CloseEpoll(x, d)

System ==
  \/ \E c \in Callers : Operate(c) \/ Watch(c)
  \/ \E x \in Cancelers : Manage(x)

Environment ==
  \/ \E c \in Callers : \/ BeginCall(c)
                        \/ Expire(c) /\ UNCHANGED <<signalVars, epollVars>>
  \/ \E x \in Cancelers, s \in Methods :
       StartMethod(x, s) /\ UNCHANGED <<signalVars, epollVars>>
  \/ PeerStep /\ UNCHANGED epollVars

UserClose ==
  \E x \in Cancelers :
    StartMethod(x, Close) /\ UNCHANGED <<signalVars, epollVars>>

Next == System \/ Environment \/ UserClose

Spec == Init /\ [][Next]_vars

(* Goroutines run; nobody has to call anything and the peer owes nothing.    *)
Fairness ==
  /\ \A c \in Callers : WF_vars(Operate(c)) /\ WF_vars(Watch(c))
  /\ \A x \in Cancelers : WF_vars(Manage(x))

FairSpec == Spec /\ Fairness

-----------------------------------------------------------------------------
TypeOK ==
  /\ SignalTypeOK /\ OperationTypeOK /\ StreamTypeOK
  /\ JobTypeOK({"cancel", "reset", "epoll", "writer", "reader", "object"})
  /\ epollOpen \in [Dirs -> BOOLEAN]
  /\ written \in [Callers -> Nat]

(***************************************************************************)
(* In the middle of a write, the bytes that crossed the object are those   *)
(* of the finished chunks plus those of the chunk in progress, so that     *)
(* every way out of the loop (lines 265-285) knows how many they are.      *)
(***************************************************************************)
WriteAccounted ==
  \A c \in Writers :
    pc[c] \notin {"idle", "join"} =>
      /\ moved[c] = written[c] + part[c]
      /\ pc[c] # "io" => part[c] = 0
      /\ written[c] <= len[c]

(***************************************************************************)
(* Once the flag is set, an operation that is past its check of the flag   *)
(* returns, whatever the peer does (Cancel "cancels any ongoing ... calls",*)
(* ctxio.go:45), unless Close takes the pipe away meanwhile or the peer    *)
(* leaves no room for the rest of a chunk that is in rw.Write: the         *)
(* descriptor was writable with less free than that (line 276).            *)
(***************************************************************************)
CancelEnds ==
  \A c \in Callers :
    (Ongoing(c) /\ canceled[Dir(c)])
      ~> (\/ pc[c] = "idle"
          \/ ends[Dir(c)] # BothEnds
          \/ RwWriteBlocked(c, ChunkLen(c)))

(***************************************************************************)
(* An operation whose context is done returns (ctxio.go:31 and 36),        *)
(* whatever the peer does, with the exceptions of CancelEnds: a Close, and *)
(* a chunk in rw.Write for the rest of which there is no room.             *)
(***************************************************************************)
ExpiredEnds ==
  \A c \in Callers :
    (pc[c] # "idle" /\ ctx[c] = "done")
      ~> (pc[c] = "idle" \/ ~ rwOpen \/ RwWriteBlocked(c, ChunkLen(c)))

=============================================================================
