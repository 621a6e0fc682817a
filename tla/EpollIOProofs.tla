----------------------------- MODULE EpollIOProofs -----------------------------
(***************************************************************************)
(* Proofs about EpollIO, for any number of goroutines, any length of chunk *)
(* and buffers of any size.  Every step of the backend is a BackendStep of *)
(* SignalIOProofs, so that what is proved of the cancel signal holds in    *)
(* the backend.  WriteAccounted is inductive with the types.  With one     *)
(* caller for each direction the backend implements ContextIO, with Close  *)
(* at any time; with two, the reset of one takes away the signal that was  *)
(* meant for the other, and ErrCanceled may reach one that has no reason.  *)
(***************************************************************************)
EXTENDS EpollIO, SignalIOProofs

Ops == {"cancel", "reset", "epoll", "writer", "reader", "object"}

LEMMA CloseIsSteps == \A s \in Methods \cup {Close} : s \in Seq(StepsOf(Ops))
<1>1. <<Step("epoll", "read"), Step("epoll", "write")>> \in Seq(StepsOf(Ops))
  BY DEF Step, StepsOf, Ops, Directions
<1>2. {"cancel", "reset", "writer", "reader", "object"} \subseteq Ops
  BY DEF Ops
<1>3. Close \in Seq(StepsOf(Ops))
  BY <1>1, <1>2, MethodsAreSteps, ConcatProperties DEF Close
<1> QED BY <1>2, <1>3, MethodsAreSteps

(***************************************************************************)
(* The steps of the backend: those of SignalIO, and its own.               *)
(***************************************************************************)
OwnStep(c) ==
  \/ EnterWait(c) \/ Harvest(c) \/ Woken(c)
  \/ Read(c) \/ WriteSome(c) \/ WriteReturn(c)

LEMMA StepsAre ==
  ASSUME [Next]_vars
  PROVE  \/ CommonStep(Ops) /\ UNCHANGED epollVars
         \/ \E c \in Callers : BeginCall(c) \/ OwnStep(c)
         \/ \E x \in Cancelers, d \in Dirs : CloseEpoll(x, d)
         \/ UNCHANGED vars
BY CloseIsSteps
   DEF Next, System, Environment, UserClose, Operate, Watch, Manage, CommonStep,
       CallerStep, OwnStep

LEMMA OwnIsWait ==
  ASSUME Types, NEW c \in Callers, OwnStep(c)
  PROVE  Waits(c)
<1>1. /\ pc[c] \in {"enter", "wait", "woken", "io"}
      /\ UNCHANGED <<signalVars, job, ctx, watch, cause>>
  BY DEF OwnStep, EnterWait, Harvest, Woken, Read, RwRead, RwReadData,
       ReadFails, WriteSome, RwWriteSome, WriteReturn, WroteAll, WriteFails
<1>2. \/ \E q \in {"enter", "wait", "io", "join"} : pc' = [pc EXCEPT ![c] = q]
      \/ /\ pc' = [pc EXCEPT ![c] = "woken"]
         /\ pc[c] = "wait" /\ SignalReady(Dir(c))
  <2>1. CASE RwWriteSome(c, ChunkLen(c))
    <3>1. pc[c] = "io" /\ pc' = [pc EXCEPT ![c] = "io"]
      BY <2>1 DEF RwWriteSome, Types, OperationTypeOK
    <3> QED BY <3>1
  <2>2. CASE ~ RwWriteSome(c, ChunkLen(c))
    BY <2>2 DEF OwnStep, EnterWait, Harvest, Woken, Read, RwRead, RwReadData,
         WriteSome, WriteReturn, Settled
  <2> QED BY <2>1, <2>2
<1> QED BY <1>1, <1>2 DEF Waits

LEMMA EpollSteps ==
  ASSUME Types, [Next]_vars
  PROVE  [BackendStep(Ops)]_controlVars
<1>1. ASSUME NEW x \in Cancelers, NEW d \in Dirs, CloseEpoll(x, d) PROVE MovesOn(x)
  BY <1>1 DEF CloseEpoll, At, Step, MovesOn
<1>2. UNCHANGED vars => UNCHANGED controlVars
  BY DEF vars, controlVars, opVars
<1> QED BY <1>1, <1>2, StepsAre, OwnIsWait DEF BackendStep, BeginCall

-----------------------------------------------------------------------------
(* The types.                                                                *)
EpollTypes ==
  /\ Types
  /\ epollOpen \in [Dirs -> BOOLEAN]
  /\ written \in [Callers -> Nat]

LEMMA OwnTyped ==
  ASSUME EpollTypes, NEW c \in Callers, OwnStep(c)
  PROVE  EpollTypes'
<1> USE StreamAssumption, OperationAssumption, ChunkAssumption
        DEF EpollTypes, Types, OperationTypeOK, StreamTypeOK, streamVars,
             epollVars
<1>1. ChunkLen(c) \in Int
  BY DEF ChunkLen, Least
<1>2. ASSUME \E e \in ErrorNames, k \in Nat : Settled(c, e, k),
             UNCHANGED <<ctx, watch, len, cause, moved, streamVars>>,
             part' \in [Callers -> Nat], epollOpen' = epollOpen,
             written' \in [Callers -> Nat]
      PROVE  EpollTypes'
  <2>1. pc' \in [Callers -> Places] /\ out' \in [Callers -> Results]
    BY <1>2, SettledTyped
  <2> QED BY <1>2, <2>1 DEF Places, Results, ErrorNames
<1>3. CASE EnterWait(c)
  <2>1. CASE Settled(c, "nil", written[c]) \/ Settled(c, "error", written[c])
    BY <1>2, <1>3, <2>1 DEF EnterWait, ErrorNames
  <2>2. CASE pc' = [pc EXCEPT ![c] = "wait"] /\ UNCHANGED out
    BY <1>3, <2>2 DEF EnterWait
  <2> QED BY <1>3, <2>1, <2>2 DEF EnterWait
<1>4. CASE Harvest(c)
  BY <1>4 DEF Harvest
<1>5. CASE Woken(c)
  BY <1>2, <1>5 DEF Woken, ErrorNames
<1>6. CASE Read(c)
  BY <1>6, ReadTyped DEF Read
<1>7. CASE WriteSome(c)
  BY <1>1, <1>7, WriteTyped DEF WriteSome
<1>8. CASE WriteReturn(c)
  <2>1. CASE Settled(c, "error", written[c] + part[c])
    BY <1>2, <1>8, <2>1 DEF WriteReturn, ErrorNames
  <2>2. CASE pc' = [pc EXCEPT ![c] = "enter"] /\ UNCHANGED out
    BY <1>8, <2>2 DEF WriteReturn
  <2> QED BY <1>8, <2>1, <2>2 DEF WriteReturn
<1> QED BY <1>3, <1>4, <1>5, <1>6, <1>7, <1>8 DEF OwnStep

LEMMA EpollTyped ==
  ASSUME EpollTypes, [Next]_vars
  PROVE  EpollTypes'
<1>1. CASE CommonStep(Ops) /\ UNCHANGED epollVars
  BY <1>1, CommonTyped DEF EpollTypes, epollVars
<1>2. ASSUME NEW c \in Callers, BeginCall(c) PROVE EpollTypes'
  BY <1>2, BeginTyped DEF EpollTypes, BeginCall
<1>3. ASSUME NEW x, NEW d, CloseEpoll(x, d) PROVE EpollTypes'
  BY <1>3 DEF CloseEpoll, EpollTypes, Types, OperationTypeOK, StreamTypeOK,
       opVars, streamVars
<1>4. CASE UNCHANGED vars
  BY <1>4 DEF vars, EpollTypes, Types, OperationTypeOK, StreamTypeOK, opVars,
              streamVars, epollVars
<1> QED BY <1>1, <1>2, <1>3, <1>4, StepsAre, OwnTyped

LEMMA EpollStart ==
  ASSUME Init
  PROVE  EpollTypes /\ SignalInv(Ops)
<1>1. SignalInv(Ops)
  BY SignalInvStart DEF Init
<1>2. EpollTypes
  BY TypesStart DEF Init, EpollTypes
<1> QED BY <1>1, <1>2

LEMMA SpecTypes == Spec => [](EpollTypes /\ SignalTypeOK /\ Jobs(Ops) /\ Conservation)
<1>1. Init => EpollTypes /\ SignalTypeOK /\ Jobs(Ops) /\ Conservation
  BY EpollStart DEF SignalInv
<1>2. EpollTypes /\ SignalTypeOK /\ Jobs(Ops) /\ Conservation /\ [Next]_vars
        => (EpollTypes /\ SignalTypeOK /\ Jobs(Ops) /\ Conservation)'
  BY EpollTyped, EpollSteps, SignalKept, JobsKept DEF EpollTypes
<1> QED BY <1>1, <1>2, PTL DEF Spec

(***************************************************************************)
(* Type correctness of the epoll backend.                                  *)
(***************************************************************************)
THEOREM EpollTypeCorrect == Spec => []TypeOK
<1>1. EpollTypes /\ SignalTypeOK /\ Jobs(Ops) => TypeOK
  BY JobIsTyped DEF EpollTypes, Types, Ops, TypeOK
<1> QED BY <1>1, SpecTypes, PTL

(***************************************************************************)
(* The signal of the backend is a CancelSignal: the theorems about it hold *)
(* while operations reset, watchers cancel and Close takes the pipe away.  *)
(***************************************************************************)
THEOREM EpollHasSignal == Spec => SignalSpec
<1>1. Init => SignalInit
  BY DEF Init
<1>2. EpollTypes /\ [Next]_vars => [SignalNext]_signalVars
  BY EpollSteps, SignalSimulated DEF EpollTypes
<1> QED BY <1>1, <1>2, SpecTypes, PTL DEF Spec, SignalSpec

(***************************************************************************)
(* The promise of the signal, in the backend: with no method half done the *)
(* flag and the pipe agree.                                                *)
(***************************************************************************)
THEOREM EpollConserves == Spec => [](Conservation /\ FlagMatchesPipe)
BY EpollHasSignal, SignalConserves, SignalMatches, PTL

(***************************************************************************)
(* Neither the write of a cancel nor the read of a reset blocks for good   *)
(* in the backend.                                                         *)
(***************************************************************************)
THEOREM EpollFlows == Spec => []SignalNeverStuck
BY EpollHasSignal, SignalFlows, PTL

-----------------------------------------------------------------------------
(* WriteAccounted is inductive with what holds of a reader and of a chunk in *)
(* progress.                                                                 *)
Busy(c) == pc[c] \notin {"idle", "join"}

Account ==
  \A c \in Callers : Busy(c) =>
    /\ moved[c] = written[c] + part[c]
    /\ pc[c] # "io" => part[c] = 0
    /\ pc[c] \in {"check", "reset", "drain"} => written[c] = 0
    /\ written[c] <= len[c]
    /\ c \in Readers => written[c] = 0 /\ part[c] = 0

LEMMA AccountKept ==
  ASSUME EpollTypes, Account, [Next]_vars
  PROVE  Account'
<1> USE StreamAssumption, OperationAssumption
        DEF EpollTypes, Types, OperationTypeOK, StreamTypeOK, streamVars,
             epollVars, Account, Busy
<1>1. CASE CommonStep(Ops) /\ UNCHANGED epollVars
  BY <1>1, CommonMoves DEF Moves
<1>2. ASSUME NEW c \in Callers, BeginCall(c) PROVE Account'
  BY <1>2 DEF BeginCall, BeginOperation, Begin, Lengths
<1>3. ASSUME NEW c \in Callers, OwnStep(c) PROVE Account'
  <2>1. CASE EnterWait(c)
    BY <2>1 DEF EnterWait, Settled
  <2>2. CASE Harvest(c)
    BY <2>2 DEF Harvest
  <2>3. CASE Woken(c)
    BY <2>3 DEF Woken, Settled
  <2>4. CASE Read(c)
    BY <2>4 DEF Read, RwRead, RwReadData, ReadFails, Settled, Least
  <2>5. CASE WriteSome(c)
    <3>1. ChunkLen(c) \in Int
      BY ChunkAssumption DEF ChunkLen, Least
    <3> QED BY <2>5, <3>1 DEF WriteSome, RwWriteSome, Least
  <2>6. CASE WriteReturn(c)
    <3>1. ChunkLen(c) \in Int /\ ChunkLen(c) <= len[c] - written[c]
      BY ChunkAssumption DEF ChunkLen, Least
    <3> QED BY <2>6, <3>1 DEF WriteReturn, WroteAll, WriteFails, Settled
  <2> QED BY <1>3, <2>1, <2>2, <2>3, <2>4, <2>5, <2>6 DEF OwnStep
<1>4. ASSUME NEW x, NEW d, CloseEpoll(x, d) PROVE Account'
  BY <1>4 DEF CloseEpoll, opVars
<1>5. CASE UNCHANGED vars
  BY <1>5 DEF vars, opVars
<1> QED BY <1>1, <1>2, <1>3, <1>4, <1>5, StepsAre

(***************************************************************************)
(* At every way out of the loop of a write, what crossed the object is     *)
(* what bytesWritten and the chunk in progress say, for any length of      *)
(* buffer, chunk and kernel buffer and any number of writers.              *)
(***************************************************************************)
THEOREM EpollAccounts == Spec => []WriteAccounted
<1>1. Init => Account
  BY DEF Init, OperationInit, Account, Busy
<1>2. EpollTypes /\ Account => WriteAccounted
  BY DEF Account, Busy, WriteAccounted, EpollTypes, Types, OperationTypeOK,
       Callers
<1>3. EpollTypes /\ Account /\ [Next]_vars => Account'
  BY AccountKept
<1> QED BY <1>1, <1>2, <1>3, SpecTypes, PTL DEF Spec

-----------------------------------------------------------------------------
LEMMA OwnRefines ==
  ASSUME EpollTypes, Account, NEW c \in Callers, OwnStep(c)
  PROVE  KeepsCounts /\ (OneEach /\ SignalInv(Ops) => KeepsPromise)
<1> USE OperationAssumption, ChunkAssumption
<1>t. /\ Types
      /\ pc \in [Callers -> Places] /\ moved \in [Callers -> Nat]
      /\ written \in [Callers -> Nat] /\ part \in [Callers -> Nat]
      /\ len \in [Callers -> 0..MaxLen]
  BY DEF EpollTypes, Types, OperationTypeOK, Places
<1>b. /\ pc[c] \in {"enter", "wait", "woken", "io"}
      /\ Phase(pc[c]) = "busy"
      /\ moved[c] = written[c] + part[c]
      /\ pc[c] # "io" => part[c] = 0
      /\ written[c] <= len[c]
      /\ c \in Readers => written[c] = 0 /\ part[c] = 0
  BY <1>t, OwnIsWait DEF Account, Busy, Phase, Waits
<1>n. ChunkLen(c) \in Int /\ ChunkLen(c) <= len[c]
  BY <1>t DEF ChunkLen, Least
<1>1. ASSUME EnterWait(c)
      PROVE  [Promise!ContextNext]_Promise!contextVars
  <2>1. moved[c] = written[c] /\ UNCHANGED <<moved, cause>>
    BY <1>1, <1>b, <1>t DEF EnterWait
  <2> QED BY <1>1, <1>b, <1>t, <2>1, SettlesNow, GoesOn DEF EnterWait,
         ErrorNames, Places
<1>2. ASSUME Harvest(c)
      PROVE  [Promise!ContextNext]_Promise!contextVars
  BY <1>2, <1>b, <1>t, GoesOn DEF Harvest, Places
<1>3. CASE Woken(c)
  <2>1. /\ moved[c] = written[c] /\ UNCHANGED <<moved, cause>>
        /\ SignalInv(Ops) => cause[c]
    BY <1>3, <1>b, <1>t DEF Woken, SignalInv, CauseInv
  <2>2. CASE Settled(c, "canceled", written[c])
    BY <1>b, <1>t, <2>1, <2>2, SettlesCanceled
  <2>3. CASE Settled(c, "error", written[c])
    <3>1. Promise!ContextNext
      BY <1>b, <1>t, <2>1, <2>3, SettlesNow DEF ErrorNames
    <3> QED BY <3>1, PromiseKeepsCounts DEF KeepsPromise
  <2> QED BY <1>3, <2>2, <2>3 DEF Woken
<1>4. ASSUME Read(c)
      PROVE  [Promise!ContextNext]_Promise!contextVars
  <2>1. moved[c] = 0
    BY <1>4, <1>b, <1>t DEF Read, RwRead, RwReadData, ReadFails
  <2> QED BY <1>4, <1>t, <2>1, ReadRefines DEF Read
<1>5. ASSUME WriteSome(c)
      PROVE  [Promise!ContextNext]_Promise!contextVars
  BY <1>5, <1>n, <1>t, WriteRefines DEF WriteSome
<1>6. ASSUME WriteReturn(c)
      PROVE  [Promise!ContextNext]_Promise!contextVars
  <2>1. UNCHANGED <<moved, cause>>
    BY <1>6 DEF WriteReturn
  <2> QED BY <1>6, <1>b, <1>t, <2>1, SettlesNow, GoesOn
          DEF WriteReturn, ErrorNames, Places
<1>7. CASE ~ Woken(c)
  <2>1. KeepsPromise
    BY <1>1, <1>2, <1>4, <1>5, <1>6, <1>7 DEF OwnStep, KeepsPromise
  <2> QED BY <2>1, PromiseKeepsCounts
<1> QED BY <1>3, <1>7

LEMMA StepRefines ==
  ASSUME EpollTypes, Account, [Next]_vars
  PROVE  KeepsCounts /\ (OneEach /\ SignalInv(Ops) => KeepsPromise)
<1>i. Types /\ \A c \in Callers : pc[c] = "check" => moved[c] = 0
  BY DEF EpollTypes, Account, Busy
<1>1. CASE CommonStep(Ops)
  BY <1>i, <1>1, CommonRefines DEF SignalInv
<1>2. ASSUME NEW c \in Callers, BeginCall(c) PROVE Promise!ContextNext
  BY <1>i, <1>2, BeginRefines DEF BeginCall
<1>3. ASSUME NEW c \in Callers, OwnStep(c)
      PROVE  KeepsCounts /\ (OneEach /\ SignalInv(Ops) => KeepsPromise)
  BY <1>3, OwnRefines
<1>4. ASSUME NEW x, NEW d, CloseEpoll(x, d) PROVE UNCHANGED <<pc, cause, moved, out>>
  BY <1>4 DEF CloseEpoll, opVars
<1>5. UNCHANGED vars => UNCHANGED <<pc, cause, moved, out>>
  BY DEF vars, opVars
<1>6. UNCHANGED <<pc, cause, moved, out>> => UNCHANGED Promise!contextVars
  BY DEF Promise!contextVars
<1>7. CASE ~ CommonStep(Ops) /\ \A c \in Callers : ~ OwnStep(c)
  <2>1. KeepsPromise
    BY <1>2, <1>4, <1>5, <1>6, <1>7, StepsAre DEF KeepsPromise
  <2> QED BY <2>1, PromiseKeepsCounts
<1> QED BY <1>1, <1>3, <1>7

(***************************************************************************)
(* With one caller for each direction, the epoll backend keeps the promise *)
(* of ContextIO: counts are exact and ErrCanceled has a reason of its own, *)
(* whatever other goroutines cancel, reset or close, for any size of       *)
(* chunk, buffer and kernel buffer.                                        *)
(***************************************************************************)
THEOREM EpollImplements ==
  ASSUME OneEach
  PROVE  Spec => ImplementsContextIO
<1>1. Init => Promise!ContextInit
  BY DEF Init, OperationInit, NoResult, Promise!ContextInit, Promise!NoResult
<1> DEFINE Inv == EpollTypes /\ SignalInv(Ops) /\ Account
<1>2. Init => Inv
  BY EpollStart DEF Init, OperationInit, Account, Busy
<1>3. Inv /\ [Next]_vars => Inv'
  BY EpollTyped, EpollSteps, SignalInvKept, AccountKept DEF EpollTypes
<1>4. Inv /\ [Next]_vars => [Promise!ContextNext]_Promise!contextVars
  BY StepRefines DEF KeepsPromise
<1> QED BY <1>1, <1>2, <1>3, <1>4, PTL
        DEF Spec, ImplementsContextIO, Promise!ContextSpec

(***************************************************************************)
(* Any number of operations of either direction may overlap: each returns  *)
(* the count of the bytes it moved itself, however its loop ends           *)
(* (lines 262-287), with data, with an error or canceled between chunks.   *)
(***************************************************************************)
THEOREM EpollCounts == Spec => CountsExact
<1>1. Init => Counts!ContextInit
  BY DEF Init, OperationInit, NoResult, Counts!ContextInit, Counts!NoResult
<1>2. Init => Account
  BY DEF Init, OperationInit, Account, Busy
<1>3. EpollTypes /\ Account /\ [Next]_vars => Account'
  BY AccountKept
<1>4. EpollTypes /\ Account /\ [Next]_vars => [Counts!ContextNext]_Counts!contextVars
  BY StepRefines DEF KeepsCounts
<1> QED BY <1>1, <1>2, <1>3, <1>4, SpecTypes, PTL
        DEF Spec, CountsExact, Counts!ContextSpec

-----------------------------------------------------------------------------
LEMMA ReadyKept ==
  ASSUME OneEach, EpollTypes, ReadNeverBlocks, [Next]_vars
  PROVE  ReadNeverBlocks'
<1>t. Types /\ pc \in [Callers -> Places] /\ avail \in Nat
  BY StreamAssumption DEF EpollTypes, Types, OperationTypeOK, StreamTypeOK,
       Places
<1>1. CASE CommonStep(Ops)
  BY <1>t, <1>1, CommonReady
<1>2. ASSUME NEW c \in Callers, BeginCall(c) PROVE ReadNeverBlocks'
  BY <1>t, <1>2, BeginReady DEF BeginCall
<1>3. ASSUME NEW c \in Callers, OwnStep(c) PROVE ReadNeverBlocks'
  <2>1. CASE Harvest(c)
    BY <1>t, <2>1 DEF Harvest, ObjectReady, ReadNeverBlocks, Readable,
         streamVars, Callers, Dir
  <2>2. CASE Read(c)
    BY <1>t, <2>2, ReadReady DEF Read
  <2>3. CASE ~ Harvest(c) /\ ~ Read(c)
    <3>1. UNCHANGED <<avail, peer, rwOpen>>
      BY <1>3, <2>3 DEF OwnStep, EnterWait, Woken, WriteSome, RwWriteSome,
           WriteReturn, streamVars
    <3>2. \A e \in Readers : pc'[e] = "io" => pc[e] = "io"
      BY <1>3, <1>t, <2>3 DEF OwnStep, EnterWait, Woken, Settled, WriteSome,
           RwWriteSome, WriteReturn, Callers
    <3> QED BY <1>t, <3>1, <3>2, ReadyStays
  <2> QED BY <2>1, <2>2, <2>3
<1>4. ASSUME UNCHANGED <<pc, avail, peer, rwOpen>> PROVE ReadNeverBlocks'
  BY <1>4 DEF ReadNeverBlocks, Readable
<1>5. ASSUME NEW x, NEW d, CloseEpoll(x, d)
      PROVE  UNCHANGED <<pc, avail, peer, rwOpen>>
  BY <1>5 DEF CloseEpoll, opVars, streamVars
<1>6. UNCHANGED vars => UNCHANGED <<pc, avail, peer, rwOpen>>
  BY DEF vars, opVars, streamVars
<1> QED BY <1>1, <1>2, <1>3, <1>4, <1>5, <1>6, StepsAre

(***************************************************************************)
(* With one caller for each direction, a reader is in rw.Read, which no    *)
(* cancel reaches, only while it cannot block: the readiness it waited for *)
(* is still there, whatever the peer and the other goroutines do.          *)
(***************************************************************************)
THEOREM EpollReadsReady ==
  ASSUME OneEach
  PROVE  Spec => []ReadNeverBlocks
<1>1. Init => ReadNeverBlocks
  BY DEF Init, OperationInit, ReadNeverBlocks, Callers
<1>2. EpollTypes /\ ReadNeverBlocks /\ [Next]_vars => ReadNeverBlocks'
  BY ReadyKept
<1> QED BY <1>1, <1>2, SpecTypes, PTL DEF Spec

(***************************************************************************)
(* With one caller for each direction, the wait of an operation misses no  *)
(* cancel and no expired context, and no byte of an earlier one is left    *)
(* in the pipe to end it: epoll, any number of goroutines that cancel,     *)
(* reset and close.                                                        *)
(***************************************************************************)
THEOREM EpollReaches ==
  ASSUME OneEach
  PROVE  Spec => []CancelReaches
<1> DEFINE Inv == EpollTypes /\ SignalInv(Ops) /\ ExpiryInv
<1>1. Init => Inv
  BY EpollStart DEF Init, OperationInit, ExpiryInv, PastCheck
<1>2. Inv /\ [Next]_vars => Inv'
  BY EpollTyped, EpollSteps, SignalInvKept, ExpiryKept DEF EpollTypes
<1>3. Inv => CancelReaches
  BY ReachesCaller
<1> QED BY <1>1, <1>2, <1>3, PTL DEF Spec

=============================================================================
