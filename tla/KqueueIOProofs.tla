---------------------------- MODULE KqueueIOProofs ----------------------------
(***************************************************************************)
(* Proofs about KqueueIO, for any number of goroutines and buffers of any  *)
(* size.  The types and the refinement of ContextIO hold with both         *)
(* directions in use.  That rw.Read and rw.Write do not block needs that   *)
(* the other direction never waits on the queue, for its events are given  *)
(* to every wait, and rw.Write that the object is no file, for a file that *)
(* reports a size of 1 gets the whole buffer.                              *)
(***************************************************************************)
EXTENDS KqueueIO, SignalIOProofs

Ops == {"cancel", "reset", "queue", "writer", "reader", "object"}

LEMMA CloseIsSteps == \A s \in Methods \cup {Close} : s \in Seq(StepsOf(Ops))
<1>1. <<Step("queue", "read")>> \in Seq(StepsOf(Ops))
  BY DEF Step, StepsOf, Ops, Directions
<1>2. {"cancel", "reset", "writer", "reader", "object"} \subseteq Ops
  BY DEF Ops
<1>3. Close \in Seq(StepsOf(Ops))
  BY <1>1, <1>2, MethodsAreSteps, ConcatProperties DEF Close
<1> QED BY <1>2, <1>3, MethodsAreSteps

(***************************************************************************)
(* The steps of the backend: those of SignalIO, and its own.               *)
(***************************************************************************)
OwnStep(c) ==
  \/ EnterWait(c) \/ Harvest(c) \/ Woken(c)
  \/ Read(c) \/ WriteSome(c) \/ WriteReturn(c)

LEMMA StepsAre ==
  ASSUME [Next]_vars
  PROVE  \/ CommonStep(Ops) /\ UNCHANGED queueVars
         \/ \E c \in Callers : BeginCall(c) \/ OwnStep(c)
         \/ \E x \in Cancelers : CloseQueue(x)
         \/ UNCHANGED vars
BY CloseIsSteps
   DEF Next, System, Environment, UserClose, Operate, Watch, Manage, CommonStep,
       CallerStep, OwnStep

(* What kevent returns to a wait.                                            *)
LEMMA HarvestGives ==
  ASSUME NEW c \in Callers, Harvest(c)
  PROVE  \/ \E d \in registered :
              /\ ObjectReady(d) /\ size' = [size EXCEPT ![c] = EventSize(d)]
              /\ pc' = [pc EXCEPT ![c] = "io"] /\ UNCHANGED out
         \/ /\ SignalReady(Dir(c)) /\ UNCHANGED size
            /\ pc' = [pc EXCEPT ![c] = "woken"] /\ UNCHANGED out
         \/ Settled(c, "error", 0) /\ UNCHANGED size
BY DEF Harvest

LEMMA OwnIsWait ==
  ASSUME Types, NEW c \in Callers, OwnStep(c)
  PROVE  Waits(c)
<1>1. /\ pc[c] \in {"enter", "wait", "woken", "io"}
      /\ UNCHANGED <<signalVars, job, ctx, watch, cause>>
  BY DEF OwnStep, EnterWait, Harvest, Woken, Read, RwRead, RwReadData,
       ReadFails, WriteSome, RwWriteSome, WriteReturn, WroteAll, WriteFails
<1>2. \/ \E q \in {"enter", "wait", "io", "join"} : pc' = [pc EXCEPT ![c] = q]
      \/ /\ pc' = [pc EXCEPT ![c] = "woken"]
         /\ pc[c] = "wait" /\ SignalReady(Dir(c))
  <2>1. CASE RwWriteSome(c, ChunkLen(c))
    <3>1. pc' = [pc EXCEPT ![c] = "io"]
      BY <2>1 DEF RwWriteSome, Types, OperationTypeOK
    <3> QED BY <3>1
  <2>2. CASE Harvest(c)
    BY <2>2, HarvestGives DEF Harvest, Settled
  <2>3. CASE ~ RwWriteSome(c, ChunkLen(c)) /\ ~ Harvest(c)
    BY <2>3 DEF OwnStep, EnterWait, Woken, Read, RwRead, RwReadData,
         WriteSome, WriteReturn, Settled
  <2> QED BY <2>1, <2>2, <2>3
<1> QED BY <1>1, <1>2 DEF Waits

LEMMA KqueueSteps ==
  ASSUME Types, [Next]_vars
  PROVE  [BackendStep(Ops)]_controlVars
<1>1. ASSUME NEW x \in Cancelers, CloseQueue(x) PROVE MovesOn(x)
  BY <1>1 DEF CloseQueue, At, Step, MovesOn
<1>2. UNCHANGED vars => UNCHANGED controlVars
  BY DEF vars, controlVars, opVars
<1> QED BY <1>1, <1>2, StepsAre, OwnIsWait DEF BackendStep, BeginCall

-----------------------------------------------------------------------------
(* The types.                                                                *)
KqueueTypes ==
  /\ Types
  /\ queueOpen \in BOOLEAN
  /\ registered \in SUBSET Dirs
  /\ written \in [Callers -> Nat]
  /\ size \in [Callers -> 0..BufSize]

(* The size of an event bounds what follows.                                 *)
LEMMA ChunkTyped ==
  ASSUME KqueueTypes, NEW c \in Callers
  PROVE  /\ ChunkLen(c) \in Int
         /\ written[c] <= len[c] => ChunkLen(c) <= len[c] - written[c]
BY OperationAssumption, StreamAssumption
   DEF ChunkLen, Least, KqueueTypes, Types, OperationTypeOK

LEMMA OwnTyped ==
  ASSUME KqueueTypes, NEW c \in Callers, OwnStep(c)
  PROVE  KqueueTypes'
<1> USE StreamAssumption, OperationAssumption
        DEF KqueueTypes, Types, OperationTypeOK, StreamTypeOK, streamVars,
             queueVars
<1>1. ASSUME \E e \in ErrorNames, k \in Nat : Settled(c, e, k),
             UNCHANGED <<ctx, watch, len, cause, moved, streamVars, queueOpen,
                         registered, size>>,
             part' \in [Callers -> Nat], written' \in [Callers -> Nat]
      PROVE  KqueueTypes'
  <2>1. pc' \in [Callers -> Places] /\ out' \in [Callers -> Results]
    BY <1>1, SettledTyped
  <2> QED BY <1>1, <2>1 DEF Places, Results, ErrorNames
<1>2. CASE EnterWait(c)
  <2>1. CASE Settled(c, "nil", written[c]) /\ UNCHANGED registered
    BY <1>1, <1>2, <2>1 DEF EnterWait, ErrorNames
  <2>2. CASE /\ pc' = [pc EXCEPT ![c] = "wait"] /\ UNCHANGED out
             /\ registered' = registered \cup {Dir(c)}
    BY <1>2, <2>2, CallersAreProcs DEF EnterWait
  <2> QED BY <1>2, <2>1, <2>2 DEF EnterWait
<1>3. CASE Harvest(c)
  <2>1. CASE Settled(c, "error", 0) /\ UNCHANGED size
    BY <1>1, <1>3, <2>1 DEF Harvest, ErrorNames
  <2>2. ASSUME NEW d \in registered, size' = [size EXCEPT ![c] = EventSize(d)],
               pc' = [pc EXCEPT ![c] = "io"], UNCHANGED out
        PROVE  KqueueTypes'
    BY <1>3, <2>2 DEF Harvest, EventSize
  <2>3. CASE pc' = [pc EXCEPT ![c] = "woken"] /\ UNCHANGED <<out, size>>
    BY <1>3, <2>3 DEF Harvest
  <2> QED BY <1>3, <2>1, <2>2, <2>3, HarvestGives
<1>4. CASE Woken(c)
  BY <1>1, <1>4 DEF Woken, ErrorNames
<1>5. CASE Read(c)
  <2>1. (IF size[c] < 1 THEN len[c] ELSE Least(size[c], len[c])) \in Int
    BY DEF Least
  <2> QED BY <1>5, <2>1, ReadTyped DEF Read
<1>6. CASE WriteSome(c)
  BY <1>6, ChunkTyped, WriteTyped DEF WriteSome
<1>7. CASE WriteReturn(c)
  <2>1. CASE Settled(c, "error", written[c] + part[c]) /\ UNCHANGED written
    BY <1>1, <1>7, <2>1 DEF WriteReturn, ErrorNames
  <2>2. CASE /\ pc' = [pc EXCEPT ![c] = "enter"] /\ UNCHANGED out
             /\ written' = [written EXCEPT ![c] = @ + part[c]]
    BY <1>7, <2>2 DEF WriteReturn
  <2> QED BY <1>7, <2>1, <2>2 DEF WriteReturn
<1> QED BY <1>2, <1>3, <1>4, <1>5, <1>6, <1>7 DEF OwnStep

LEMMA KqueueTyped ==
  ASSUME KqueueTypes, [Next]_vars
  PROVE  KqueueTypes'
<1>1. CASE CommonStep(Ops) /\ UNCHANGED queueVars
  BY <1>1, CommonTyped DEF KqueueTypes, queueVars
<1>2. ASSUME NEW c \in Callers, BeginCall(c) PROVE KqueueTypes'
  BY <1>2, BeginTyped DEF KqueueTypes, BeginCall
<1>3. ASSUME NEW x, CloseQueue(x) PROVE KqueueTypes'
  BY <1>3 DEF CloseQueue, KqueueTypes, Types, OperationTypeOK, StreamTypeOK,
       opVars, streamVars
<1>4. CASE UNCHANGED vars
  BY <1>4 DEF vars, KqueueTypes, Types, OperationTypeOK, StreamTypeOK, opVars,
              streamVars, queueVars
<1> QED BY <1>1, <1>2, <1>3, <1>4, StepsAre, OwnTyped

LEMMA KqueueStart ==
  ASSUME Init
  PROVE  KqueueTypes /\ SignalInv(Ops)
<1>1. SignalInv(Ops)
  BY SignalInvStart DEF Init
<1>2. KqueueTypes
  BY TypesStart, StreamAssumption DEF Init, KqueueTypes
<1> QED BY <1>1, <1>2

LEMMA SpecTypes == Spec => [](KqueueTypes /\ SignalTypeOK /\ Jobs(Ops) /\ Conservation)
<1>1. Init => KqueueTypes /\ SignalTypeOK /\ Jobs(Ops) /\ Conservation
  BY KqueueStart DEF SignalInv
<1>2. KqueueTypes /\ SignalTypeOK /\ Jobs(Ops) /\ Conservation /\ [Next]_vars
        => (KqueueTypes /\ SignalTypeOK /\ Jobs(Ops) /\ Conservation)'
  BY KqueueTyped, KqueueSteps, SignalKept, JobsKept DEF KqueueTypes
<1> QED BY <1>1, <1>2, PTL DEF Spec

(***************************************************************************)
(* Type correctness of the kqueue backend.                                 *)
(***************************************************************************)
THEOREM KqueueTypeCorrect == Spec => []TypeOK
<1>1. KqueueTypes /\ SignalTypeOK /\ Jobs(Ops) => TypeOK
  BY JobIsTyped DEF KqueueTypes, Types, Ops, TypeOK
<1> QED BY <1>1, SpecTypes, PTL

(***************************************************************************)
(* The signal of the backend is a CancelSignal, so that its bytes balance. *)
(***************************************************************************)
THEOREM KqueueHasSignal == Spec => SignalSpec
<1>1. Init => SignalInit
  BY DEF Init
<1>2. KqueueTypes /\ [Next]_vars => [SignalNext]_signalVars
  BY KqueueSteps, SignalSimulated DEF KqueueTypes
<1> QED BY <1>1, <1>2, SpecTypes, PTL DEF Spec, SignalSpec

-----------------------------------------------------------------------------
(* The bytes that crossed the object are those of the finished writes and of *)
(* the one in progress.                                                      *)
Busy(c) == pc[c] \notin {"idle", "join"}

Account ==
  \A c \in Callers : Busy(c) =>
    /\ moved[c] = written[c] + part[c]
    /\ pc[c] # "io" => part[c] = 0
    /\ pc[c] \in {"check", "reset", "drain"} => written[c] = 0
    /\ written[c] <= len[c]
    /\ c \in Readers => written[c] = 0 /\ part[c] = 0

LEMMA AccountKept ==
  ASSUME KqueueTypes, Account, [Next]_vars
  PROVE  Account'
<1> USE StreamAssumption, OperationAssumption
        DEF KqueueTypes, Types, OperationTypeOK, StreamTypeOK, streamVars,
             queueVars, Account, Busy
<1>1. CASE CommonStep(Ops) /\ UNCHANGED queueVars
  BY <1>1, CommonMoves DEF Moves
<1>2. ASSUME NEW c \in Callers, BeginCall(c) PROVE Account'
  BY <1>2 DEF BeginCall, BeginOperation, Begin, Lengths
<1>3. ASSUME NEW c \in Callers, OwnStep(c) PROVE Account'
  <2>1. CASE EnterWait(c)
    BY <2>1 DEF EnterWait, Settled
  <2>2. CASE Harvest(c)
    <3>1. \E q \in {"io", "woken", "join"} : pc' = [pc EXCEPT ![c] = q]
      BY <2>2, HarvestGives DEF Settled
    <3> QED BY <2>2, <3>1 DEF Harvest
  <2>3. CASE Woken(c)
    BY <2>3 DEF Woken, Settled
  <2>4. CASE Read(c)
    BY <2>4 DEF Read, RwRead, RwReadData, ReadFails, Settled, Least
  <2>5. CASE WriteSome(c)
    BY <2>5, ChunkTyped DEF WriteSome, RwWriteSome, Least
  <2>6. CASE WriteReturn(c)
    BY <2>6, ChunkTyped DEF WriteReturn, WroteAll, WriteFails, Settled
  <2> QED BY <1>3, <2>1, <2>2, <2>3, <2>4, <2>5, <2>6 DEF OwnStep
<1>4. ASSUME NEW x, CloseQueue(x) PROVE Account'
  BY <1>4 DEF CloseQueue, opVars
<1>5. CASE UNCHANGED vars
  BY <1>5 DEF vars, opVars
<1> QED BY <1>1, <1>2, <1>3, <1>4, <1>5, StepsAre

(* A wait that ends with an error or a cancel forgets bytesWritten.          *)
WaitsForget == Forgotten = {"canceled", "error"}

LEMMA OwnRefines ==
  ASSUME WaitsForget, KqueueTypes, Account, NEW c \in Callers, OwnStep(c)
  PROVE  KeepsCounts /\ (OneEach /\ SignalInv(Ops) => KeepsPromise)
<1> USE OperationAssumption
<1>t. /\ Types
      /\ moved \in [Callers -> Nat] /\ written \in [Callers -> Nat]
      /\ part \in [Callers -> Nat] /\ len \in [Callers -> 0..MaxLen]
      /\ size \in [Callers -> Nat]
  BY StreamAssumption DEF KqueueTypes, Types, OperationTypeOK
<1>b. /\ pc[c] \in {"enter", "wait", "woken", "io"}
      /\ Phase(pc[c]) = "busy"
      /\ moved[c] = written[c] + part[c]
      /\ pc[c] # "io" => part[c] = 0
      /\ written[c] <= len[c]
      /\ c \in Readers => moved[c] = 0
  BY <1>t, OwnIsWait DEF Account, Busy, Phase, Waits
<1>n. ChunkLen(c) \in Int /\ ChunkLen(c) <= len[c]
  BY <1>b, <1>t, ChunkTyped
<1>f. ASSUME NEW e \in {"canceled", "error"}, Settled(c, e, 0)
      PROVE  \/ Settled(c, e, moved[c])
             \/ c \in Writers /\ e \in Forgotten /\ Settled(c, e, 0)
  BY <1>b, <1>f DEF WaitsForget, Callers
<1>1. ASSUME EnterWait(c)
      PROVE  [Promise!ContextNext]_Promise!contextVars
  <2>1. moved[c] = written[c] /\ UNCHANGED <<moved, cause>>
    BY <1>1, <1>b, <1>t DEF EnterWait
  <2> QED BY <1>1, <1>b, <1>t, <2>1, SettlesNow, GoesOn DEF EnterWait,
         ErrorNames, Places
<1>2. ASSUME Harvest(c)
      PROVE  [Promise!ContextNext]_Promise!contextVars
  <2>1. UNCHANGED <<moved, cause>>
    BY <1>2 DEF Harvest
  <2>2. CASE Settled(c, "error", 0)
    BY <1>b, <1>f, <1>t, <2>1, <2>2, SettlesNow DEF ErrorNames
  <2>3. CASE UNCHANGED out /\ \E q \in {"io", "woken"} : pc' = [pc EXCEPT ![c] = q]
    BY <1>b, <1>t, <2>1, <2>3, GoesOn DEF Places
  <2> QED BY <1>2, <2>2, <2>3, HarvestGives
<1>3. CASE Woken(c)
  <2>1. UNCHANGED <<moved, cause>> /\ (SignalInv(Ops) => cause[c])
    BY <1>3, <1>b DEF Woken, SignalInv, CauseInv
  <2>2. CASE Settled(c, "canceled", 0)
    <3>1. \/ Settled(c, "canceled", moved[c])
          \/ c \in Writers /\ "canceled" \in Forgotten /\ Settled(c, "canceled", 0)
      BY <1>f, <2>2
    <3> QED BY <1>b, <1>t, <2>1, <3>1, SettlesCanceled
  <2>3. CASE Settled(c, "error", 0)
    <3>1. Promise!ContextNext
      BY <1>b, <1>f, <1>t, <2>1, <2>3, SettlesNow DEF ErrorNames
    <3> QED BY <3>1, PromiseKeepsCounts DEF KeepsPromise
  <2> QED BY <1>3, <2>2, <2>3 DEF Woken
<1>4. ASSUME Read(c)
      PROVE  [Promise!ContextNext]_Promise!contextVars
  <2>1. moved[c] = 0
    BY <1>4, <1>b DEF Read, RwRead, RwReadData, ReadFails
  <2> DEFINE most == IF size[c] < 1 THEN len[c] ELSE Least(size[c], len[c])
  <2>2. most \in Int /\ most <= len[c]
    BY <1>t DEF Least
  <2>3. RwRead(c, most)
    BY <1>4 DEF Read
  <2> HIDE DEF most
  <2> QED BY <1>t, <2>1, <2>2, <2>3, ReadRefines
<1>5. ASSUME WriteSome(c)
      PROVE  [Promise!ContextNext]_Promise!contextVars
  BY <1>5, <1>n, <1>t, WriteRefines DEF WriteSome
<1>6. ASSUME WriteReturn(c)
      PROVE  [Promise!ContextNext]_Promise!contextVars
  <2>1. UNCHANGED <<moved, cause>>
    BY <1>6 DEF WriteReturn
  <2> QED BY <1>6, <1>b, <1>t, <2>1, SettlesNow, GoesOn
          DEF WriteReturn, ErrorNames, Places
<1>7. CASE ~ Woken(c)
  <2>1. KeepsPromise
    BY <1>1, <1>2, <1>4, <1>5, <1>6, <1>7 DEF OwnStep, KeepsPromise
  <2> QED BY <2>1, PromiseKeepsCounts
<1> QED BY <1>3, <1>7

LEMMA StepRefines ==
  ASSUME WaitsForget, KqueueTypes, Account, [Next]_vars
  PROVE  KeepsCounts /\ (OneEach /\ SignalInv(Ops) => KeepsPromise)
<1>i. Types /\ \A c \in Callers : pc[c] = "check" => moved[c] = 0
  BY DEF KqueueTypes, Account, Busy
<1>1. CASE CommonStep(Ops)
  BY <1>i, <1>1, CommonRefines DEF SignalInv
<1>2. ASSUME NEW c \in Callers, BeginCall(c) PROVE Promise!ContextNext
  BY <1>i, <1>2, BeginRefines DEF BeginCall
<1>3. ASSUME NEW c \in Callers, OwnStep(c)
      PROVE  KeepsCounts /\ (OneEach /\ SignalInv(Ops) => KeepsPromise)
  BY <1>3, OwnRefines
<1>4. ASSUME NEW x, CloseQueue(x) PROVE UNCHANGED <<pc, cause, moved, out>>
  BY <1>4 DEF CloseQueue, opVars
<1>5. UNCHANGED vars => UNCHANGED <<pc, cause, moved, out>>
  BY DEF vars, opVars
<1>6. UNCHANGED <<pc, cause, moved, out>> => UNCHANGED Promise!contextVars
  BY DEF Promise!contextVars
<1>7. CASE ~ CommonStep(Ops) /\ \A c \in Callers : ~ OwnStep(c)
  <2>1. KeepsPromise
    BY <1>2, <1>4, <1>5, <1>6, <1>7, StepsAre DEF KeepsPromise
  <2> QED BY <2>1, PromiseKeepsCounts
<1> QED BY <1>1, <1>3, <1>7

(***************************************************************************)
(* With one caller for each direction, the kqueue backend keeps the        *)
(* promise of ContextIO, both directions in use or one, but for the count  *)
(* of a write whose wait ends with an error or a cancel: ErrCanceled has a *)
(* reason of its own, and every other count is exact.                      *)
(***************************************************************************)
THEOREM KqueueImplements ==
  ASSUME OneEach, WaitsForget
  PROVE  Spec => ImplementsContextIO
<1>1. Init => Promise!ContextInit
  BY DEF Init, OperationInit, NoResult, Promise!ContextInit, Promise!NoResult
<1> DEFINE Inv == KqueueTypes /\ SignalInv(Ops) /\ Account
<1>2. Init => Inv
  BY KqueueStart DEF Init, OperationInit, Account, Busy
<1>3. Inv /\ [Next]_vars => Inv'
  BY KqueueTyped, KqueueSteps, SignalInvKept, AccountKept DEF KqueueTypes
<1>4. Inv /\ [Next]_vars => [Promise!ContextNext]_Promise!contextVars
  BY StepRefines DEF KeepsPromise
<1> QED BY <1>1, <1>2, <1>3, <1>4, PTL
        DEF Spec, ImplementsContextIO, Promise!ContextSpec

(***************************************************************************)
(* Any number of operations of either direction may overlap on the one     *)
(* queue and be given the events of each other: every count is that of the *)
(* bytes moved, but for a write whose wait ends with an error or a cancel, *)
(* which drops it.                                                         *)
(***************************************************************************)
THEOREM KqueueCounts ==
  ASSUME WaitsForget
  PROVE  Spec => CountsExact
<1>1. Init => Counts!ContextInit
  BY DEF Init, OperationInit, NoResult, Counts!ContextInit, Counts!NoResult
<1>2. Init => Account
  BY DEF Init, OperationInit, Account, Busy
<1>3. KqueueTypes /\ Account /\ [Next]_vars => Account'
  BY AccountKept
<1>4. KqueueTypes /\ Account /\ [Next]_vars => [Counts!ContextNext]_Counts!contextVars
  BY StepRefines DEF KeepsCounts
<1> QED BY <1>1, <1>2, <1>3, <1>4, SpecTypes, PTL
        DEF Spec, CountsExact, Counts!ContextSpec

-----------------------------------------------------------------------------
(* Only the directions that are used are registered.                         *)
Registered == \A d \in registered : \E c \in Callers : Dir(c) = d

LEMMA RegisteredKept ==
  ASSUME Registered, [Next]_vars
  PROVE  Registered'
<1>1. ASSUME NEW c \in Callers, BeginCall(c) \/ OwnStep(c)
      PROVE  registered' \in {registered, registered \cup {Dir(c)}}
  BY <1>1 DEF BeginCall, OwnStep, EnterWait, Harvest, Woken, Read, WriteSome,
              WriteReturn, queueVars
<1>2. ASSUME NEW x, CloseQueue(x) PROVE UNCHANGED registered
  BY <1>2 DEF CloseQueue
<1>3. UNCHANGED queueVars \/ UNCHANGED vars => UNCHANGED registered
  BY DEF vars, queueVars
<1> QED BY <1>1, <1>2, <1>3, StepsAre DEF Registered

LEMMA ReadyKept ==
  ASSUME OneEach, Writers = {}, KqueueTypes, Registered, ReadNeverBlocks, [Next]_vars
  PROVE  ReadNeverBlocks'
<1>t. Types /\ pc \in [Callers -> Places] /\ avail \in Nat
  BY StreamAssumption DEF KqueueTypes, Types, OperationTypeOK, StreamTypeOK,
       Places
<1>1. CASE CommonStep(Ops)
  BY <1>t, <1>1, CommonReady
<1>2. ASSUME NEW c \in Callers, BeginCall(c) PROVE ReadNeverBlocks'
  BY <1>t, <1>2, BeginReady DEF BeginCall
<1>3. ASSUME NEW c \in Callers, OwnStep(c) PROVE ReadNeverBlocks'
  <2>1. CASE Harvest(c)
    <3>1. UNCHANGED <<avail, peer, rwOpen>>
      BY <2>1 DEF Harvest, streamVars
    <3>2. ASSUME NEW d \in registered, ObjectReady(d) PROVE ReadNeverBlocks'
      <4>1. Readable
        BY <3>2 DEF Registered, Callers, Dir, ObjectReady
      <4> QED BY <3>1, <4>1 DEF ReadNeverBlocks, Readable
    <3>3. ASSUME \/ pc' = [pc EXCEPT ![c] = "woken"]
                 \/ Settled(c, "error", 0)
          PROVE  \A e \in Readers : pc'[e] = "io" => pc[e] = "io"
      BY <1>t, <3>3 DEF Settled, Callers
    <3> QED BY <1>t, <2>1, <3>1, <3>2, <3>3, HarvestGives, ReadyStays
  <2>2. CASE Read(c)
    BY <1>t, <2>2, ReadReady DEF Read
  <2>3. CASE ~ Harvest(c) /\ ~ Read(c)
    <3>1. UNCHANGED <<avail, peer, rwOpen>>
      BY <1>3, <2>3 DEF OwnStep, EnterWait, Woken, WriteSome, RwWriteSome,
           WriteReturn, streamVars
    <3>2. \A e \in Readers : pc'[e] = "io" => pc[e] = "io"
      BY <1>3, <1>t, <2>3 DEF OwnStep, EnterWait, Woken, Settled, WriteSome,
           RwWriteSome, WriteReturn, Callers
    <3> QED BY <1>t, <3>1, <3>2, ReadyStays
  <2> QED BY <2>1, <2>2, <2>3
<1>4. ASSUME UNCHANGED <<pc, avail, peer, rwOpen>> PROVE ReadNeverBlocks'
  BY <1>4 DEF ReadNeverBlocks, Readable
<1>5. ASSUME NEW x, CloseQueue(x)
      PROVE  UNCHANGED <<pc, avail, peer, rwOpen>>
  BY <1>5 DEF CloseQueue, opVars, streamVars
<1>6. UNCHANGED vars => UNCHANGED <<pc, avail, peer, rwOpen>>
  BY DEF vars, opVars, streamVars
<1> QED BY <1>1, <1>2, <1>3, <1>4, <1>5, <1>6, StepsAre

(***************************************************************************)
(* One reader, and nobody who writes: it is in rw.Read, which no cancel    *)
(* reaches, only while that cannot block.  With a writer, the event of the *)
(* other direction would send it there.                                    *)
(***************************************************************************)
THEOREM KqueueReadsReady ==
  ASSUME OneEach, Writers = {}
  PROVE  Spec => []ReadNeverBlocks
<1>1. Init => ReadNeverBlocks /\ Registered
  BY DEF Init, OperationInit, ReadNeverBlocks, Registered, Callers
<1>2. KqueueTypes /\ Registered /\ ReadNeverBlocks /\ [Next]_vars
        => (Registered /\ ReadNeverBlocks)'
  BY ReadyKept, RegisteredKept
<1> QED BY <1>1, <1>2, SpecTypes, PTL DEF Spec

(* There is room for what a writer in rw.Write has left to write.            *)
Fits(c) ==
  \/ ChunkLen(c) - part[c] <= space
  \/ peer = "closed" \/ ~ rwOpen

LEMMA FitsStays ==
  ASSUME KqueueTypes, NEW e \in Writers, Fits(e), UNCHANGED <<written, size>>,
         UNCHANGED <<part[e], len[e]>>, Grows
  PROVE  Fits(e)'
<1>1. ChunkLen(e)' = ChunkLen(e)
  BY DEF ChunkLen
<1>2. ChunkLen(e) \in Int /\ part[e] \in Nat /\ space \in Nat /\ space' \in Nat
  BY ChunkTyped, StreamAssumption
     DEF KqueueTypes, Types, OperationTypeOK, StreamTypeOK, Callers, Grows
<1> QED BY <1>1, <1>2 DEF Fits, Grows

LEMMA FitsKept ==
  ASSUME OneEach, Readers = {}, ~ IsFile, KqueueTypes, Registered, WriteNeverBlocks,
         Account, [Next]_vars
  PROVE  WriteNeverBlocks'
<1> SUFFICES ASSUME NEW e \in Writers, pc'[e] = "io"
             PROVE  Fits(e)'
  BY DEF WriteNeverBlocks, Fits
<1>t. /\ Types /\ pc \in [Callers -> Places] /\ avail \in Nat /\ space \in Nat
      /\ written \in [Callers -> Nat] /\ part \in [Callers -> Nat]
      /\ len \in [Callers -> Nat] /\ size \in [Callers -> Nat]
      /\ e \in Callers /\ \A c \in Callers : c = e
  BY StreamAssumption, OperationAssumption DEF KqueueTypes, Types,
       OperationTypeOK, StreamTypeOK, Places, Callers, OneEach, Dir
<1>0. pc[e] = "io" => Fits(e)
  BY DEF WriteNeverBlocks, Fits
<1>1. CASE CommonStep(Ops) /\ UNCHANGED queueVars
  <2>1. pc[e] = "io" /\ UNCHANGED <<part[e], len[e]>> /\ Grows
    BY <1>t, <1>1, CommonMoves, CommonGrows DEF Moves
  <2> QED BY <1>0, <1>1, <2>1, FitsStays DEF queueVars
<1>2. ASSUME NEW c \in Callers, BeginCall(c) PROVE FALSE
  BY <1>t, <1>2 DEF BeginCall, BeginOperation, Begin
<1>3. ASSUME NEW c \in Callers, OwnStep(c) PROVE Fits(e)'
  <2>0. c = e
    BY <1>t
  <2>1. CASE Harvest(e)
    <3>1. UNCHANGED <<space, peer, rwOpen, part, written, len>>
      BY <2>1 DEF Harvest, streamVars
    <3>2. PICK d \in registered : ObjectReady(d) /\ size' = [size EXCEPT ![e] = EventSize(d)]
      BY <1>t, <2>1, HarvestGives DEF Settled
    <3>3. size'[e] = space
      BY <1>t, <3>2 DEF Registered, Callers, Dir, EventSize
    <3>4. ChunkLen(e)' \in Int /\ ChunkLen(e)' <= space
      BY <1>t, <3>1, <3>3 DEF ChunkLen, Least
    <3> QED BY <1>t, <3>1, <3>4 DEF Fits
  <2>2. CASE WriteSome(e)
    <3>1. pc[e] = "io" /\ UNCHANGED <<written, len, size, peer, rwOpen>>
      BY <2>2 DEF WriteSome, RwWriteSome, queueVars
    <3>2. PICK k \in 1..Least(ChunkLen(e) - part[e], space) :
            space' = space - k /\ part'[e] = part[e] + k
      BY <1>t, <2>2 DEF WriteSome, RwWriteSome
    <3>3. k \in Nat /\ ChunkLen(e) \in Int
      BY <1>t, ChunkTyped
    <3>4. ChunkLen(e)' = ChunkLen(e)
      BY <3>1 DEF ChunkLen
    <3> QED BY <1>t, <1>0, <3>1, <3>2, <3>3, <3>4 DEF Fits
  <2>3. ~ Read(e)
    BY <1>t DEF Read, RwRead, RwReadData, ReadFails
  <2>4. ~ EnterWait(e) /\ ~ Woken(e) /\ ~ WriteReturn(e)
    BY <1>t DEF EnterWait, Woken, WriteReturn, Settled
  <2> QED BY <1>3, <2>0, <2>1, <2>2, <2>3, <2>4 DEF OwnStep
<1>4. ASSUME UNCHANGED <<opVars, streamVars, written, size>> PROVE Fits(e)'
  <2>1. pc[e] = "io" /\ Grows
    BY <1>t, <1>4 DEF opVars, streamVars, Grows
  <2> QED BY <1>0, <1>4, <2>1, FitsStays DEF opVars
<1>5. ASSUME NEW x, CloseQueue(x) PROVE UNCHANGED <<opVars, streamVars, written, size>>
  BY <1>5 DEF CloseQueue
<1>6. UNCHANGED vars => UNCHANGED <<opVars, streamVars, written, size>>
  BY DEF vars, queueVars
<1> QED BY <1>1, <1>2, <1>3, <1>4, <1>5, <1>6, StepsAre

(***************************************************************************)
(* One writer to a socket, and nobody who reads: it is in rw.Write only    *)
(* with room for all that is left of the write, which is no more than the  *)
(* size the queue reported.                                                *)
(***************************************************************************)
THEOREM KqueueWritesReady ==
  ASSUME OneEach, Readers = {}, ~ IsFile
  PROVE  Spec => []WriteNeverBlocks
<1>1. Init => WriteNeverBlocks /\ Registered /\ Account
  BY DEF Init, OperationInit, WriteNeverBlocks, Registered, Account, Busy,
       Callers
<1>2. KqueueTypes /\ Registered /\ WriteNeverBlocks /\ Account /\ [Next]_vars
        => (Registered /\ WriteNeverBlocks /\ Account)'
  BY FitsKept, RegisteredKept, AccountKept
<1> QED BY <1>1, <1>2, SpecTypes, PTL DEF Spec

(***************************************************************************)
(* With one caller for each direction, the wait of an operation misses no  *)
(* cancel and no expired context, and no byte of an earlier one is left    *)
(* in the pipe to end it: kqueue, any number of goroutines that cancel,    *)
(* reset and close.                                                        *)
(***************************************************************************)
THEOREM KqueueReaches ==
  ASSUME OneEach
  PROVE  Spec => []CancelReaches
<1> DEFINE Inv == KqueueTypes /\ SignalInv(Ops) /\ ExpiryInv
<1>1. Init => Inv
  BY KqueueStart DEF Init, OperationInit, ExpiryInv, PastCheck
<1>2. Inv /\ [Next]_vars => Inv'
  BY KqueueTyped, KqueueSteps, SignalInvKept, ExpiryKept DEF KqueueTypes
<1>3. Inv => CancelReaches
  BY ReachesCaller
<1> QED BY <1>1, <1>2, <1>3, PTL DEF Spec

=============================================================================
