---------------------------- MODULE SelectIOProofs ----------------------------
(***************************************************************************)
(* Proofs about SelectIO, for any number of goroutines and buffers of any  *)
(* size: the types, that a cancel that is over comes before data, which    *)
(* follows from the balance of the bytes in the cancel pipe, and, with one *)
(* caller for each direction, that the backend implements ContextIO.       *)
(***************************************************************************)
EXTENDS SelectIO, SignalIOProofs

Ops == {"cancel", "reset", "writer", "reader", "object"}

LEMMA CloseIsSteps == \A s \in Methods \cup {Close} : s \in Seq(StepsOf(Ops))
<1>1. Close \in Seq(StepsOf(Ops))
  BY MethodsAreSteps, ConcatProperties DEF Close, Ops
<1> QED BY <1>1, MethodsAreSteps DEF Ops

(***************************************************************************)
(* The steps of the backend: those of SignalIO, and its own.               *)
(***************************************************************************)
OwnStep(c) ==
  EnterSelect(c) \/ Select(c) \/ Read(c) \/ WriteSome(c) \/ WriteReturn(c)

LEMMA StepsAre ==
  ASSUME [Next]_vars
  PROVE  \/ CommonStep(Ops) /\ UNCHANGED abort
         \/ \E c \in Callers : BeginOperation(c) /\ UNCHANGED abort
         \/ \E c \in Callers : OwnStep(c)
         \/ UNCHANGED vars
BY CloseIsSteps
   DEF Next, System, Environment, UserClose, Operate, Watch, Manage, CommonStep,
       CallerStep, OwnStep

LEMMA OwnIsWait ==
  ASSUME Types, NEW c \in Callers, OwnStep(c)
  PROVE  Waits(c)
<1>1. /\ pc[c] \in {"enter", "wait", "woken", "io"}
      /\ UNCHANGED <<signalVars, job, ctx, watch, cause>>
  BY DEF OwnStep, EnterSelect, Select, Read, RwRead, RwReadData, ReadFails,
         WriteSome, RwWriteSome, WriteReturn, WroteAll, WriteFails
<1>2. \E q \in {"enter", "wait", "io", "join"} : pc' = [pc EXCEPT ![c] = q]
  <2>1. CASE RwWriteSome(c, len[c])
    <3>1. pc' = [pc EXCEPT ![c] = "io"]
      BY <2>1 DEF RwWriteSome, Types, OperationTypeOK
    <3> QED BY <3>1
  <2>2. CASE ~ RwWriteSome(c, len[c])
    BY <2>2 DEF OwnStep, EnterSelect, Select, Read, RwRead, RwReadData,
         WriteSome, WriteReturn, Settled
  <2> QED BY <2>1, <2>2
<1> QED BY <1>1, <1>2 DEF Waits

LEMMA SelectSteps ==
  ASSUME Types, [Next]_vars
  PROVE  [BackendStep(Ops)]_controlVars
<1>1. UNCHANGED vars => UNCHANGED controlVars
  BY DEF vars, controlVars, opVars
<1> QED BY <1>1, StepsAre, OwnIsWait DEF BackendStep

-----------------------------------------------------------------------------
(* The types.                                                                *)
SelectTypes == Types /\ abort \in [Callers -> BOOLEAN]

LEMMA OwnTyped ==
  ASSUME SelectTypes, NEW c \in Callers, OwnStep(c)
  PROVE  SelectTypes'
<1> USE StreamAssumption, OperationAssumption
        DEF SelectTypes, Types, OperationTypeOK, StreamTypeOK, streamVars
<1>1. ASSUME \E e \in ErrorNames, k \in Nat : Settled(c, e, k),
             UNCHANGED <<ctx, watch, len, part, cause, moved, streamVars>>
      PROVE  Types'
  <2>1. pc' \in [Callers -> Places] /\ out' \in [Callers -> Results]
    BY <1>1, SettledTyped
  <2> QED BY <1>1, <2>1 DEF Places, Results, ErrorNames
<1>2. CASE EnterSelect(c)
  <2>1. abort' \in [Callers -> BOOLEAN]
    BY <1>2 DEF EnterSelect
  <2>2. CASE Settled(c, "error", 0)
    BY <1>1, <1>2, <2>1, <2>2 DEF EnterSelect, ErrorNames
  <2>3. CASE pc' = [pc EXCEPT ![c] = "wait"] /\ UNCHANGED out
    BY <1>2, <2>1, <2>3 DEF EnterSelect
  <2> QED BY <1>2, <2>2, <2>3 DEF EnterSelect
<1>3. CASE Select(c)
  <2>1. CASE Settled(c, "canceled", 0)
    BY <1>1, <1>3, <2>1 DEF Select, ErrorNames
  <2>2. CASE pc' = [pc EXCEPT ![c] = "io"] /\ UNCHANGED out
    BY <1>3, <2>2 DEF Select
  <2> QED BY <1>3, <2>1, <2>2 DEF Select
<1>4. CASE Read(c)
  BY <1>4, ReadTyped DEF Read
<1>5. CASE WriteSome(c)
  BY <1>5, WriteTyped DEF WriteSome
<1>6. CASE WriteReturn(c)
  BY <1>1, <1>6 DEF WriteReturn, ErrorNames
<1> QED BY <1>2, <1>3, <1>4, <1>5, <1>6 DEF OwnStep

LEMMA SelectTyped ==
  ASSUME SelectTypes, [Next]_vars
  PROVE  SelectTypes'
<1>1. CASE CommonStep(Ops) /\ UNCHANGED abort
  BY <1>1, CommonTyped DEF SelectTypes
<1>2. ASSUME NEW c \in Callers, BeginOperation(c) /\ UNCHANGED abort
      PROVE  SelectTypes'
  BY <1>2, BeginTyped DEF SelectTypes
<1>3. CASE UNCHANGED vars
  BY <1>3 DEF vars, SelectTypes, Types, OperationTypeOK, StreamTypeOK, opVars,
              streamVars
<1> QED BY <1>1, <1>2, <1>3, StepsAre, OwnTyped

LEMMA SelectStart ==
  ASSUME Init
  PROVE  SelectTypes /\ SignalInv(Ops)
<1>1. SignalInv(Ops)
  BY SignalInvStart DEF Init
<1>2. SelectTypes
  BY TypesStart DEF Init, SelectTypes
<1> QED BY <1>1, <1>2

LEMMA SpecTypes == Spec => [](SelectTypes /\ SignalTypeOK /\ Jobs(Ops) /\ Conservation)
<1>1. Init => SelectTypes /\ SignalTypeOK /\ Jobs(Ops) /\ Conservation
  BY SelectStart DEF SignalInv
<1>2. SelectTypes /\ SignalTypeOK /\ Jobs(Ops) /\ Conservation /\ [Next]_vars
        => (SelectTypes /\ SignalTypeOK /\ Jobs(Ops) /\ Conservation)'
  BY SelectTyped, SelectSteps, SignalKept, JobsKept DEF SelectTypes
<1> QED BY <1>1, <1>2, PTL DEF Spec

(***************************************************************************)
(* Type correctness of the select backend.                                 *)
(***************************************************************************)
THEOREM SelectTypeCorrect == Spec => []TypeOK
<1>1. SelectTypes /\ SignalTypeOK /\ Jobs(Ops) => TypeOK
  BY JobIsTyped DEF SelectTypes, Types, Ops, TypeOK
<1> QED BY <1>1, SpecTypes, PTL

(***************************************************************************)
(* The signal of the backend is a CancelSignal, so that its bytes balance. *)
(***************************************************************************)
THEOREM SelectHasSignal == Spec => SignalSpec
<1>1. Init => SignalInit
  BY DEF Init
<1>2. SelectTypes /\ [Next]_vars => [SignalNext]_signalVars
  BY SelectSteps, SignalSimulated DEF SelectTypes
<1> QED BY <1>1, <1>2, SpecTypes, PTL DEF Spec, SignalSpec

-----------------------------------------------------------------------------
(* A pipe without an event belongs to a flag that is not set, or to one      *)
(* whose byte is about to be written.                                        *)
LEMMA SilentPipe ==
  ASSUME SignalTypeOK, Conservation, NEW d \in Dirs,
         ~ SignalReady(d), "reader" \in ends[d]
  PROVE  ~ canceled[d] \/ signaling[d] # {}
<1>1. ends[d] = BothEnds /\ ~ (pipe[d] > 0)
  BY DEF SignalReady, SignalTypeOK, BothEnds
<1>2. SUFFICES ASSUME canceled[d], signaling[d] = {} PROVE FALSE
  OBVIOUS
<1>3. Cardinality(signaling[d]) = 0
  BY <1>2, FS_EmptySet
<1>4. Cardinality(draining[d]) \in Nat
  BY ProcsFinite DEF SignalTypeOK
<1> QED BY <1>1, <1>2, <1>3, <1>4 DEF Conservation, Flag, SignalTypeOK

(***************************************************************************)
(* An operation that begins to wait with an open pipe enters rw.Read or    *)
(* rw.Write only when no cancel of its direction is over, for any number   *)
(* of goroutines that cancel and reset meanwhile.                          *)
(***************************************************************************)
THEOREM SelectLooksAtCancelFirst == Spec => CanceledFirst
<1> DEFINE Enters ==
      \A c \in Callers :
        pc[c] = "wait" /\ pc'[c] = "io" /\ abort[c]
          => ~ canceled[Dir(c)] \/ signaling[Dir(c)] # {}
<1>1. ASSUME SelectTypes, SignalTypeOK, Conservation, [Next]_vars PROVE Enters
  <2> SUFFICES ASSUME NEW e \in Callers, pc[e] = "wait", pc'[e] = "io", abort[e]
               PROVE  ~ canceled[Dir(e)] \/ signaling[Dir(e)] # {}
    OBVIOUS
  <2>t. pc \in [Callers -> Places] /\ Types /\ Dir(e) \in Dirs
    BY <1>1, CallersAreProcs DEF SelectTypes, Types, OperationTypeOK, Places
  <2>1. ~ CommonStep(Ops)
    BY <2>t, CommonMoves DEF Moves
  <2>2. \A c \in Callers : ~ BeginOperation(c)
    BY <2>t DEF BeginOperation, Begin
  <2>3. PICK c \in Callers : OwnStep(c)
    BY <1>1, <2>1, <2>2, StepsAre DEF vars, opVars
  <2>4. c = e
    BY <2>t, <2>3, OwnIsWait DEF Waits
  <2>5. Select(e)
    BY <2>t, <2>3, <2>4 DEF OwnStep, EnterSelect, Read, RwRead, RwReadData,
         ReadFails, WriteSome, RwWriteSome, WriteReturn, WroteAll, WriteFails
  <2>6. ~ AbortSet(e)
    BY <2>t, <2>5 DEF Select, Settled
  <2> QED BY <1>1, <2>t, <2>6, SilentPipe DEF AbortSet
<1>2. Enters => [Enters]_vars
  OBVIOUS
<1> QED BY <1>1, SpecTypes, PTL DEF Spec, CanceledFirst

-----------------------------------------------------------------------------
(* The bytes of an operation in progress are those of its rw.Write.          *)
Busy(c) == pc[c] \notin {"idle", "join"}

Account ==
  \A c \in Callers : Busy(c) =>
    /\ moved[c] = part[c]
    /\ pc[c] # "io" \/ c \in Readers => part[c] = 0

LEMMA AccountKept ==
  ASSUME SelectTypes, Account, [Next]_vars
  PROVE  Account'
<1> USE StreamAssumption, OperationAssumption
        DEF SelectTypes, Types, OperationTypeOK, StreamTypeOK, streamVars,
             Account, Busy
<1>1. CASE CommonStep(Ops) /\ UNCHANGED abort
  BY <1>1, CommonMoves DEF Moves
<1>2. ASSUME NEW c \in Callers, BeginOperation(c) PROVE Account'
  BY <1>2 DEF BeginOperation, Begin
<1>3. ASSUME NEW c \in Callers, OwnStep(c) PROVE Account'
  <2>1. CASE EnterSelect(c) \/ Select(c)
    BY <2>1 DEF EnterSelect, Select, Settled
  <2>2. CASE Read(c)
    BY <2>2 DEF Read, RwRead, RwReadData, ReadFails, Settled, Least
  <2>3. CASE WriteSome(c)
    BY <2>3 DEF WriteSome, RwWriteSome, Least
  <2>4. CASE WriteReturn(c)
    BY <2>4 DEF WriteReturn, WroteAll, WriteFails, Settled
  <2> QED BY <1>3, <2>1, <2>2, <2>3, <2>4 DEF OwnStep
<1>4. CASE UNCHANGED vars
  BY <1>4 DEF vars, opVars
<1> QED BY <1>1, <1>2, <1>3, <1>4, StepsAre

LEMMA OwnRefines ==
  ASSUME SelectTypes, Account, NEW c \in Callers, OwnStep(c)
  PROVE  KeepsCounts /\ (OneEach /\ SignalInv(Ops) => KeepsPromise)
<1> USE OperationAssumption
<1>t. /\ Types
      /\ moved \in [Callers -> Nat] /\ part \in [Callers -> Nat]
      /\ len \in [Callers -> 0..MaxLen]
  BY DEF SelectTypes, Types, OperationTypeOK
<1>b. /\ pc[c] \in {"enter", "wait", "woken", "io"}
      /\ Phase(pc[c]) = "busy"
      /\ moved[c] = part[c]
      /\ pc[c] # "io" \/ c \in Readers => moved[c] = 0
  BY <1>t, OwnIsWait DEF Account, Busy, Phase, Waits
<1>1. ASSUME EnterSelect(c)
      PROVE  [Promise!ContextNext]_Promise!contextVars
  <2>1. moved[c] = 0 /\ UNCHANGED <<moved, cause>>
    BY <1>1, <1>b DEF EnterSelect
  <2> QED BY <1>1, <1>b, <1>t, <2>1, SettlesNow, GoesOn
          DEF EnterSelect, ErrorNames, Places
<1>2. CASE Select(c)
  <2>1. moved[c] = 0 /\ pc[c] = "wait" /\ UNCHANGED <<moved, cause>>
    BY <1>2, <1>b DEF Select
  <2>2. CASE AbortSet(c)
    <3>1. OneEach /\ SignalInv(Ops) => cause[c]
      BY <2>1, <2>2, SignalHasCause DEF AbortSet, BothEnds
    <3> QED BY <1>2, <1>b, <1>t, <2>1, <2>2, <3>1, SettlesCanceled DEF Select
  <2>3. CASE ~ AbortSet(c)
    <3>1. UNCHANGED Promise!contextVars
      BY <1>2, <1>b, <1>t, <2>1, <2>3, GoesOn DEF Select, Places
    <3> QED BY <3>1, PromiseKeepsCounts DEF KeepsPromise
  <2> QED BY <2>2, <2>3
<1>3. ASSUME Read(c)
      PROVE  [Promise!ContextNext]_Promise!contextVars
  <2>1. moved[c] = 0
    BY <1>3, <1>b DEF Read, RwRead, RwReadData, ReadFails
  <2> QED BY <1>3, <1>t, <2>1, ReadRefines DEF Read
<1>4. ASSUME WriteSome(c)
      PROVE  [Promise!ContextNext]_Promise!contextVars
  BY <1>4, <1>t, WriteRefines DEF WriteSome
<1>5. ASSUME WriteReturn(c)
      PROVE  [Promise!ContextNext]_Promise!contextVars
  <2>1. UNCHANGED <<moved, cause>>
    BY <1>5 DEF WriteReturn
  <2> QED BY <1>5, <1>b, <1>t, <2>1, SettlesNow DEF WriteReturn, ErrorNames
<1>6. CASE ~ Select(c)
  <2>1. KeepsPromise
    BY <1>1, <1>3, <1>4, <1>5, <1>6 DEF OwnStep, KeepsPromise
  <2> QED BY <2>1, PromiseKeepsCounts
<1> QED BY <1>2, <1>6

LEMMA StepRefines ==
  ASSUME SelectTypes, Account, [Next]_vars
  PROVE  KeepsCounts /\ (OneEach /\ SignalInv(Ops) => KeepsPromise)
<1>i. Types /\ \A c \in Callers : pc[c] = "check" => moved[c] = 0
  BY DEF SelectTypes, Account, Busy
<1>1. CASE CommonStep(Ops)
  BY <1>i, <1>1, CommonRefines DEF SignalInv
<1>2. ASSUME NEW c \in Callers, BeginOperation(c) PROVE Promise!ContextNext
  BY <1>i, <1>2, BeginRefines
<1>3. ASSUME NEW c \in Callers, OwnStep(c)
      PROVE  KeepsCounts /\ (OneEach /\ SignalInv(Ops) => KeepsPromise)
  BY <1>3, OwnRefines
<1>4. UNCHANGED vars => UNCHANGED Promise!contextVars
  BY DEF vars, opVars, Promise!contextVars
<1>5. CASE ~ CommonStep(Ops) /\ \A c \in Callers : ~ OwnStep(c)
  <2>1. KeepsPromise
    BY <1>2, <1>4, <1>5, StepsAre DEF KeepsPromise
  <2> QED BY <2>1, PromiseKeepsCounts
<1> QED BY <1>1, <1>3, <1>5

(***************************************************************************)
(* With one caller for each direction, the select backend keeps the        *)
(* promise of ContextIO: counts are exact, also of a write that fails in   *)
(* the middle, and ErrCanceled has a reason of its own, whatever other     *)
(* goroutines cancel, reset or close.                                      *)
(***************************************************************************)
THEOREM SelectImplements ==
  ASSUME OneEach
  PROVE  Spec => ImplementsContextIO
<1>1. Init => Promise!ContextInit
  BY DEF Init, OperationInit, NoResult, Promise!ContextInit, Promise!NoResult
<1> DEFINE Inv == SelectTypes /\ SignalInv(Ops) /\ Account
<1>2. Init => Inv
  BY SelectStart DEF Init, OperationInit, Account, Busy
<1>3. Inv /\ [Next]_vars => Inv'
  BY SelectTyped, SelectSteps, SignalInvKept, AccountKept DEF SelectTypes
<1>4. Inv /\ [Next]_vars => [Promise!ContextNext]_Promise!contextVars
  BY StepRefines DEF KeepsPromise
<1> QED BY <1>1, <1>2, <1>3, <1>4, PTL
        DEF Spec, ImplementsContextIO, Promise!ContextSpec

(***************************************************************************)
(* The same count for any number of overlapping operations: a read that    *)
(* fails or is canceled has taken nothing, and a write returns what        *)
(* rw.Write returned, also when that fails in the middle.                  *)
(***************************************************************************)
THEOREM SelectCounts == Spec => CountsExact
<1>1. Init => Counts!ContextInit
  BY DEF Init, OperationInit, NoResult, Counts!ContextInit, Counts!NoResult
<1>2. Init => Account
  BY DEF Init, OperationInit, Account, Busy
<1>3. SelectTypes /\ Account /\ [Next]_vars => Account'
  BY AccountKept
<1>4. SelectTypes /\ Account /\ [Next]_vars => [Counts!ContextNext]_Counts!contextVars
  BY StepRefines DEF KeepsCounts
<1> QED BY <1>1, <1>2, <1>3, <1>4, SpecTypes, PTL
        DEF Spec, CountsExact, Counts!ContextSpec

(***************************************************************************)
(* With one caller for each direction, the wait of an operation misses no  *)
(* cancel and no expired context, and no byte of an earlier one is left    *)
(* in the pipe to end it: select, any number of goroutines that cancel,    *)
(* reset and close.                                                        *)
(***************************************************************************)
THEOREM SelectReaches ==
  ASSUME OneEach
  PROVE  Spec => []CancelReaches
<1> DEFINE Inv == SelectTypes /\ SignalInv(Ops) /\ ExpiryInv
<1>1. Init => Inv
  BY SelectStart DEF Init, OperationInit, ExpiryInv, PastCheck
<1>2. Inv /\ [Next]_vars => Inv'
  BY SelectTyped, SelectSteps, SignalInvKept, ExpiryKept DEF SelectTypes
<1>3. Inv => CancelReaches
  BY ReachesCaller
<1> QED BY <1>1, <1>2, <1>3, PTL DEF Spec

=============================================================================
