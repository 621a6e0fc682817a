----------------------------- MODULE SignalIOProofs -----------------------------
(***************************************************************************)
(* Proofs about CancelSignal, and what the proofs about the epoll, kqueue  *)
(* and select backends share, for any number of goroutines.                *)
(*                                                                         *)
(* Conservation is inductive together with the type invariant: a swap or a *)
(* compare-and-swap moves the flag and one of the sets by one, a system    *)
(* call moves one of the sets and the pipe by one, and nothing opens a     *)
(* closed pipe.  FlagMatchesPipe and SignalNeverStuck are consequences.    *)
(*                                                                         *)
(* A backend adds to SignalIO the steps of its operations between the      *)
(* check of the flag and their results, and the steps of its Close:        *)
(* BackendStep says what these leave alone.  From that alone follow that   *)
(* every backend is a CancelSignal, the types of what SignalIO declares,   *)
(* and that what can end an operation with ErrCanceled is a reason to      *)
(* cancel it.                                                              *)
(***************************************************************************)
EXTENDS SignalIO, FiniteSetTheorems, SequenceTheorems, TLAPS

(* A set of goroutines is finite and no larger than Procs.                   *)
LEMMA ProcsFinite ==
  ASSUME NEW S \in SUBSET Procs
  PROVE  /\ IsFiniteSet(S)
         /\ Cardinality(S) \in Nat
         /\ Cardinality(S) <= Cardinality(Procs)
         /\ S # {} => Cardinality(S) > 0
<1>1. IsFiniteSet(S) /\ Cardinality(S) <= Cardinality(Procs)
  BY FS_Subset, SignalAssumption
<1>2. Cardinality(S) \in Nat
  BY <1>1, FS_CardinalityType
<1>3. S # {} => Cardinality(S) > 0
  BY <1>1, <1>2, FS_EmptySet
<1> QED
  BY <1>1, <1>2, <1>3

(* A goroutine that joins or leaves a set changes its size by one.           *)
LEMMA JoinLeave ==
  ASSUME NEW S \in SUBSET Procs, NEW p \in Procs
  PROVE  /\ p \notin S => Cardinality(S \cup {p}) = Cardinality(S) + 1
         /\ p \in S => Cardinality(S \ {p}) = Cardinality(S) - 1
BY ProcsFinite, FS_AddElement, FS_RemoveElement

(***************************************************************************)
(* Type correctness of the signal.                                         *)
(***************************************************************************)
LEMMA SignalTypeStep == SignalTypeOK /\ [SignalNext]_signalVars => SignalTypeOK'
<1> SUFFICES ASSUME SignalTypeOK, [SignalNext]_signalVars
             PROVE  SignalTypeOK'
  OBVIOUS
<1> USE DEF SignalTypeOK
<1>1. ASSUME NEW d \in Dirs, NEW p \in Procs, CompareAndSwap(p, d)
      PROVE  SignalTypeOK'
  BY <1>1 DEF CompareAndSwap
<1>2. ASSUME NEW d \in Dirs, NEW p \in Procs, WriteSignal(p, d)
      PROVE  SignalTypeOK'
  BY <1>2 DEF WriteSignal
<1>3. ASSUME NEW d \in Dirs, NEW p \in Procs, Swap(p, d)
      PROVE  SignalTypeOK'
  BY <1>3 DEF Swap
<1>4. ASSUME NEW d \in Dirs, NEW p \in Procs, ReadSignal(p, d)
      PROVE  SignalTypeOK'
  BY <1>4 DEF ReadSignal
<1>5. ASSUME NEW d \in Dirs, NEW e \in BothEnds, CloseEnd(d, e)
      PROVE  SignalTypeOK'
  BY <1>5 DEF CloseEnd
<1>6. CASE UNCHANGED signalVars
  BY <1>6 DEF signalVars
<1> QED
  BY <1>1, <1>2, <1>3, <1>4, <1>5, <1>6 DEF SignalNext

(***************************************************************************)
(* Every step of the signal keeps the balance of bytes.                    *)
(***************************************************************************)
LEMMA ConservationStep ==
  SignalTypeOK /\ Conservation /\ [SignalNext]_signalVars => Conservation'
<1> SUFFICES ASSUME SignalTypeOK, Conservation, [SignalNext]_signalVars,
                    NEW b \in Dirs, ends'[b] = BothEnds
             PROVE  pipe'[b] + Cardinality(signaling'[b])
                      = Flag(b)' + Cardinality(draining'[b])
  BY DEF Conservation
<1>t. /\ canceled[b] \in BOOLEAN /\ pipe[b] \in Nat
      /\ signaling[b] \in SUBSET Procs /\ draining[b] \in SUBSET Procs
      /\ Cardinality(signaling[b]) \in Nat /\ Cardinality(draining[b]) \in Nat
  BY ProcsFinite DEF SignalTypeOK
<1>b. ends[b] = BothEnds =>
        pipe[b] + Cardinality(signaling[b]) = Flag(b) + Cardinality(draining[b])
  BY DEF Conservation
<1>1. ASSUME NEW d \in Dirs, NEW p \in Procs, CompareAndSwap(p, d)
      PROVE  pipe'[b] + Cardinality(signaling'[b])
               = Flag(b)' + Cardinality(draining'[b])
  <2>1. p \notin signaling[d]
    BY <1>1 DEF CompareAndSwap, Free
  <2>2. ends[b] = BothEnds /\ pipe'[b] = pipe[b] /\ draining'[b] = draining[b]
    BY <1>1 DEF CompareAndSwap
  <2>3. CASE b # d \/ canceled[d]
    <3>1. signaling'[b] = signaling[b] /\ canceled'[b] = canceled[b]
      BY <1>1, <2>3 DEF CompareAndSwap, SignalTypeOK
    <3> QED
      BY <1>b, <2>2, <3>1 DEF Flag
  <2>4. CASE b = d /\ ~ canceled[d]
    <3>1. signaling'[b] = signaling[b] \cup {p} /\ canceled'[b] = TRUE
      BY <1>1, <2>4 DEF CompareAndSwap, SignalTypeOK
    <3>2. Cardinality(signaling'[b]) = Cardinality(signaling[b]) + 1
      BY <1>t, <2>1, <2>4, <3>1, JoinLeave
    <3> QED
      BY <1>t, <1>b, <2>2, <2>4, <3>1, <3>2 DEF Flag
  <2> QED
    BY <2>3, <2>4
<1>2. ASSUME NEW d \in Dirs, NEW p \in Procs, WriteSignal(p, d)
      PROVE  pipe'[b] + Cardinality(signaling'[b])
               = Flag(b)' + Cardinality(draining'[b])
  <2>1. /\ ends[b] = BothEnds
        /\ canceled'[b] = canceled[b] /\ draining'[b] = draining[b]
    BY <1>2 DEF WriteSignal
  <2>2. CASE b # d
    <3>1. signaling'[b] = signaling[b] /\ pipe'[b] = pipe[b]
      BY <1>2, <2>2 DEF WriteSignal, SignalTypeOK
    <3> QED
      BY <1>b, <2>1, <3>1 DEF Flag
  <2>3. CASE b = d
    <3>1. /\ p \in signaling[b] /\ signaling'[b] = signaling[b] \ {p}
          /\ pipe'[b] = pipe[b] + 1
      BY <1>2, <2>1, <2>3 DEF WriteSignal, SignalTypeOK
    <3>2. Cardinality(signaling'[b]) = Cardinality(signaling[b]) - 1
      BY <1>t, <3>1, JoinLeave
    <3> QED
      BY <1>t, <1>b, <2>1, <3>1, <3>2 DEF Flag
  <2> QED
    BY <2>2, <2>3
<1>3. ASSUME NEW d \in Dirs, NEW p \in Procs, Swap(p, d)
      PROVE  pipe'[b] + Cardinality(signaling'[b])
               = Flag(b)' + Cardinality(draining'[b])
  <2>1. p \notin draining[d]
    BY <1>3 DEF Swap, Free
  <2>2. ends[b] = BothEnds /\ pipe'[b] = pipe[b] /\ signaling'[b] = signaling[b]
    BY <1>3 DEF Swap
  <2>3. CASE b # d \/ ~ canceled[d]
    <3>1. draining'[b] = draining[b] /\ canceled'[b] = canceled[b]
      BY <1>3, <2>3 DEF Swap, SignalTypeOK
    <3> QED
      BY <1>b, <2>2, <3>1 DEF Flag
  <2>4. CASE b = d /\ canceled[d]
    <3>1. draining'[b] = draining[b] \cup {p} /\ canceled'[b] = FALSE
      BY <1>3, <2>4 DEF Swap, SignalTypeOK
    <3>2. Cardinality(draining'[b]) = Cardinality(draining[b]) + 1
      BY <1>t, <2>1, <2>4, <3>1, JoinLeave
    <3> QED
      BY <1>t, <1>b, <2>2, <2>4, <3>1, <3>2 DEF Flag
  <2> QED
    BY <2>3, <2>4
<1>4. ASSUME NEW d \in Dirs, NEW p \in Procs, ReadSignal(p, d)
      PROVE  pipe'[b] + Cardinality(signaling'[b])
               = Flag(b)' + Cardinality(draining'[b])
  <2>1. /\ ends[b] = BothEnds
        /\ canceled'[b] = canceled[b] /\ signaling'[b] = signaling[b]
    BY <1>4 DEF ReadSignal
  <2>2. CASE b # d
    <3>1. draining'[b] = draining[b] /\ pipe'[b] = pipe[b]
      BY <1>4, <2>2 DEF ReadSignal, SignalTypeOK
    <3> QED
      BY <1>b, <2>1, <3>1 DEF Flag
  <2>3. CASE b = d
    <3>1. /\ p \in draining[b] /\ draining'[b] = draining[b] \ {p}
          /\ pipe[b] > 0 /\ pipe'[b] = pipe[b] - 1
      BY <1>4, <2>1, <2>3 DEF ReadSignal, SignalTypeOK, BothEnds
    <3>2. Cardinality(draining'[b]) = Cardinality(draining[b]) - 1
      BY <1>t, <3>1, JoinLeave
    <3> QED
      BY <1>t, <1>b, <2>1, <3>1, <3>2 DEF Flag
  <2> QED
    BY <2>2, <2>3
<1>5. ASSUME NEW d \in Dirs, NEW e \in BothEnds, CloseEnd(d, e)
      PROVE  pipe'[b] + Cardinality(signaling'[b])
               = Flag(b)' + Cardinality(draining'[b])
  <2>1. ends[b] = BothEnds
    BY <1>5 DEF CloseEnd, SignalTypeOK
  <2> QED
    BY <1>5, <1>b, <2>1 DEF CloseEnd, Flag
<1>6. CASE UNCHANGED signalVars
  BY <1>6, <1>b DEF signalVars, Flag
<1> QED
  BY <1>1, <1>2, <1>3, <1>4, <1>5, <1>6 DEF SignalNext

LEMMA SignalStart == SignalInit => SignalTypeOK /\ Conservation
<1> SUFFICES ASSUME SignalInit PROVE SignalTypeOK /\ Conservation
  OBVIOUS
<1>1. SignalTypeOK
  BY DEF SignalInit, SignalTypeOK
<1>2. Conservation
  BY FS_EmptySet DEF SignalInit, Conservation, Flag
<1> QED
  BY <1>1, <1>2

(* The balance, with no method half done, is the agreement of flag and pipe. *)
LEMMA BalanceMatches == SignalTypeOK /\ Conservation => FlagMatchesPipe
<1> SUFFICES ASSUME SignalTypeOK, Conservation, NEW d \in Dirs,
                    ends[d] = BothEnds, signaling[d] = {}, draining[d] = {}
             PROVE  pipe[d] = Flag(d)
  BY DEF FlagMatchesPipe
<1>1. Cardinality(signaling[d]) = 0 /\ Cardinality(draining[d]) = 0
  BY FS_EmptySet
<1>2. pipe[d] \in Nat /\ Flag(d) \in Nat
  BY DEF SignalTypeOK, Flag
<1> QED
  BY <1>1, <1>2 DEF Conservation

(* The balance keeps both system calls from blocking for good.               *)
LEMMA BalanceFlows == SignalTypeOK /\ Conservation => SignalNeverStuck
<1> SUFFICES ASSUME SignalTypeOK, Conservation, NEW d \in Dirs,
                    ends[d] = BothEnds
             PROVE  /\ signaling[d] # {} => pipe[d] < Capacity
                    /\ draining[d] # {} => pipe[d] > 0 \/ signaling[d] # {}
  BY DEF SignalNeverStuck
<1>1. /\ pipe[d] \in Nat /\ Flag(d) \in Nat /\ Flag(d) <= 1
      /\ signaling[d] \in SUBSET Procs /\ draining[d] \in SUBSET Procs
  BY DEF SignalTypeOK, Flag
<1>2. pipe[d] + Cardinality(signaling[d]) = Flag(d) + Cardinality(draining[d])
  BY DEF Conservation
<1>3. Cardinality(Procs) \in Nat /\ Cardinality(Procs) < Capacity /\ Capacity \in Nat
  BY SignalAssumption, FS_CardinalityType
<1>4. /\ Cardinality(signaling[d]) \in Nat /\ Cardinality(draining[d]) \in Nat
      /\ Cardinality(draining[d]) <= Cardinality(Procs)
      /\ signaling[d] # {} => Cardinality(signaling[d]) > 0
      /\ draining[d] # {} => Cardinality(draining[d]) > 0
  BY <1>1, ProcsFinite
<1>5. ASSUME signaling[d] # {} PROVE pipe[d] < Capacity
  BY <1>1, <1>2, <1>3, <1>4, <1>5
<1>6. ASSUME draining[d] # {}, signaling[d] = {} PROVE pipe[d] > 0
  <2>1. Cardinality(signaling[d]) = 0
    BY <1>6, FS_EmptySet
  <2> QED
    BY <1>1, <1>2, <1>4, <1>6, <2>1
<1> QED
  BY <1>5, <1>6

(***************************************************************************)
(* The variables of the cancel signal keep their types.                    *)
(***************************************************************************)
THEOREM SignalTypeCorrect == SignalSpec => []SignalTypeOK
<1>1. SignalInit => SignalTypeOK
  BY SignalStart
<1> QED
  BY <1>1, SignalTypeStep, PTL DEF SignalSpec

(***************************************************************************)
(* For every number of goroutines that cancel and reset at the same time,  *)
(* the bytes of the cancel pipe balance.                                   *)
(***************************************************************************)
THEOREM SignalConserves == SignalSpec => []Conservation
<1>1. SignalTypeOK /\ Conservation /\ [SignalNext]_signalVars
        => (SignalTypeOK /\ Conservation)'
  BY SignalTypeStep, ConservationStep
<1> QED
  BY <1>1, SignalStart, PTL DEF SignalSpec

(***************************************************************************)
(* With no method half done the flag and the pipe agree: no cancel is      *)
(* without its byte and no byte outlives a reset.                          *)
(***************************************************************************)
THEOREM SignalMatches == SignalSpec => []FlagMatchesPipe
BY SignalTypeCorrect, SignalConserves, BalanceMatches, PTL

(***************************************************************************)
(* Neither the write of a cancel nor the read of a reset blocks for good.  *)
(***************************************************************************)
THEOREM SignalFlows == SignalSpec => []SignalNeverStuck
BY SignalTypeCorrect, SignalConserves, BalanceFlows, PTL

-----------------------------------------------------------------------------
(* At most one caller for each direction.                                    *)
OneEach == \A c, e \in Callers : Dir(c) = Dir(e) => c = e

LEMMA CallersAreProcs ==
  /\ \A c \in Callers : c \in Procs /\ Dir(c) \in Dirs /\ Dir(c) \in Directions
  /\ \A x \in Cancelers : x \in Procs
BY SignalIOAssumption DEF Dir, Directions

-----------------------------------------------------------------------------
(* The steps of a backend whose jobs are made of the steps ops.              *)
StepsOf(ops) == [op : ops, dir : Directions]

(* What SignalIO says of an operation that has begun, of methods and the     *)
(* peer.                                                                     *)
CallerStep(c) ==
  \/ CallStep(c) \/ WatcherStep(c)
  \/ Expire(c) /\ UNCHANGED signalVars

CommonStep(ops) ==
  \/ \E c \in Callers : CallerStep(c)
  \/ \E x \in Cancelers :
       \/ MethodStep(x)
       \/ \E s \in Seq(StepsOf(ops)) : StartMethod(x, s) /\ UNCHANGED signalVars
  \/ PeerStep

(* An operation between the check of the flag and its results.               *)
Waits(c) ==
  /\ pc[c] \in {"enter", "wait", "woken", "io"}
  /\ \E q \in {"enter", "wait", "woken", "io", "join"} :
       /\ pc' = [pc EXCEPT ![c] = q]
       /\ q = "woken" => pc[c] = "wait" /\ SignalReady(Dir(c))
  /\ UNCHANGED <<signalVars, job, ctx, watch, cause>>

(* Another step of Close.                                                    *)
MovesOn(x) ==
  /\ job[x] # <<>> /\ Head(job[x]).op # "reset"
  /\ Advance(x)
  /\ UNCHANGED <<signalVars, opVars>>

BackendStep(ops) ==
  \/ CommonStep(ops)
  \/ \E c \in Callers : BeginOperation(c) \/ Waits(c)
  \/ \E x \in Cancelers : MovesOn(x)

controlVars == <<signalVars, pc, ctx, watch, cause, job>>

-----------------------------------------------------------------------------
(***************************************************************************)
(* Every step of a backend maps to a step of the signal or to a stutter.   *)
(***************************************************************************)
LEMMA SignalSimulated ==
  ASSUME NEW ops, [BackendStep(ops)]_controlVars
  PROVE  [SignalNext]_signalVars
<1> SUFFICES ASSUME signalVars' # signalVars PROVE SignalNext
  OBVIOUS
<1> USE CallersAreProcs
<1>1. ASSUME NEW c \in Callers, CallStep(c) \/ WatcherStep(c) PROVE SignalNext
  <2>1. CASE ContextSwap(c)
    BY <2>1 DEF ContextSwap, SignalNext
  <2>2. CASE ContextDrain(c)
    BY <2>2 DEF ContextDrain, SignalNext
  <2>3. CASE WatchCancel(c)
    BY <2>3 DEF WatchCancel, SignalNext
  <2>4. CASE WatchSignal(c)
    BY <2>4 DEF WatchSignal, SignalNext
  <2>5. CASE Check(c)
    BY <2>5 DEF Check
  <2> QED BY <1>1, <2>1, <2>2, <2>3, <2>4, <2>5 DEF CallStep, WatcherStep
<1>2. ASSUME NEW x \in Cancelers, MethodStep(x) PROVE SignalNext
  <2>1. ASSUME NEW d \in Dirs, CancelFlag(x, d) PROVE SignalNext
    BY <2>1 DEF CancelFlag, SignalNext
  <2>2. ASSUME NEW d \in Dirs, CancelWrite(x, d) PROVE SignalNext
    BY <2>2 DEF CancelWrite, SignalNext
  <2>3. ASSUME NEW d \in Dirs, ResetFlag(x, d) PROVE SignalNext
    BY <2>3 DEF ResetFlag, SignalNext
  <2>4. ASSUME NEW d \in Dirs, ResetRead(x, d) PROVE SignalNext
    BY <2>4 DEF ResetRead, SignalNext
  <2>5. ASSUME NEW d \in Dirs, NEW e \in BothEnds, ClosePipe(x, d, e)
        PROVE  SignalNext
    BY <2>5 DEF ClosePipe, SignalNext
  <2>6. ~ CloseObject(x)
    BY DEF CloseObject
  <2> QED BY <1>2, <2>1, <2>2, <2>3, <2>4, <2>5, <2>6 DEF MethodStep
<1>3. \A c : ~ BeginOperation(c) /\ ~ Waits(c) /\ ~ MovesOn(c) /\ ~ PeerStep
  BY DEF BeginOperation, Waits, MovesOn, PeerStep
<1> QED BY <1>1, <1>2, <1>3
        DEF BackendStep, CommonStep, CallerStep, controlVars

LEMMA SignalKept ==
  ASSUME NEW ops
  PROVE  /\ SignalTypeOK /\ [BackendStep(ops)]_controlVars => SignalTypeOK'
         /\ SignalTypeOK /\ Conservation /\ [BackendStep(ops)]_controlVars
              => Conservation'
BY SignalSimulated, SignalTypeStep, ConservationStep

-----------------------------------------------------------------------------
(* The types.  A job is a sequence, which JobTypeOK does not say.            *)
Jobs(ops) == job \in [Cancelers -> Seq(StepsOf(ops))]

Types == OperationTypeOK /\ StreamTypeOK

Places == {"idle", "check", "reset", "drain", "enter", "wait", "woken", "io",
           "late", "join"}

ErrorNames == {"nil", "canceled", "eof", "error"}

Results == [err : ErrorNames, n : Nat]

LEMMA TypesStart == OperationInit /\ StreamInit => Types /\ \A ops : Jobs(ops)
BY StreamAssumption, OperationAssumption DEF OperationInit, StreamInit, Types,
     OperationTypeOK, StreamTypeOK, Jobs, NoResult

LEMMA MethodsAreSteps ==
  ASSUME NEW ops, {"cancel", "reset", "writer", "reader", "object"} \subseteq ops
  PROVE  /\ \A s \in Methods : s \in Seq(StepsOf(ops))
         /\ Cancel \in Seq(StepsOf(ops)) /\ ClosePipes \in Seq(StepsOf(ops))
<1>1. \A d \in Directions : \A o \in ops : <<Step(o, d)>> \in Seq(StepsOf(ops))
  BY DEF Step, StepsOf
<1>2. "read" \in Directions /\ "write" \in Directions
  BY DEF Directions
<1>3. /\ CancelReads \in Seq(StepsOf(ops)) /\ CancelWrites \in Seq(StepsOf(ops))
      /\ ResetReader \in Seq(StepsOf(ops)) /\ ResetWriter \in Seq(StepsOf(ops))
  BY <1>1, <1>2 DEF CancelReads, CancelWrites, ResetReader, ResetWriter
<1>4. Cancel \in Seq(StepsOf(ops)) /\ Reset \in Seq(StepsOf(ops))
  BY <1>3, ConcatProperties DEF Cancel, Reset
<1>5. ClosePipes \in Seq(StepsOf(ops))
  BY <1>2 DEF ClosePipes, Step, StepsOf
<1> QED BY <1>3, <1>4, <1>5 DEF Methods

LEMMA JobIsTyped ==
  ASSUME NEW ops, Jobs(ops)
  PROVE  JobTypeOK(ops)
<1> SUFFICES ASSUME NEW x \in Cancelers, NEW i \in DOMAIN job[x]
             PROVE  job[x][i] \in StepsOf(ops)
  BY DEF JobTypeOK, StepsOf
<1>1. job[x] \in Seq(StepsOf(ops))
  BY DEF Jobs
<1> QED BY <1>1, LenProperties, ElementOfSeq

(* What a method does to the job of its goroutine.                           *)
LEMMA MethodAdvances ==
  ASSUME NEW x \in Cancelers, MethodStep(x)
  PROVE  job[x] # <<>> /\ (Advance(x) \/ UNCHANGED job)
<1>1. \A d : job[x] = <<>> => /\ ~ CancelFlag(x, d) /\ ~ CancelWrite(x, d)
                             /\ ~ ResetFlag(x, d) /\ ~ ResetRead(x, d)
                             /\ ~ CloseObject(x) /\ \A e : ~ ClosePipe(x, d, e)
  BY DEF CancelFlag, CancelWrite, ResetFlag, ResetRead, CloseObject, ClosePipe,
       At
<1>2. job[x] # <<>>
  BY <1>1 DEF MethodStep
<1>3. Advance(x) \/ UNCHANGED job
  BY DEF MethodStep, CancelFlag, CancelWrite, ResetFlag, ResetRead, CloseObject,
         ClosePipe
<1> QED BY <1>2, <1>3

(* What a step does to the jobs.                                             *)
LEMMA JobsMove ==
  ASSUME NEW ops, [BackendStep(ops)]_controlVars
  PROVE  \/ UNCHANGED job
         \/ \E x \in Cancelers : job[x] # <<>> /\ Advance(x) /\ UNCHANGED pc
         \/ \E x \in Cancelers, s \in Seq(StepsOf(ops)) :
              StartMethod(x, s) /\ UNCHANGED pc
<1>1. ASSUME NEW c \in Callers, CallerStep(c) \/ BeginOperation(c) \/ Waits(c)
      PROVE  UNCHANGED job
  BY <1>1 DEF CallerStep, CallStep, WatcherStep, Check, ContextSwap,
       ContextDrain, Return, WatchCancel, WatchSignal, WatchStop,
       BeginOperation, Begin, Expire, Waits
<1>2. ASSUME NEW x \in Cancelers, MethodStep(x)
      PROVE  UNCHANGED job \/ (job[x] # <<>> /\ Advance(x) /\ UNCHANGED pc)
  <2>1. UNCHANGED pc
    BY <1>2 DEF MethodStep, CancelFlag, CancelWrite, ResetFlag, ResetRead,
         CloseObject, ClosePipe, opVars
  <2> QED BY <1>2, <2>1, MethodAdvances
<1>3. ASSUME NEW x \in Cancelers, MovesOn(x)
      PROVE  job[x] # <<>> /\ Advance(x) /\ UNCHANGED pc
  BY <1>3 DEF MovesOn, opVars
<1>4. ASSUME NEW x \in Cancelers, NEW s, StartMethod(x, s) PROVE UNCHANGED pc
  BY <1>4 DEF StartMethod, opVars
<1>5. PeerStep => UNCHANGED job
  BY DEF PeerStep
<1> QED BY <1>1, <1>2, <1>3, <1>4, <1>5 DEF BackendStep, CommonStep, controlVars

LEMMA JobsKept ==
  ASSUME NEW ops, Jobs(ops), [BackendStep(ops)]_controlVars
  PROVE  Jobs(ops)'
<1>1. CASE UNCHANGED job
  BY <1>1 DEF Jobs
<1>2. ASSUME NEW x \in Cancelers, job[x] # <<>>, Advance(x) PROVE Jobs(ops)'
  <2>1. Tail(job[x]) \in Seq(StepsOf(ops))
    BY <1>2, HeadTailProperties DEF Jobs
  <2> QED BY <1>2, <2>1 DEF Jobs, Advance
<1>3. ASSUME NEW x \in Cancelers, NEW s \in Seq(StepsOf(ops)), StartMethod(x, s)
      PROVE  Jobs(ops)'
  BY <1>3 DEF Jobs, StartMethod
<1> QED BY <1>1, <1>2, <1>3, JobsMove

LEMMA SettledTyped ==
  ASSUME Types, NEW c \in Callers, NEW e \in ErrorNames, NEW k \in Nat,
         Settled(c, e, k)
  PROVE  pc' \in [Callers -> Places] /\ out' \in [Callers -> Results]
<1>1. [err |-> e, n |-> k] \in Results
  BY DEF Results
<1> QED BY <1>1 DEF Types, OperationTypeOK, Settled, Results, Places, ErrorNames

LEMMA CommonTyped ==
  ASSUME NEW ops, Types, CommonStep(ops)
  PROVE  Types'
<1> USE StreamAssumption, OperationAssumption
        DEF Types, OperationTypeOK, StreamTypeOK, opVars, streamVars
<1>1. ASSUME NEW c \in Callers, CallerStep(c) PROVE Types'
  <2>1. CASE Check(c)
    <3>1. CASE Settled(c, "canceled", 0)
      BY <2>1, <3>1, SettledTyped DEF Check, Proceed, Results, Places,
           ErrorNames
    <3>2. CASE ~ Settled(c, "canceled", 0)
      BY <2>1, <3>2 DEF Check, Proceed
    <3> QED BY <3>1, <3>2
  <2>2. CASE ContextSwap(c) \/ ContextDrain(c)
    BY <2>2 DEF ContextSwap, ContextDrain, Proceed
  <2>3. CASE Return(c)
    BY <2>3 DEF Return
  <2>4. CASE WatcherStep(c)
    BY <2>4 DEF WatcherStep, WatchCancel, WatchSignal, WatchStop
  <2>5. CASE Expire(c)
    BY <2>5 DEF Expire
  <2> QED BY <1>1, <2>1, <2>2, <2>3, <2>4, <2>5 DEF CallerStep, CallStep
<1>2. ASSUME NEW x \in Cancelers, MethodStep(x) PROVE Types'
  <2>1. CASE CloseObject(x)
    BY <2>1 DEF CloseObject, CloseStream
  <2>2. ASSUME NEW d \in Dirs,
               \/ CancelFlag(x, d) \/ CancelWrite(x, d) \/ ResetFlag(x, d)
               \/ ResetRead(x, d) \/ \E e \in BothEnds : ClosePipe(x, d, e)
        PROVE  Types'
    BY <2>2 DEF CancelFlag, CancelWrite, ResetFlag, ResetRead, ClosePipe,
         GiveCause
  <2> QED BY <1>2, <2>1, <2>2 DEF MethodStep
<1>3. ASSUME NEW x \in Cancelers, NEW s, StartMethod(x, s) PROVE Types'
  BY <1>3 DEF StartMethod
<1>4. CASE PeerStep
  BY <1>4 DEF PeerStep, Peer, Arrive, Leave, HangUp
<1> QED BY <1>1, <1>2, <1>3, <1>4 DEF CommonStep

LEMMA BeginTyped ==
  ASSUME Types, NEW c \in Callers, BeginOperation(c)
  PROVE  Types'
BY OperationAssumption DEF Types, OperationTypeOK, StreamTypeOK, streamVars,
     BeginOperation, Begin, Lengths, NoResult

(* The calls of the object.                                                  *)
LEMMA ReadTyped ==
  ASSUME Types, NEW c \in Callers, NEW most \in Int, RwRead(c, most)
  PROVE  Types'
<1> USE StreamAssumption, OperationAssumption
        DEF Types, OperationTypeOK, StreamTypeOK, streamVars
<1>1. CASE RwReadData(c, most)
  <2>1. PICK k \in 1..Least(most, avail) : /\ avail' = avail - k
                                          /\ moved' = [moved EXCEPT ![c] = k]
                                          /\ Settled(c, "nil", k)
    BY <1>1 DEF RwReadData
  <2>2. k \in Nat /\ avail - k \in 0..BufSize
    BY DEF Least
  <2>3. out' \in [Callers -> Results] /\ pc' \in [Callers -> Places]
    BY <2>1, <2>2, SettledTyped DEF ErrorNames
  <2> QED BY <1>1, <2>1, <2>2, <2>3 DEF RwReadData, Results, Places, ErrorNames
<1>2. CASE ~ RwReadData(c, most)
  <2>1. out' \in [Callers -> Results] /\ pc' \in [Callers -> Places]
    BY <1>2, SettledTyped DEF RwRead, ErrorNames
  <2> QED BY <1>2, <2>1 DEF RwRead, Results, Places, ErrorNames
<1> QED BY <1>1, <1>2

LEMMA WriteTyped ==
  ASSUME Types, NEW c \in Callers, NEW todo \in Int, RwWriteSome(c, todo)
  PROVE  Types'
BY StreamAssumption
   DEF Types, OperationTypeOK, StreamTypeOK, RwWriteSome, Least

-----------------------------------------------------------------------------
(* What can end an operation has a reason.                                   *)

(* The watcher runs only during its operation, and fires only for a context  *)
(* that is done.                                                             *)
WatchInv ==
  \A c \in Callers :
    /\ watch[c] # "off" => pc[c] \in {"enter", "wait", "woken", "io", "join"}
    /\ watch[c] \in {"fired", "signaling"} => ctx[c] = "done"

(* Everything that can end an operation with ErrCanceled is a reason.        *)
CauseInv ==
  \A c \in Callers : pc[c] # "idle" =>
    /\ ctx[c] = "done" => cause[c]
    /\ ends[Dir(c)] # BothEnds => cause[c]
    /\ canceled[Dir(c)] =>
         cause[c] \/ (ctx[c] = "live" /\ pc[c] \in {"check", "reset"})
    /\ pc[c] = "woken" => cause[c]

(* Who is about to read a byte from the pipe.                                *)
Drainer(p, d) ==
  \/ p \in Callers /\ Dir(p) = d /\ pc[p] = "drain"
  \/ p \in Cancelers /\ At(p, "reset", d)

DrainInv == \A d \in Dirs : \A p \in draining[d] : Drainer(p, d)

(* No reset by a canceler while an operation of that direction runs.         *)
ResetInv ==
  \A x \in Cancelers : \A d \in Directions :
    Resets(job[x], d) => InProgress(d) = {}

SignalInv(ops) ==
  /\ SignalTypeOK /\ Conservation /\ Jobs(ops)
  /\ WatchInv /\ DrainInv /\ ResetInv /\ CauseInv

LEMMA WatchKept ==
  ASSUME NEW ops, Types, WatchInv, [BackendStep(ops)]_controlVars
  PROVE  WatchInv'
<1> USE DEF WatchInv, Types, OperationTypeOK
<1>1. ASSUME UNCHANGED <<pc, watch, ctx>> PROVE WatchInv'
  BY <1>1
<1>2. ASSUME NEW c \in Callers, CallStep(c) PROVE WatchInv'
  BY <1>2 DEF CallStep, Check, ContextSwap, ContextDrain, Proceed, Settled,
       Return
<1>3. ASSUME NEW c \in Callers, Waits(c) PROVE WatchInv'
  BY <1>3 DEF Waits
<1>4. ASSUME NEW c \in Callers, WatcherStep(c) PROVE WatchInv'
  BY <1>4 DEF WatcherStep, WatchCancel, WatchSignal, WatchStop
<1>5. ASSUME NEW c \in Callers, BeginOperation(c) PROVE WatchInv'
  BY <1>5 DEF BeginOperation, Begin
<1>6. ASSUME NEW c \in Callers, Expire(c) PROVE WatchInv'
  BY <1>6 DEF Expire
<1>7. ASSUME NEW x \in Cancelers, MethodStep(x) \/ MovesOn(x)
      PROVE  UNCHANGED <<pc, watch, ctx>>
  BY <1>7 DEF MethodStep, CancelFlag, CancelWrite, ResetFlag, ResetRead,
       ClosePipe, CloseObject, MovesOn, opVars
<1>8. ASSUME NEW x \in Cancelers, NEW s, StartMethod(x, s)
      PROVE  UNCHANGED <<pc, watch, ctx>>
  BY <1>8 DEF StartMethod, opVars
<1>9. PeerStep => UNCHANGED <<pc, watch, ctx>>
  BY DEF PeerStep, opVars
<1> QED BY <1>1, <1>2, <1>3, <1>4, <1>5, <1>6, <1>7, <1>8, <1>9
        DEF BackendStep, CommonStep, CallerStep, controlVars

LEMMA ResetsOfTail ==
  ASSUME NEW T, NEW s \in Seq(T), s # <<>>, NEW d, Resets(Tail(s), d)
  PROVE  Resets(s, d)
<1>1. PICK i \in DOMAIN Tail(s) :
        Tail(s)[i].op \in {"reset", "zero"} /\ Tail(s)[i].dir = d
  BY DEF Resets
<1>2. /\ Tail(s) \in Seq(T) /\ Len(Tail(s)) = Len(s) - 1 /\ Len(s) \in Nat
      /\ DOMAIN Tail(s) = 1..Len(Tail(s)) /\ DOMAIN s = 1..Len(s)
      /\ \A j \in 1..Len(Tail(s)) : Tail(s)[j] = s[j + 1]
  BY HeadTailProperties, LenProperties
<1>3. i + 1 \in DOMAIN s /\ Tail(s)[i] = s[i + 1]
  BY <1>2
<1> QED BY <1>1, <1>3 DEF Resets

LEMMA ResetsOfHead ==
  ASSUME NEW ops, Jobs(ops), NEW x \in Cancelers, NEW d, At(x, "reset", d)
  PROVE  Resets(job[x], d)
<1>1. job[x] \in Seq(StepsOf(ops)) /\ job[x] # <<>> /\ job[x][1] = Step("reset", d)
  BY DEF Jobs, At
<1>2. 1 \in DOMAIN job[x]
  BY <1>1
<1> QED BY <1>1, <1>2 DEF Resets, Step

LEMMA ResetKept ==
  ASSUME NEW ops, Types, Jobs(ops), ResetInv, [BackendStep(ops)]_controlVars
  PROVE  ResetInv'
<1> USE DEF ResetInv
<1>1. ASSUME UNCHANGED job, \A c \in Callers : pc'[c] # "idle" => pc[c] # "idle"
      PROVE  ResetInv'
  BY <1>1 DEF InProgress, Resets
<1>2. ASSUME NEW c \in Callers, CallStep(c) \/ Waits(c)
      PROVE  UNCHANGED job /\ \A e \in Callers : pc'[e] # "idle" => pc[e] # "idle"
  BY <1>2 DEF CallStep, Check, ContextSwap, ContextDrain, Proceed, Settled,
       Return, Waits, Types, OperationTypeOK
<1>3. ASSUME NEW c \in Callers, BeginOperation(c) PROVE ResetInv'
  BY <1>3 DEF BeginOperation, Begin, ResetPending, InProgress, Resets,
              Types, OperationTypeOK
<1>4. ASSUME NEW x \in Cancelers, job[x] # <<>>, Advance(x), UNCHANGED pc
      PROVE  ResetInv'
  <2>1. ASSUME NEW y \in Cancelers, NEW d \in Directions, Resets(job'[y], d)
        PROVE  Resets(job[y], d)
    <3>1. CASE y = x
      BY <1>4, <2>1, <3>1, ResetsOfTail DEF Jobs, Advance
    <3>2. CASE y # x
      BY <1>4, <2>1, <3>2 DEF Jobs, Advance
    <3> QED BY <3>1, <3>2
  <2> QED BY <1>4, <2>1 DEF InProgress
<1>5. ASSUME NEW x \in Cancelers, NEW s, StartMethod(x, s) PROVE ResetInv'
  <2>1. \A d \in Directions : Resets(s, d) => InProgress(d) = {}
    BY <1>5 DEF StartMethod
  <2>2. UNCHANGED pc /\ job' = [job EXCEPT ![x] = s]
    BY <1>5 DEF StartMethod, opVars
  <2> QED BY <2>1, <2>2 DEF Jobs, InProgress
<1>6. ASSUME NEW c \in Callers, WatcherStep(c) \/ Expire(c) PROVE UNCHANGED <<pc, job>>
  BY <1>6 DEF WatcherStep, WatchCancel, WatchSignal, WatchStop, Expire
<1>7. ASSUME NEW x \in Cancelers, MethodStep(x) \/ MovesOn(x) PROVE UNCHANGED pc
  BY <1>7 DEF MethodStep, CancelFlag, CancelWrite, ResetFlag, ResetRead,
       ClosePipe, CloseObject, MovesOn, opVars
<1>8. PeerStep => UNCHANGED <<pc, job>>
  BY DEF PeerStep, opVars
<1>9. ASSUME NEW x \in Cancelers, MethodStep(x) \/ MovesOn(x) PROVE ResetInv'
  BY <1>1, <1>4, <1>7, <1>9, MethodAdvances DEF MovesOn
<1> QED BY <1>1, <1>2, <1>3, <1>5, <1>6, <1>8, <1>9
        DEF BackendStep, CommonStep, CallerStep, controlVars

LEMMA DrainKept ==
  ASSUME NEW ops, SignalTypeOK, Types, Jobs(ops), DrainInv,
         [BackendStep(ops)]_controlVars
  PROVE  DrainInv'
<1> SUFFICES ASSUME NEW b \in Dirs, NEW p \in draining'[b]
             PROVE  Drainer(p, b)'
  BY DEF DrainInv
<1>0. p \in draining[b] => Drainer(p, b)
  BY DEF DrainInv
<1>t. /\ pc \in [Callers -> Places]
      /\ job \in [Cancelers -> Seq(StepsOf(ops))]
      /\ draining \in [Dirs -> SUBSET Procs]
      /\ Callers \cap Cancelers = {}
  BY OperationAssumption DEF Types, OperationTypeOK, Jobs, SignalTypeOK, Places
<1>1. ASSUME UNCHANGED <<draining, pc, job>> PROVE Drainer(p, b)'
  BY <1>0, <1>1 DEF Drainer, At
<1>2. ASSUME NEW c \in Callers, CallStep(c) \/ Waits(c) PROVE Drainer(p, b)'
  <2>1. CASE ContextSwap(c)
    <3>1. pc[c] = "reset" /\ Dir(c) \in Dirs /\ UNCHANGED job
      BY <2>1, CallersAreProcs DEF ContextSwap
    <3>2. CASE canceled[Dir(c)]
      <4>1. /\ pc' = [pc EXCEPT ![c] = "drain"]
            /\ draining' = [draining EXCEPT ![Dir(c)] = @ \cup {c}]
        BY <2>1, <3>2 DEF ContextSwap, Swap
      <4>2. CASE p = c /\ b = Dir(c)
        BY <1>t, <4>1, <4>2 DEF Drainer
      <4>3. CASE ~ (p = c /\ b = Dir(c))
        BY <1>0, <1>t, <3>1, <4>1, <4>3 DEF Drainer, At
      <4> QED BY <4>2, <4>3
    <3>3. CASE ~ canceled[Dir(c)]
      BY <1>0, <1>t, <2>1, <3>1, <3>3 DEF ContextSwap, Swap, Proceed, Drainer,
           At
    <3> QED BY <3>2, <3>3
  <2>2. CASE ContextDrain(c)
    BY <1>0, <1>t, <2>2, CallersAreProcs
       DEF ContextDrain, ReadSignal, Proceed, Drainer, At
  <2>3. CASE ~ ContextSwap(c) /\ ~ ContextDrain(c)
    <3>1. pc[c] # "drain" /\ UNCHANGED <<draining, job>>
      BY <1>2, <2>3 DEF CallStep, Check, Return, Waits, signalVars
    <3>2. \A e \in Callers \ {c} : pc'[e] = pc[e]
      BY <1>t, <1>2, <2>3 DEF CallStep, Check, Proceed, Settled, Return, Waits
    <3> QED BY <1>0, <3>1, <3>2 DEF Drainer, At
  <2> QED BY <2>1, <2>2, <2>3
<1>3. ASSUME NEW c \in Callers, WatcherStep(c) PROVE UNCHANGED <<draining, pc, job>>
  BY <1>3 DEF WatcherStep, WatchCancel, CompareAndSwap, WatchSignal,
              WriteSignal, WatchStop, signalVars
<1>4. ASSUME NEW x \in Cancelers, MethodStep(x) \/ MovesOn(x) PROVE Drainer(p, b)'
  <2>1. ASSUME UNCHANGED pc, Advance(x), p \in draining[b],
               p = x => Head(job[x]) # Step("reset", b)
        PROVE  Drainer(p, b)'
    BY <1>0, <1>t, <2>1 DEF Drainer, At, Advance
  <2>2. ASSUME NEW d \in Dirs, ResetFlag(x, d) PROVE Drainer(p, b)'
    <3>1. x \notin draining[b] /\ At(x, "reset", d) /\ UNCHANGED pc
      BY <2>2 DEF ResetFlag, Swap, Free, opVars
    <3>2. CASE canceled[d]
      BY <1>0, <1>t, <2>2, <3>1, <3>2 DEF ResetFlag, Swap, Drainer, At
    <3>3. CASE ~ canceled[d]
      BY <2>1, <2>2, <3>1, <3>3 DEF ResetFlag, Swap
    <3> QED BY <3>2, <3>3
  <2>3. ASSUME NEW d \in Dirs, ResetRead(x, d) PROVE Drainer(p, b)'
    <3>1. /\ At(x, "reset", d) /\ UNCHANGED pc /\ Advance(x)
          /\ draining' = [draining EXCEPT ![d] = @ \ {x}]
      BY <2>3 DEF ResetRead, ReadSignal, opVars
    <3>2. p \in draining[b] /\ (p = x => b # d)
      BY <1>t, <3>1
    <3> QED BY <2>1, <3>1, <3>2 DEF At, Step
  <2>4. ASSUME NEW d \in Dirs,
               \/ CancelFlag(x, d) \/ CancelWrite(x, d) \/ MovesOn(x)
               \/ CloseObject(x) \/ \E e \in BothEnds : ClosePipe(x, d, e)
        PROVE  /\ UNCHANGED <<draining, pc>> /\ Head(job[x]).op # "reset"
               /\ Advance(x) \/ UNCHANGED job
    BY <2>4 DEF CancelFlag, CompareAndSwap, CancelWrite, WriteSignal, MovesOn,
         CloseObject, ClosePipe, CloseEnd, BothEnds, signalVars, opVars, At,
         Step
  <2>5. ASSUME NEW d \in Dirs,
               \/ CancelFlag(x, d) \/ CancelWrite(x, d) \/ MovesOn(x)
               \/ CloseObject(x) \/ \E e \in BothEnds : ClosePipe(x, d, e)
        PROVE  Drainer(p, b)'
    <3>1. p \in draining[b] /\ Head(job[x]) # Step("reset", b)
      BY <2>4, <2>5 DEF Step
    <3> QED BY <1>1, <2>1, <2>4, <2>5, <3>1
  <2>6. b \in Dirs
    OBVIOUS
  <2> QED BY <1>4, <2>2, <2>3, <2>5, <2>6 DEF MethodStep
<1>5. ASSUME NEW c \in Callers, BeginOperation(c) PROVE Drainer(p, b)'
  BY <1>0, <1>t, <1>5 DEF BeginOperation, Begin, signalVars, Drainer, At
<1>6. ASSUME NEW x \in Cancelers, NEW s, StartMethod(x, s), UNCHANGED signalVars
      PROVE  Drainer(p, b)'
  BY <1>0, <1>t, <1>6 DEF StartMethod, signalVars, opVars, Drainer, At
<1>7. ASSUME NEW c \in Callers, Expire(c), UNCHANGED signalVars
      PROVE  Drainer(p, b)'
  BY <1>1, <1>7 DEF Expire, signalVars
<1>8. CASE PeerStep \/ UNCHANGED controlVars
  BY <1>1, <1>8 DEF PeerStep, controlVars, signalVars, opVars
<1> QED BY <1>1, <1>2, <1>3, <1>4, <1>5, <1>6, <1>7, <1>8
        DEF BackendStep, CommonStep, CallerStep

(* While an operation waits nobody is about to read its byte: a reset by a   *)
(* canceler does not run, and there is no other caller.                      *)
LEMMA NobodyDrains ==
  ASSUME NEW ops, OneEach, Jobs(ops), DrainInv, ResetInv, SignalTypeOK,
         NEW c \in Callers, pc[c] \notin {"idle", "drain"}
  PROVE  draining[Dir(c)] = {}
<1>1. Dir(c) \in Dirs /\ Dir(c) \in Directions
  BY CallersAreProcs
<1>2. SUFFICES ASSUME NEW p \in draining[Dir(c)] PROVE FALSE
  BY <1>1 DEF SignalTypeOK
<1>3. CASE p \in Callers /\ Dir(p) = Dir(c) /\ pc[p] = "drain"
  BY <1>3 DEF OneEach
<1>4. CASE p \in Cancelers /\ At(p, "reset", Dir(c))
  <2>1. InProgress(Dir(c)) = {}
    BY <1>1, <1>4, ResetsOfHead DEF ResetInv
  <2> QED BY <2>1 DEF InProgress
<1> QED BY <1>1, <1>2, <1>3, <1>4 DEF DrainInv, Drainer

(* The event of the cancel pipe has a reason.                                *)
LEMMA SignalHasCause ==
  ASSUME NEW ops, OneEach, SignalInv(ops),
         NEW c \in Callers, pc[c] = "wait",
         SignalReady(Dir(c)) \/ ends[Dir(c)] # BothEnds
  PROVE  cause[c]
<1>1. Dir(c) \in Dirs
  BY CallersAreProcs
<1>2. CASE ends[Dir(c)] # BothEnds
  BY <1>2 DEF SignalInv, CauseInv
<1>3. CASE ends[Dir(c)] = BothEnds
  <2>1. pipe[Dir(c)] > 0
    BY <1>3 DEF SignalReady, BothEnds
  <2>2. Cardinality(draining[Dir(c)]) = 0
    BY NobodyDrains, FS_EmptySet DEF SignalInv
  <2>3. Cardinality(signaling[Dir(c)]) \in Nat
    BY <1>1, ProcsFinite DEF SignalTypeOK, SignalInv
  <2>4. canceled[Dir(c)]
    BY <1>1, <1>3, <2>1, <2>2, <2>3 DEF Conservation, Flag, SignalTypeOK,
         SignalInv
  <2> QED BY <2>4 DEF CauseInv, SignalInv
<1> QED BY <1>2, <1>3

LEMMA CauseKept ==
  ASSUME NEW ops, OneEach, Types, SignalInv(ops), [BackendStep(ops)]_controlVars
  PROVE  CauseInv'
<1>i. CauseInv /\ WatchInv /\ SignalTypeOK
  BY DEF SignalInv
<1>t. /\ pc \in [Callers -> Places]
      /\ ctx \in [Callers -> {"none", "live", "done"}]
      /\ cause \in [Callers -> BOOLEAN]
      /\ canceled \in [Dirs -> BOOLEAN]
      /\ ends \in [Dirs -> SUBSET BothEnds]
      /\ \A c \in Callers : Dir(c) \in Dirs
  BY <1>i, CallersAreProcs DEF Types, OperationTypeOK, SignalTypeOK, Places
<1>1. ASSUME UNCHANGED <<pc, ctx, cause, ends, canceled>> PROVE CauseInv'
  BY <1>i, <1>1 DEF CauseInv
<1>2. ASSUME NEW c \in Callers, CallStep(c) PROVE CauseInv'
  <2>1. CASE Check(c)
    BY <1>i, <1>t, <2>1 DEF CauseInv, Check, Settled, Proceed, signalVars
  <2>2. CASE ContextSwap(c)
    BY <1>i, <1>t, <2>2 DEF CauseInv, ContextSwap, Swap, Proceed
  <2>3. CASE ContextDrain(c)
    BY <1>i, <1>t, <2>3 DEF CauseInv, ContextDrain, ReadSignal, Proceed
  <2>4. CASE Return(c) /\ UNCHANGED signalVars
    BY <1>i, <1>t, <2>4 DEF CauseInv, Return, signalVars
  <2> QED BY <1>2, <2>1, <2>2, <2>3, <2>4 DEF CallStep
<1>3. ASSUME NEW c \in Callers, Waits(c) PROVE CauseInv'
  <2>1. PICK q \in {"enter", "wait", "woken", "io", "join"} :
          /\ pc' = [pc EXCEPT ![c] = q]
          /\ q = "woken" => pc[c] = "wait" /\ SignalReady(Dir(c))
    BY <1>3 DEF Waits
  <2>2. q = "woken" => cause[c]
    BY <2>1, SignalHasCause
  <2>3. /\ UNCHANGED <<ctx, cause, ends, canceled>>
        /\ pc[c] \in {"enter", "wait", "woken", "io"}
    BY <1>3 DEF Waits, signalVars
  <2> QED BY <1>i, <1>t, <2>1, <2>2, <2>3 DEF CauseInv
<1>4. ASSUME NEW c \in Callers, WatcherStep(c) PROVE CauseInv'
  <2>1. CASE WatchCancel(c)
    <3>1. cause[c] \/ pc[c] = "idle"
      BY <1>i, <2>1 DEF WatchCancel, WatchInv, CauseInv
    <3>2. /\ UNCHANGED <<pc, ctx, cause, ends>>
          /\ canceled' = [canceled EXCEPT ![Dir(c)] = TRUE]
      BY <2>1 DEF WatchCancel, CompareAndSwap
    <3> QED BY <1>i, <1>t, <3>1, <3>2 DEF CauseInv, OneEach
  <2>2. CASE ~ WatchCancel(c)
    BY <1>1, <1>4, <2>2 DEF WatcherStep, WatchSignal, WriteSignal, WatchStop,
         signalVars
  <2> QED BY <2>1, <2>2
<1>5. ASSUME NEW x \in Cancelers, MethodStep(x) \/ MovesOn(x) PROVE CauseInv'
  <2>1. ASSUME NEW d \in Dirs, CancelFlag(x, d) PROVE CauseInv'
    BY <1>i, <1>t, <2>1 DEF CauseInv, CancelFlag, CompareAndSwap, GiveCause,
         InProgress
  <2>2. ASSUME NEW d \in Dirs, ResetFlag(x, d) PROVE CauseInv'
    BY <1>i, <1>t, <2>2 DEF CauseInv, ResetFlag, Swap, opVars
  <2>3. ASSUME NEW d \in Dirs, NEW e \in BothEnds, ClosePipe(x, d, e) PROVE CauseInv'
    BY <1>i, <1>t, <2>3 DEF CauseInv, ClosePipe, CloseEnd, GiveCause, InProgress
  <2>4. ASSUME NEW d \in Dirs, \/ CancelWrite(x, d) \/ ResetRead(x, d)
                               \/ MovesOn(x) \/ CloseObject(x)
        PROVE  UNCHANGED <<pc, ctx, cause, ends, canceled>>
    BY <2>4 DEF CancelWrite, WriteSignal, ResetRead, ReadSignal, MovesOn,
                CloseObject, signalVars, opVars
  <2>5. "read" \in Dirs
    BY SignalIOAssumption DEF Directions
  <2> QED BY <1>1, <1>5, <2>1, <2>2, <2>3, <2>4, <2>5 DEF MethodStep
<1>6. ASSUME NEW c \in Callers, BeginOperation(c) PROVE CauseInv'
  BY <1>i, <1>t, <1>6 DEF CauseInv, BeginOperation, Begin, signalVars
<1>7. ASSUME NEW c \in Callers, Expire(c), UNCHANGED signalVars PROVE CauseInv'
  BY <1>i, <1>t, <1>7 DEF CauseInv, Expire, signalVars
<1>8. ASSUME NEW x \in Cancelers, NEW s, StartMethod(x, s), UNCHANGED signalVars
      PROVE  CauseInv'
  BY <1>1, <1>8 DEF StartMethod, signalVars, opVars
<1>9. CASE PeerStep \/ UNCHANGED controlVars
  BY <1>1, <1>9 DEF PeerStep, controlVars, signalVars, opVars
<1> QED BY <1>2, <1>3, <1>4, <1>5, <1>6, <1>7, <1>8, <1>9
        DEF BackendStep, CommonStep, CallerStep

(***************************************************************************)
(* The invariant of the signal and of whoever may use it.                  *)
(***************************************************************************)
LEMMA SignalInvStart ==
  ASSUME NEW ops, SignalInit, OperationInit, StreamInit
  PROVE  SignalInv(ops)
<1>1. SignalTypeOK /\ Conservation
  BY SignalStart
<1>2. Jobs(ops)
  BY TypesStart
<1>3. WatchInv /\ CauseInv
  BY DEF OperationInit, WatchInv, CauseInv
<1>4. DrainInv
  BY DEF SignalInit, DrainInv
<1>5. ResetInv
  BY DEF OperationInit, ResetInv, Resets
<1> QED BY <1>1, <1>2, <1>3, <1>4, <1>5 DEF SignalInv

LEMMA SignalInvKept ==
  ASSUME NEW ops, OneEach, Types, SignalInv(ops), [BackendStep(ops)]_controlVars
  PROVE  SignalInv(ops)'
<1>1. SignalTypeOK /\ Conservation /\ Jobs(ops) /\ WatchInv /\ DrainInv /\ ResetInv
  BY DEF SignalInv
<1>2. (SignalTypeOK /\ Conservation)'
  BY <1>1, SignalKept
<1>3. Jobs(ops)'
  BY <1>1, JobsKept
<1>4. WatchInv' /\ DrainInv' /\ ResetInv'
  BY <1>1, WatchKept, DrainKept, ResetKept
<1> QED BY <1>2, <1>3, <1>4, CauseKept DEF SignalInv

-----------------------------------------------------------------------------
(* An operation past its check, before its results are settled.              *)
PastCheck(c) == pc[c] \in {"enter", "wait", "woken", "io"}

(* The watcher of such an operation is armed until the context expires, and  *)
(* does not end before the flag is set.                                      *)
ExpiryInv ==
  \A c \in Callers : PastCheck(c) =>
    /\ ctx[c] = "live" => watch[c] = "armed"
    /\ ctx[c] = "done" => watch[c] = "fired" \/ canceled[Dir(c)]

LEMMA ExpiryKept ==
  ASSUME NEW ops, OneEach, Types, SignalInv(ops), ExpiryInv,
         [BackendStep(ops)]_controlVars
  PROVE  ExpiryInv'
<1>i. WatchInv /\ ResetInv /\ Jobs(ops) /\ SignalTypeOK
  BY DEF SignalInv
<1>t. /\ pc \in [Callers -> Places]
      /\ ctx \in [Callers -> {"none", "live", "done"}]
      /\ watch \in [Callers -> {"off", "armed", "fired", "signaling", "aborting"}]
      /\ canceled \in [Dirs -> BOOLEAN]
      /\ \A c \in Callers : Dir(c) \in Dirs
  BY <1>i, CallersAreProcs DEF Types, OperationTypeOK, SignalTypeOK, Places
<1> USE DEF ExpiryInv, PastCheck
<1>1. ASSUME UNCHANGED <<pc, ctx, watch>>,
             \A c \in Callers : PastCheck(c) /\ canceled[Dir(c)] => canceled'[Dir(c)]
      PROVE  ExpiryInv'
  <2>1. SUFFICES ASSUME NEW e \in Callers, PastCheck(e)'
                 PROVE  /\ ctx[e] = "live" => watch[e] = "armed"
                        /\ ctx[e] = "done" =>
                             watch[e] = "fired" \/ canceled'[Dir(e)]
    BY <1>1
  <2>2. PastCheck(e)
    BY <1>1, <2>1
  <2> QED BY <1>1, <2>2
<1>2. ASSUME NEW c \in Callers, CallStep(c) PROVE ExpiryInv'
  <2>1. CASE Check(c)
    BY <1>t, <2>1 DEF Check, Settled, Proceed, signalVars
  <2>2. CASE ContextSwap(c)
    <3>1. \A e \in Callers : PastCheck(e) => Dir(e) # Dir(c)
      BY <2>2 DEF ContextSwap, OneEach
    <3> QED BY <1>t, <2>2, <3>1 DEF ContextSwap, Swap, Proceed
  <2>3. CASE ContextDrain(c)
    BY <1>t, <2>3 DEF ContextDrain, ReadSignal, Proceed
  <2>4. CASE Return(c) /\ UNCHANGED signalVars
    BY <1>t, <2>4 DEF Return, signalVars
  <2> QED BY <1>2, <2>1, <2>2, <2>3, <2>4 DEF CallStep
<1>3. ASSUME NEW c \in Callers, Waits(c) PROVE ExpiryInv'
  BY <1>t, <1>3 DEF Waits, signalVars
<1>4. ASSUME NEW c \in Callers, WatcherStep(c) PROVE ExpiryInv'
  <2>1. CASE WatchCancel(c)
    BY <1>i, <1>t, <2>1 DEF WatchCancel, CompareAndSwap, WatchInv
  <2>2. CASE WatchSignal(c)
    BY <1>i, <1>t, <2>2 DEF WatchSignal, WriteSignal, WatchInv
  <2>3. CASE WatchStop(c) /\ UNCHANGED signalVars
    BY <1>t, <2>3 DEF WatchStop, signalVars
  <2> QED BY <1>4, <2>1, <2>2, <2>3 DEF WatcherStep
<1>5. ASSUME NEW x \in Cancelers, MethodStep(x) \/ MovesOn(x) PROVE ExpiryInv'
  <2>1. ASSUME NEW d \in Dirs, CancelFlag(x, d) PROVE ExpiryInv'
    BY <1>t, <1>1, <2>1 DEF CancelFlag, CompareAndSwap
  <2>2. ASSUME NEW d \in Dirs, ResetFlag(x, d) PROVE ExpiryInv'
    <3>1. d \in Directions /\ Resets(job[x], d)
      BY <1>i, <2>2, ResetsOfHead, SignalIOAssumption DEF ResetFlag
    <3>2. InProgress(d) = {}
      BY <1>i, <3>1 DEF ResetInv
    <3>3. \A c \in Callers : PastCheck(c) => Dir(c) # d
      BY <3>2 DEF InProgress
    <3> QED BY <1>t, <1>1, <2>2, <3>3 DEF ResetFlag, Swap, opVars
  <2>3. ASSUME NEW d \in Dirs,
               \/ CancelWrite(x, d) \/ ResetRead(x, d) \/ MovesOn(x)
               \/ CloseObject(x) \/ \E e \in BothEnds : ClosePipe(x, d, e)
        PROVE  UNCHANGED <<pc, ctx, watch, canceled>>
    BY <2>3 DEF CancelWrite, WriteSignal, ResetRead, ReadSignal, MovesOn,
                CloseObject, ClosePipe, CloseEnd, signalVars, opVars
  <2>4. "read" \in Dirs
    BY SignalIOAssumption DEF Directions
  <2> QED BY <1>1, <1>5, <2>1, <2>2, <2>3, <2>4 DEF MethodStep
<1>6. ASSUME NEW c \in Callers, BeginOperation(c) PROVE ExpiryInv'
  BY <1>t, <1>6 DEF BeginOperation, Begin, signalVars
<1>7. ASSUME NEW c \in Callers, Expire(c), UNCHANGED signalVars PROVE ExpiryInv'
  BY <1>t, <1>7 DEF Expire, signalVars
<1>8. ASSUME NEW x \in Cancelers, NEW s, StartMethod(x, s), UNCHANGED signalVars
      PROVE  ExpiryInv'
  BY <1>1, <1>8 DEF StartMethod, signalVars, opVars
<1>9. CASE PeerStep \/ UNCHANGED controlVars
  BY <1>1, <1>9 DEF PeerStep, controlVars, signalVars, opVars
<1> QED BY <1>2, <1>3, <1>4, <1>5, <1>6, <1>7, <1>8, <1>9
        DEF BackendStep, CommonStep, CallerStep

(* No wake-up is lost and none is stale.                                     *)
LEMMA ReachesCaller ==
  ASSUME NEW ops, OneEach, SignalInv(ops), ExpiryInv
  PROVE  CancelReaches
<1> SUFFICES ASSUME NEW c \in Callers, PastCheck(c), ends[Dir(c)] = BothEnds
             PROVE  /\ ctx[c] = "done" => watch[c] = "fired" \/ canceled[Dir(c)]
                    /\ canceled[Dir(c)] <=>
                         pipe[Dir(c)] > 0 \/ signaling[Dir(c)] # {}
  BY DEF CancelReaches, PastCheck
<1> DEFINE d == Dir(c)
<1>1. d \in Dirs /\ SignalTypeOK /\ Conservation
  BY CallersAreProcs DEF SignalInv
<1>2. Cardinality(draining[d]) = 0
  BY NobodyDrains, FS_EmptySet DEF SignalInv, PastCheck
<1>3. /\ IsFiniteSet(signaling[d]) /\ Cardinality(signaling[d]) \in Nat
      /\ Cardinality(signaling[d]) = 0 <=> signaling[d] = {}
  BY <1>1, ProcsFinite, FS_EmptySet DEF SignalTypeOK
<1>4. pipe[d] + Cardinality(signaling[d]) = Flag(d) /\ pipe[d] \in Nat
  <2>1. Flag(d) \in Nat
    BY DEF Flag
  <2> QED BY <1>1, <1>2, <2>1 DEF Conservation, SignalTypeOK
<1>5. canceled[d] <=> pipe[d] > 0 \/ signaling[d] # {}
  BY <1>3, <1>4 DEF Flag
<1> QED BY <1>5 DEF ExpiryInv

-----------------------------------------------------------------------------
(* What the steps of SignalIO do to the data of an operation.                *)
Moves(e) ==
  /\ UNCHANGED <<moved[e], part[e], len[e]>>
  /\ \/ pc'[e] = pc[e] \/ pc'[e] \in {"idle", "join"}
     \/ /\ pc[e] \in {"check", "reset", "drain"}
        /\ pc'[e] \in {"reset", "drain", "enter"}

LEMMA CommonMoves ==
  ASSUME NEW ops, Types, CommonStep(ops)
  PROVE  \A e \in Callers : Moves(e)
<1>t. pc \in [Callers -> Places]
  BY DEF Types, OperationTypeOK, Places
<1>1. ASSUME NEW c \in Callers, CallStep(c) PROVE \A e \in Callers : Moves(e)
  BY <1>t, <1>1 DEF Moves, CallStep, Check, ContextSwap, ContextDrain, Proceed,
       Settled, Return
<1>2. ASSUME UNCHANGED <<pc, moved, part, len>> PROVE \A e \in Callers : Moves(e)
  BY <1>2 DEF Moves
<1>3. ASSUME NEW c \in Callers, WatcherStep(c) \/ Expire(c)
      PROVE  UNCHANGED <<pc, moved, part, len>>
  BY <1>3 DEF WatcherStep, WatchCancel, WatchSignal, WatchStop, Expire
<1>4. ASSUME NEW x \in Cancelers, MethodStep(x) PROVE UNCHANGED <<pc, moved, part, len>>
  BY <1>4 DEF MethodStep, CancelFlag, CancelWrite, ResetFlag, ResetRead,
       ClosePipe, CloseObject, opVars
<1>5. ASSUME NEW x \in Cancelers, NEW s, StartMethod(x, s)
      PROVE  UNCHANGED <<pc, moved, part, len>>
  BY <1>5 DEF StartMethod, opVars
<1>6. PeerStep => UNCHANGED <<pc, moved, part, len>>
  BY DEF PeerStep, opVars
<1> QED BY <1>1, <1>2, <1>3, <1>4, <1>5, <1>6 DEF CommonStep, CallerStep

(* They take nothing from the object and give it nothing.                    *)
Grows ==
  /\ avail' \in Nat /\ avail' >= avail
  /\ space' \in Nat /\ space' >= space
  /\ peer = "closed" => peer' = "closed"
  /\ ~ rwOpen => ~ rwOpen'

LEMMA CommonGrows ==
  ASSUME NEW ops, Types, CommonStep(ops)
  PROVE  Grows
<1>t. avail \in Nat /\ space \in Nat
  BY StreamAssumption DEF Types, StreamTypeOK
<1>1. ASSUME NEW c \in Callers, CallerStep(c) PROVE UNCHANGED streamVars
  BY <1>1 DEF CallerStep, CallStep, Check, ContextSwap, ContextDrain, Return,
       WatcherStep, WatchCancel, WatchSignal, WatchStop, Expire, streamVars
<1>2. ASSUME NEW x \in Cancelers, MethodStep(x)
      PROVE  UNCHANGED streamVars \/ CloseStream
  BY <1>2 DEF MethodStep, CancelFlag, CancelWrite, ResetFlag, ResetRead,
       ClosePipe, CloseObject, streamVars
<1>3. ASSUME NEW x \in Cancelers, NEW s, StartMethod(x, s) PROVE UNCHANGED streamVars
  BY <1>3 DEF StartMethod
<1>4. CASE UNCHANGED streamVars \/ CloseStream
  BY <1>t, <1>4 DEF streamVars, CloseStream, Grows
<1>5. CASE PeerStep
  BY <1>t, <1>5 DEF PeerStep, Peer, Arrive, Leave, HangUp, Grows
<1> QED BY <1>1, <1>2, <1>3, <1>4, <1>5 DEF CommonStep

(* A reader that is in rw.Read goes on to find what it waited for.           *)
LEMMA ReadyStays ==
  ASSUME Types, ReadNeverBlocks,
         \A e \in Readers : pc'[e] = "io" => pc[e] = "io",
         avail' \in Nat, avail' >= avail,
         peer = "closed" => peer' = "closed", ~ rwOpen => ~ rwOpen'
  PROVE  ReadNeverBlocks'
BY DEF ReadNeverBlocks, Readable, Types, StreamTypeOK

LEMMA CommonReady ==
  ASSUME NEW ops, Types, ReadNeverBlocks, CommonStep(ops)
  PROVE  ReadNeverBlocks'
<1>1. \A e \in Readers : pc'[e] = "io" => pc[e] = "io"
  BY CommonMoves DEF Moves, Callers
<1> QED BY <1>1, CommonGrows, ReadyStays DEF Grows

LEMMA BeginReady ==
  ASSUME Types, ReadNeverBlocks, NEW c \in Callers, BeginOperation(c)
  PROVE  ReadNeverBlocks'
BY DEF BeginOperation, Begin, streamVars, ReadNeverBlocks, Readable, Types,
       OperationTypeOK, Callers

LEMMA ReadReady ==
  ASSUME OneEach, Types, NEW c \in Callers, NEW most, RwRead(c, most)
  PROVE  ReadNeverBlocks'
<1>1. c \in Readers /\ pc'[c] = "join"
  BY DEF RwRead, RwReadData, ReadFails, Settled, Types, OperationTypeOK
<1>2. \A e \in Readers : e = c
  BY <1>1 DEF OneEach, Dir, Callers
<1> QED BY <1>1, <1>2 DEF ReadNeverBlocks

-----------------------------------------------------------------------------
(* The refinement: a step of a backend is a step of ContextIO or a stutter   *)
(* of it.  The phase of a call is a function of its pc.                      *)
Phase(q) == CASE q = "idle" -> "idle"
              [] q = "join" -> "done"
              [] OTHER -> "busy"

(* What the steps are compared with: the promise, and its part about the     *)
(* counts, which a step keeps with any number of callers.                    *)
KeepsPromise == [Promise!ContextNext]_Promise!contextVars
KeepsCounts  == [Counts!ContextNext]_Counts!contextVars

LEMMA PromiseKeepsCounts ==
  ASSUME KeepsPromise
  PROVE  KeepsCounts
<1>1. CASE UNCHANGED Promise!contextVars
  BY <1>1 DEF KeepsCounts, Promise!contextVars, Counts!contextVars
<1>2. CASE Promise!Disturb
  <2>1. Counts!Disturb
    BY <1>2 DEF Promise!Disturb, Counts!Disturb
  <2> QED BY <2>1 DEF KeepsCounts, Counts!ContextNext
<1>3. ASSUME NEW c \in Callers, Promise!Call(c) PROVE KeepsCounts
  <2>1. Counts!Call(c)
    BY <1>3 DEF Promise!Call, Counts!Call, Promise!NoResult, Counts!NoResult
  <2> QED BY <2>1 DEF KeepsCounts, Counts!ContextNext
<1>4. ASSUME NEW c \in Callers, Promise!Finish(c) PROVE KeepsCounts
  <2>1. Counts!Finish(c)
    BY <1>4 DEF Promise!Finish, Counts!Finish
  <2> QED BY <2>1 DEF KeepsCounts, Counts!ContextNext
<1>5. ASSUME NEW c \in Callers, NEW k \in 0..MaxLen, Promise!Transfer(c, k)
      PROVE  KeepsCounts
  <2>1. Counts!Transfer(c, k)
    BY <1>5 DEF Promise!Transfer, Counts!Transfer
  <2> QED BY <2>1 DEF KeepsCounts, Counts!ContextNext
<1>6. ASSUME NEW c \in Callers, NEW k \in 0..MaxLen, NEW err \in Promise!Errors,
             Promise!Settle(c, k, err)
      PROVE  KeepsCounts
  <2>1. Counts!Settle(c, k, err)
    BY <1>6 DEF Promise!Settle, Counts!Settle
  <2> QED BY <2>1 DEF KeepsCounts, Counts!ContextNext, Promise!Errors,
         Counts!Errors
<1> QED BY <1>1, <1>2, <1>3, <1>4, <1>5, <1>6 DEF KeepsPromise,
       Promise!ContextNext

(* Steps that leave the promise alone.                                       *)
LEMMA Stutters ==
  ASSUME \A c \in Callers : Phase(pc'[c]) = Phase(pc[c]),
         UNCHANGED <<cause, moved, out>>
  PROVE  UNCHANGED Promise!contextVars
BY DEF Promise!contextVars, Phase

LEMMA GoesOn ==
  ASSUME Types, NEW c \in Callers, Phase(pc[c]) = "busy",
         NEW q \in Places, q \notin {"idle", "join"},
         pc' = [pc EXCEPT ![c] = q], UNCHANGED <<cause, moved, out>>
  PROVE  UNCHANGED Promise!contextVars
<1>1. \A e \in Callers : Phase(pc'[e]) = Phase(pc[e])
  BY DEF Phase, Types, OperationTypeOK
<1> QED BY <1>1, Stutters

(* An operation that returns its results.                                    *)
LEMMA Settles ==
  ASSUME Types, NEW c \in Callers, Phase(pc[c]) = "busy",
         NEW k \in 0..MaxLen, NEW e \in ErrorNames,
         e = "canceled" => cause[c],
         \/ Settled(c, e, moved[c] + k)
         \/ c \in Writers /\ e \in Forgotten /\ Settled(c, e, 0),
         moved' = [moved EXCEPT ![c] = @ + k], UNCHANGED cause
  PROVE  Promise!ContextNext
<1>1. CASE Settled(c, e, moved[c] + k)
  <2>1. Promise!Settle(c, k, e)
    BY <1>1 DEF Promise!Settle, Settled, Phase, Types, OperationTypeOK
  <2> QED BY <2>1 DEF Promise!ContextNext, Promise!Errors, ErrorNames
<1>2. CASE c \in Writers /\ e \in Forgotten /\ Settled(c, e, 0)
  <2>1. Promise!Settle(c, k, e)
    BY <1>2 DEF Promise!Settle, Settled, Phase, Types, OperationTypeOK
  <2> QED BY <2>1 DEF Promise!ContextNext, Promise!Errors, ErrorNames
<1> QED BY <1>1, <1>2

LEMMA SettlesNow ==
  ASSUME Types, NEW c \in Callers, Phase(pc[c]) = "busy", NEW e \in ErrorNames,
         e = "canceled" => cause[c],
         \/ Settled(c, e, moved[c])
         \/ c \in Writers /\ e \in Forgotten /\ Settled(c, e, 0),
         UNCHANGED <<moved, cause>>
  PROVE  Promise!ContextNext
<1>1. 0 \in 0..MaxLen /\ moved[c] + 0 = moved[c] /\ moved' = [moved EXCEPT ![c] = @ + 0]
  BY OperationAssumption DEF Types, OperationTypeOK
<1>2. Settled(c, e, moved[c]) => Settled(c, e, moved[c] + 0)
  BY <1>1
<1> QED BY <1>1, <1>2, Settles

(* An operation that ends with ErrCanceled: the count is right, and a reason *)
(* makes it keep the whole promise.                                          *)
LEMMA SettlesCanceled ==
  ASSUME Types, NEW c \in Callers, Phase(pc[c]) = "busy",
         \/ Settled(c, "canceled", moved[c])
         \/ c \in Writers /\ "canceled" \in Forgotten /\ Settled(c, "canceled", 0),
         UNCHANGED <<moved, cause>>
  PROVE  KeepsCounts /\ (cause[c] => KeepsPromise)
<1>1. ASSUME cause[c] PROVE KeepsPromise
  <2>1. Promise!ContextNext
    BY <1>1, SettlesNow DEF ErrorNames
  <2> QED BY <2>1 DEF KeepsPromise
<1>2. 0 \in 0..MaxLen /\ moved[c] + 0 = moved[c] /\ moved' = [moved EXCEPT ![c] = @ + 0]
  BY OperationAssumption DEF Types, OperationTypeOK
<1>3. Counts!Settle(c, 0, "canceled")
  <2>1. CASE Settled(c, "canceled", moved[c])
    <3>1. out' = [out EXCEPT ![c] = [err |-> "canceled", n |-> moved[c] + 0]]
      BY <1>2, <2>1 DEF Settled
    <3> QED BY <1>2, <2>1, <3>1 DEF Counts!Settle, Settled, Phase, Types,
           OperationTypeOK
  <2>2. CASE c \in Writers /\ "canceled" \in Forgotten /\ Settled(c, "canceled", 0)
    BY <1>2, <2>2 DEF Counts!Settle, Settled, Phase, Types, OperationTypeOK
  <2> QED BY <2>1, <2>2
<1>4. KeepsCounts
  BY <1>2, <1>3 DEF KeepsCounts, Counts!ContextNext, Counts!Errors
<1> QED BY <1>1, <1>4

LEMMA ReadRefines ==
  ASSUME Types, NEW c \in Callers, moved[c] = 0, NEW most \in Int, most <= len[c],
         RwRead(c, most)
  PROVE  Promise!ContextNext
<1>1. pc[c] = "io" /\ UNCHANGED cause
  BY DEF RwRead, RwReadData, ReadFails
<1>2. Phase(pc[c]) = "busy"
  BY <1>1 DEF Phase
<1>3. CASE RwReadData(c, most)
  <2>1. PICK k \in 1..Least(most, avail) : /\ moved' = [moved EXCEPT ![c] = k]
                                          /\ Settled(c, "nil", k)
    BY <1>3 DEF RwReadData
  <2>2. k \in 0..MaxLen /\ moved[c] + k = k
    BY OperationAssumption, StreamAssumption
       DEF Least, Types, OperationTypeOK, StreamTypeOK
  <2>3. moved' = [moved EXCEPT ![c] = @ + k] /\ Settled(c, "nil", moved[c] + k)
    BY <2>1, <2>2
  <2> QED BY <1>1, <1>2, <2>2, <2>3, Settles DEF ErrorNames
<1>4. CASE ~ RwReadData(c, most)
  BY <1>1, <1>2, <1>4, SettlesNow DEF RwRead, ErrorNames
<1> QED BY <1>3, <1>4

LEMMA WriteRefines ==
  ASSUME Types, NEW c \in Callers, NEW todo \in Int, todo <= len[c],
         RwWriteSome(c, todo)
  PROVE  Promise!ContextNext
<1>1. pc[c] = "io" /\ UNCHANGED <<pc, cause, out>>
  BY DEF RwWriteSome
<1>2. PICK k \in 1..Least(todo - part[c], space) : moved' = [moved EXCEPT ![c] = @ + k]
  BY DEF RwWriteSome
<1>3. k \in 0..MaxLen
  BY OperationAssumption, StreamAssumption
     DEF Least, Types, OperationTypeOK, StreamTypeOK
<1>4. Promise!Transfer(c, k)
  BY <1>1, <1>2 DEF Promise!Transfer
<1> QED BY <1>3, <1>4 DEF Promise!ContextNext

(* A reason for some callers to be canceled.                                 *)
LEMMA Disturbs ==
  ASSUME NEW S \in SUBSET Callers, UNCHANGED <<pc, moved, out>>,
         cause' = [c \in Callers |-> cause[c] \/ c \in S]
  PROVE  Promise!ContextNext
BY DEF Promise!ContextNext, Promise!Disturb

LEMMA BeginRefines ==
  ASSUME Types, NEW c \in Callers, BeginOperation(c)
  PROVE  Promise!ContextNext
<1>1. PICK r \in {"none", "live"}, l \in Lengths(c) :
        Begin(c, r, l, \/ r = "none" /\ canceled[Dir(c)]
                       \/ ends[Dir(c)] # BothEnds)
  BY DEF BeginOperation
<1>2. PICK b \in BOOLEAN : cause' = [cause EXCEPT ![c] = b]
  BY <1>1 DEF Begin
<1>3. /\ pc[c] = "idle" /\ pc' = [pc EXCEPT ![c] = "check"]
      /\ moved' = [moved EXCEPT ![c] = 0]
      /\ out' = [out EXCEPT ![c] = Promise!NoResult]
  BY <1>1 DEF Begin, NoResult, Promise!NoResult
<1>4. Promise!Call(c)
  BY <1>2, <1>3 DEF Promise!Call, Types, OperationTypeOK
<1> QED BY <1>4 DEF Promise!ContextNext

LEMMA CommonRefines ==
  ASSUME NEW ops, Types, \A c \in Callers : pc[c] = "check" => moved[c] = 0,
         CommonStep(ops)
  PROVE  KeepsCounts /\ (CauseInv => KeepsPromise)
<1>t. pc \in [Callers -> Places] /\ cause \in [Callers -> BOOLEAN]
  BY DEF Types, OperationTypeOK, Places
<1>1. ASSUME UNCHANGED <<pc, cause, moved, out>> PROVE UNCHANGED Promise!contextVars
  BY <1>1 DEF Promise!contextVars
<1>2. ASSUME NEW c \in Callers, Check(c)
      PROVE  KeepsCounts /\ (CauseInv => KeepsPromise)
  <2>1. Phase(pc[c]) = "busy" /\ moved[c] = 0 /\ UNCHANGED <<moved, cause>>
    BY <1>2 DEF Check, Phase
  <2>2. CASE ctx[c] = "done" \/ (ctx[c] = "none" /\ canceled[Dir(c)])
    <3>1. Settled(c, "canceled", moved[c]) /\ (CauseInv => cause[c])
      BY <1>2, <2>1, <2>2 DEF Check, CauseInv
    <3> QED BY <2>1, <3>1, SettlesCanceled
  <2>3. CASE ~ (ctx[c] = "done" \/ (ctx[c] = "none" /\ canceled[Dir(c)]))
    <3>1. UNCHANGED out /\ \E q \in {"reset", "enter"} : pc' = [pc EXCEPT ![c] = q]
      BY <1>2, <2>3 DEF Check, Proceed
    <3>2. UNCHANGED Promise!contextVars
      BY <2>1, <3>1, GoesOn DEF Places
    <3> QED BY <3>2, PromiseKeepsCounts DEF KeepsPromise
  <2> QED BY <2>2, <2>3
<1>3. ASSUME NEW c \in Callers, ContextSwap(c) \/ ContextDrain(c)
      PROVE  UNCHANGED Promise!contextVars
  <2>1. /\ Phase(pc[c]) = "busy" /\ UNCHANGED <<moved, cause, out>>
        /\ \E q \in {"drain", "enter"} : pc' = [pc EXCEPT ![c] = q]
    BY <1>3 DEF ContextSwap, ContextDrain, Proceed, Phase
  <2> QED BY <2>1, GoesOn DEF Places
<1>4. ASSUME NEW c \in Callers, Return(c) PROVE Promise!ContextNext
  <2>1. Promise!Finish(c)
    BY <1>t, <1>4 DEF Return, Promise!Finish
  <2> QED BY <2>1 DEF Promise!ContextNext
<1>5. ASSUME NEW c \in Callers, WatcherStep(c) PROVE UNCHANGED <<pc, cause, moved, out>>
  BY <1>5 DEF WatcherStep, WatchCancel, WatchSignal, WatchStop
<1>6. ASSUME NEW c \in Callers, Expire(c) PROVE Promise!ContextNext
  <2>1. UNCHANGED <<pc, moved, out>> /\ cause' = [cause EXCEPT ![c] = TRUE]
    BY <1>6 DEF Expire
  <2>2. cause' = [e \in Callers |-> cause[e] \/ e \in {c}]
    BY <1>t, <2>1
  <2> QED BY <2>1, <2>2, Disturbs
<1>7. ASSUME NEW x \in Cancelers, MethodStep(x)
      PROVE  Promise!ContextNext \/ UNCHANGED <<pc, cause, moved, out>>
  <2>1. ASSUME NEW d, GiveCause(d), UNCHANGED <<pc, moved, out>>
        PROVE  Promise!ContextNext
    <3>1. InProgress(d) \in SUBSET Callers
      BY DEF InProgress
    <3> QED BY <2>1, <3>1, Disturbs DEF GiveCause
  <2>2. ASSUME NEW d \in Dirs, CancelFlag(x, d)
        PROVE  Promise!ContextNext \/ UNCHANGED <<pc, cause, moved, out>>
    BY <2>1, <2>2 DEF CancelFlag
  <2>3. ASSUME NEW d \in Dirs, NEW e \in BothEnds, ClosePipe(x, d, e)
        PROVE  Promise!ContextNext
    BY <2>1, <2>3 DEF ClosePipe
  <2>4. ASSUME NEW d \in Dirs, CancelWrite(x, d) \/ ResetFlag(x, d) \/ ResetRead(x, d)
        PROVE  UNCHANGED <<pc, cause, moved, out>>
    BY <2>4 DEF CancelWrite, ResetFlag, ResetRead, opVars
  <2>5. CloseObject(x) => UNCHANGED <<pc, cause, moved, out>>
    BY DEF CloseObject, opVars
  <2> QED BY <1>7, <2>2, <2>3, <2>4, <2>5 DEF MethodStep
<1>8. ASSUME NEW x \in Cancelers, NEW s, StartMethod(x, s)
      PROVE  UNCHANGED <<pc, cause, moved, out>>
  BY <1>8 DEF StartMethod, opVars
<1>9. PeerStep => UNCHANGED <<pc, cause, moved, out>>
  BY DEF PeerStep, opVars
<1>10. CASE \A c \in Callers : ~ Check(c)
  <2>1. KeepsPromise
    BY <1>1, <1>3, <1>4, <1>5, <1>6, <1>7, <1>8, <1>9, <1>10
       DEF CommonStep, CallerStep, CallStep, KeepsPromise
  <2> QED BY <2>1, PromiseKeepsCounts
<1> QED BY <1>2, <1>10

=============================================================================
