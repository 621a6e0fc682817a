---------------------------- MODULE MCFlagIOProofs ----------------------------
(***************************************************************************)
(* Proofs about the backends with a flag (deadline, closable, overlapped   *)
(* and console), for any number of callers and cancelers unless a theorem  *)
(* says otherwise.  D!, C!, O! and K! name the definitions of DeadlineIO,  *)
(* CloseIO, WinOverlappedIO and WinConsoleIO; the last section is about    *)
(* the specification that the run of all four checks.                      *)
(***************************************************************************)
EXTENDS MCFlagIO, SequenceTheorems, TLAPS

-----------------------------------------------------------------------------
(* What the four have in common, first the types.                            *)
States == {"idle", "check", "reset", "drain", "enter", "wait", "woken", "io",
           "late", "join"}

Results == [err : {"nil", "canceled", "eof", "error"}, n : Nat]

Typed ==
  /\ OperationTypeOK /\ StreamTypeOK
  /\ canceled \in [Directions -> BOOLEAN]

LEMMA CallersHaveDirections == \A c \in Callers : Dir(c) \in Directions
BY DEF Dir, Directions

LEMMA TypedInit == OperationInit /\ StreamInit /\ FlagInit => Typed
BY StreamAssumption, OperationAssumption DEF StreamAssumption,
     OperationAssumption, OperationInit, StreamInit, FlagInit, Typed,
     OperationTypeOK, StreamTypeOK, NoResult

LEMMA SettledTyped ==
  ASSUME Typed, NEW c \in Callers, NEW e \in {"nil", "canceled", "eof", "error"},
         NEW k \in Nat, Settled(c, e, k)
  PROVE  pc' \in [Callers -> States] /\ out' \in [Callers -> Results]
<1>1. [err |-> e, n |-> k] \in Results
  BY DEF Results
<1> QED BY <1>1 DEF Typed, OperationTypeOK, Settled, Results, States

(* A caller gets its results, or goes on without them.                       *)
LEMMA TypedSettles ==
  ASSUME Typed, NEW c \in Callers, NEW e \in {"nil", "canceled", "eof", "error"},
         NEW k \in Nat, Settled(c, e, k),
         UNCHANGED <<ctx, watch, len, part, cause, moved, streamVars, canceled>>
  PROVE  Typed'
BY SettledTyped
   DEF Typed, OperationTypeOK, StreamTypeOK, streamVars, States, Results

LEMMA TypedGoes ==
  ASSUME Typed, NEW c \in Callers, NEW s \in States, pc' = [pc EXCEPT ![c] = s],
         UNCHANGED <<ctx, watch, len, out, part, cause, moved, streamVars, canceled>>
  PROVE  Typed'
BY DEF Typed, OperationTypeOK, StreamTypeOK, streamVars, States

LEMMA TypedStays ==
  ASSUME Typed, UNCHANGED <<opVars, streamVars, canceled>>
  PROVE  Typed'
BY DEF Typed, OperationTypeOK, StreamTypeOK, opVars, streamVars

LEMMA TypedCheck ==
  ASSUME Typed, NEW c \in Callers,
         Check(c) \/ ContextStore(c) \/ ContextUndo(c) \/ (Return(c) /\ canceled' = canceled)
  PROVE  Typed'
<1>1. CASE Settled(c, "canceled", 0) /\ Check(c)
  BY <1>1, SettledTyped DEF Typed, OperationTypeOK, StreamTypeOK, streamVars,
       Check, Proceed, States, Results
<1>2. CASE ~ Settled(c, "canceled", 0) /\ Check(c)
  BY <1>2 DEF Typed, OperationTypeOK, StreamTypeOK, streamVars, Check, Proceed
<1>3. CASE ContextStore(c) \/ (Return(c) /\ canceled' = canceled)
  BY <1>3 DEF Typed, OperationTypeOK, StreamTypeOK, streamVars, ContextStore,
       Return
<1>4. CASE ContextUndo(c)
  BY <1>4 DEF Typed, OperationTypeOK, StreamTypeOK, streamVars, ContextUndo,
       Proceed
<1> QED BY <1>1, <1>2, <1>3, <1>4

LEMMA TypedRead ==
  ASSUME Typed, NEW c \in Callers, RwReadData(c, len[c]), canceled' = canceled
  PROVE  Typed'
<1> PICK k \in 1..Least(len[c], avail) : /\ avail' = avail - k
                                         /\ moved' = [moved EXCEPT ![c] = k]
                                         /\ Settled(c, "nil", k)
  BY DEF RwReadData
<1>1. k \in Nat /\ avail - k \in 0..BufSize
  BY StreamAssumption DEF StreamAssumption, Typed, StreamTypeOK,
       OperationTypeOK, Least
<1>2. pc' \in [Callers -> States] /\ out' \in [Callers -> Results]
  BY <1>1, SettledTyped
<1> QED BY <1>1, <1>2 DEF Typed, OperationTypeOK, StreamTypeOK, RwReadData,
       States, Results

LEMMA TypedWrite ==
  ASSUME Typed, NEW c \in Callers, RwWriteSome(c, len[c]), canceled' = canceled
  PROVE  Typed'
BY StreamAssumption, OperationAssumption DEF StreamAssumption,
     OperationAssumption, Typed, OperationTypeOK, StreamTypeOK, RwWriteSome,
     Least

LEMMA TypedWatch ==
  ASSUME Typed, NEW c \in Callers,
         NEW w \in {"off", "armed", "fired", "signaling", "aborting"},
         watch' = [watch EXCEPT ![c] = w], cause' \in [Callers -> BOOLEAN],
         rwOpen' \in BOOLEAN, canceled' \in [Directions -> BOOLEAN],
         UNCHANGED <<pc, ctx, len, out, part, moved, avail, space, peer>>
  PROVE  Typed'
BY DEF Typed, OperationTypeOK, StreamTypeOK

LEMMA TypedManage ==
  ASSUME Typed, cause' \in [Callers -> BOOLEAN],
         rwOpen' \in BOOLEAN, canceled' \in [Directions -> BOOLEAN],
         UNCHANGED <<pc, ctx, watch, len, out, part, moved, avail, space, peer>>
  PROVE  Typed'
BY DEF Typed, OperationTypeOK, StreamTypeOK

LEMMA TypedBegin ==
  ASSUME Typed, NEW c \in Callers, NEW k \in {"none", "live"}, NEW l \in Lengths(c),
         NEW b \in BOOLEAN, Begin(c, k, l, b), canceled' = canceled
  PROVE  Typed'
<1>1. l \in 0..MaxLen
  BY OperationAssumption DEF OperationAssumption, Lengths
<1> QED BY <1>1 DEF Typed, OperationTypeOK, StreamTypeOK, streamVars, Begin,
       NoResult

LEMMA TypedEnvironment ==
  ASSUME Typed, canceled' = canceled,
         \/ \E c \in Callers : Expire(c)
         \/ \E x \in Cancelers : \E s : StartMethod(x, s)
         \/ Peer /\ UNCHANGED opVars
  PROVE  Typed'
<1>1. CASE Peer /\ UNCHANGED opVars
  <2>1. StreamTypeOK'
    BY <1>1, StreamAssumption DEF StreamAssumption, Typed, StreamTypeOK, Peer,
         Arrive, Leave, HangUp
  <2> QED BY <1>1, <2>1 DEF Typed, OperationTypeOK, opVars
<1>2. ASSUME NEW c \in Callers, Expire(c) PROVE Typed'
  BY <1>2 DEF Typed, OperationTypeOK, StreamTypeOK, streamVars, Expire
<1> QED BY <1>1, <1>2, TypedStays DEF StartMethod

(* The jobs.                                                                 *)
Jobs(ops) == job \in [Cancelers -> Seq([op : ops, dir : Directions])]

LEMMA JobsTyped == ASSUME NEW ops, Jobs(ops) PROVE JobTypeOK(ops)
<1> SUFFICES ASSUME NEW x \in Cancelers, NEW i \in DOMAIN job[x]
             PROVE  job[x][i] \in [op : ops, dir : Directions]
  BY DEF JobTypeOK
<1>1. job[x] \in Seq([op : ops, dir : Directions])
  BY DEF Jobs
<1> QED BY <1>1, LenProperties, ElementOfSeq

(* A step of a method replaces what it was at by what is left to do.         *)
LEMMA JobsGoOn ==
  ASSUME NEW ops, Jobs(ops), NEW x \in Cancelers, job[x] # <<>>,
         NEW rest \in Seq([op : ops, dir : Directions]),
         Advance(x) \/ job' = [job EXCEPT ![x] = rest \o Tail(@)]
  PROVE  Jobs(ops)'
<1> DEFINE S == [op : ops, dir : Directions]
<1>1. Tail(job[x]) \in Seq(S)
  BY HeadTailProperties DEF Jobs
<1>2. rest \o Tail(job[x]) \in Seq(S)
  BY <1>1, ConcatProperties
<1> QED BY <1>1, <1>2 DEF Jobs, Advance

LEMMA JobsStart ==
  ASSUME NEW ops, Jobs(ops), NEW x \in Cancelers,
         NEW s \in Seq([op : ops, dir : Directions]), StartMethod(x, s)
  PROVE  Jobs(ops)'
BY DEF Jobs, StartMethod

LEMMA JobsInit == ASSUME NEW ops, OperationInit PROVE Jobs(ops)
BY DEF OperationInit, Jobs

LEMMA MethodsAreSteps ==
  ASSUME NEW ops, "cancel" \in ops, "reset" \in ops
  PROVE  /\ \A o \in ops, d \in Directions :
              <<Step(o, d)>> \in Seq([op : ops, dir : Directions])
         /\ \A s \in Methods : s \in Seq([op : ops, dir : Directions])
<1> DEFINE S == [op : ops, dir : Directions]
<1>1. ASSUME NEW o \in ops, NEW d \in Directions PROVE <<Step(o, d)>> \in Seq(S)
  BY DEF Step
<1>2. "read" \in Directions /\ "write" \in Directions
  BY DEF Directions
<1>3. /\ CancelReads \in Seq(S) /\ CancelWrites \in Seq(S)
      /\ ResetReader \in Seq(S) /\ ResetWriter \in Seq(S)
  BY <1>1, <1>2 DEF CancelReads, CancelWrites, ResetReader, ResetWriter
<1>4. Cancel \in Seq(S) /\ Reset \in Seq(S)
  BY <1>3, ConcatProperties DEF Cancel, Reset
<1> QED BY <1>1, <1>3, <1>4 DEF Methods

-----------------------------------------------------------------------------
(* What the four have in common, second what a call does.                    *)
Goes(c, s) ==
  /\ pc' = [pc EXCEPT ![c] = s]
  /\ UNCHANGED <<job, ctx, watch, len, out, part, cause, moved, streamVars, canceled>>

Ends(c, e, k) ==
  /\ Settled(c, e, k)
  /\ UNCHANGED <<job, ctx, watch, len, part, cause, moved, streamVars, canceled>>

(* The tests before an operation; the closable backend has its own form.     *)
FlagTests(c) ==
  \/ Check(c) \/ ContextStore(c) \/ ContextUndo(c)
  \/ Return(c) /\ UNCHANGED canceled

Tests(c) ==
  \/ FlagTests(c)
  \/ /\ pc[c] = "check"
     /\ ctx[c] = "done" \/ canceled[Dir(c)]
     /\ Ends(c, "canceled", 0)
  \/ /\ pc[c] = "check" /\ ctx[c] # "done" /\ ~ canceled[Dir(c)]
     /\ Proceed(c)
     /\ UNCHANGED <<job, ctx, len, out, part, cause, moved, streamVars, canceled>>

(* The backends that call Read and Write of the object.                      *)
CallsObject(c) ==
  \/ pc[c] = "enter" /\ (Goes(c, "io") \/ Ends(c, "error", 0))
  \/ RwReadData(c, len[c]) /\ UNCHANGED canceled
  \/ \E e \in {"eof", "error"} : ReadFails(c, e) /\ Ends(c, e, 0)
  \/ RwWriteSome(c, len[c]) /\ UNCHANGED canceled
  \/ WroteAll(c, len[c]) /\ Ends(c, "nil", part[c])
  \/ WriteFails(c, len[c]) /\ Ends(c, "error", part[c])
  \/ pc[c] = "io" /\ Goes(c, "late")
  \/ pc[c] = "late" /\ canceled[Dir(c)] /\ Ends(c, "canceled", 0)
  \/ pc[c] = "late" /\ ~ canceled[Dir(c)]
     /\ \E e \in {"eof", "error"} : Ends(c, e, part[c])

LEMMA TypedTests ==
  ASSUME Typed, NEW c \in Callers, Tests(c)
  PROVE  Typed' /\ job' = job
<1>1. CASE Check(c) \/ ContextStore(c) \/ ContextUndo(c) \/ (Return(c) /\ UNCHANGED canceled)
  BY <1>1, TypedCheck DEF Check, ContextStore, ContextUndo, Return
<1>2. CASE Ends(c, "canceled", 0)
  BY <1>2, TypedSettles DEF Ends
<1>3. CASE /\ Proceed(c)
           /\ UNCHANGED <<job, ctx, len, out, part, cause, moved, streamVars, canceled>>
  BY <1>3 DEF Proceed, Typed, OperationTypeOK, StreamTypeOK, streamVars
<1> QED BY <1>1, <1>2, <1>3 DEF Tests, FlagTests

LEMMA TypedCalls ==
  ASSUME Typed, NEW c \in Callers, CallsObject(c)
  PROVE  Typed' /\ job' = job
<1>1. ASSUME NEW s \in States, Goes(c, s) PROVE Typed' /\ job' = job
  BY <1>1, TypedGoes DEF Goes
<1>2. ASSUME NEW e \in {"nil", "canceled", "eof", "error"}, NEW k \in Nat, Ends(c, e, k)
      PROVE  Typed' /\ job' = job
  BY <1>2, TypedSettles DEF Ends
<1>3. part[c] \in Nat
  BY DEF Typed, OperationTypeOK
<1>4. CASE RwReadData(c, len[c]) /\ UNCHANGED canceled
  BY <1>4, TypedRead DEF RwReadData
<1>5. CASE RwWriteSome(c, len[c]) /\ UNCHANGED canceled
  BY <1>5, TypedWrite DEF RwWriteSome
<1>6. {"io", "late"} \subseteq States
  BY DEF States
<1> QED BY <1>1, <1>2, <1>3, <1>4, <1>5, <1>6 DEF CallsObject

(* Third, the count of an operation.                                         *)
Early == {"check", "reset", "drain", "enter"}

Fresh(c) == moved[c] = 0 /\ part[c] = 0

(* What NothingLost says of one caller that has its results ...              *)
Counted(c) ==
  /\ out[c].err = "canceled" /\ c \in Readers => moved[c] = 0
  /\ out[c].err \in {"nil", "eof", "error"} => out[c].n = moved[c]

(* Nothing has moved before the call of the object, and part is what a Write *)
(* in progress has moved.                                                    *)
Account(c) ==
  /\ part[c] <= len[c]
  /\ pc[c] \in Early => Fresh(c)
  /\ pc[c] \in {"io", "late"} => moved[c] = part[c] /\ (c \in Readers => part[c] = 0)
  /\ pc[c] = "join" => Counted(c)

(* A step of one caller leaves the others as they are.                       *)
OnlyOf(c) ==
  \A a \in Callers \ {c} :
    /\ pc'[a] = pc[a] /\ len'[a] = len[a] /\ out'[a] = out[a]
    /\ part'[a] = part[a] /\ moved'[a] = moved[a]

LEMMA AccountOfOne ==
  ASSUME \A a \in Callers : Account(a), NEW c \in Callers, OnlyOf(c), Account(c)'
  PROVE  \A a \in Callers : Account(a)'
BY DEF OnlyOf, Account, Fresh, Counted

LEMMA AccountStays ==
  ASSUME \A a \in Callers : Account(a), UNCHANGED <<pc, len, out, part, moved>>
  PROVE  \A a \in Callers : Account(a)'
BY DEF Account, Fresh, Counted

LEMMA AccountTests ==
  ASSUME Typed, NEW c \in Callers, Tests(c), Account(c)
  PROVE  OnlyOf(c) /\ Account(c)'
<1> USE DEF Typed, OperationTypeOK
<1>1. CASE Ends(c, "canceled", 0) /\ pc[c] = "check"
  BY <1>1 DEF Ends, Settled, OnlyOf, Account, Early, Fresh, Counted
<1>2. CASE Check(c)
  BY <1>2 DEF Check, Settled, Proceed, OnlyOf, Account, Early, Fresh, Counted
<1>3. CASE ~ Check(c) /\ ~ (Ends(c, "canceled", 0) /\ pc[c] = "check")
  BY <1>3 DEF Tests, FlagTests, ContextStore, ContextUndo, Return, Proceed,
       OnlyOf, Account, Early, Fresh, Counted
<1> QED BY <1>1, <1>2, <1>3 DEF Tests, FlagTests

LEMMA AccountCalls ==
  ASSUME Typed, NEW c \in Callers, CallsObject(c), Account(c)
  PROVE  OnlyOf(c) /\ Account(c)'
<1> USE DEF Typed, OperationTypeOK
<1>1. ASSUME NEW s \in {"io", "late"}, Goes(c, s), pc[c] \in {"enter", "io"}
      PROVE  OnlyOf(c) /\ Account(c)'
  BY <1>1 DEF Goes, OnlyOf, Account, Early, Fresh
<1>2. CASE RwReadData(c, len[c])
  <2> PICK k \in 1..Least(len[c], avail) : /\ moved' = [moved EXCEPT ![c] = k]
                                           /\ Settled(c, "nil", k)
    BY <1>2 DEF RwReadData
  <2> QED BY <1>2 DEF RwReadData, Settled, OnlyOf, Account, Early, Fresh,
         Counted
<1>3. CASE RwWriteSome(c, len[c])
  <2>1. /\ OnlyOf(c) /\ c \notin Readers /\ pc[c] = "io" /\ pc' = pc /\ len' = len
        /\ part'[c] = moved'[c] /\ part'[c] <= len[c]
    BY <1>3, StreamAssumption, OperationAssumption DEF RwWriteSome, Least,
         StreamAssumption, OperationAssumption, OnlyOf, Account, StreamTypeOK
  <2> QED BY <2>1 DEF Account, Early
<1>4. ASSUME NEW e \in {"nil", "canceled", "eof", "error"}, NEW k \in Nat, Ends(c, e, k),
             pc[c] \in {"enter", "io", "late"}, k = moved[c] \/ e = "canceled"
      PROVE  OnlyOf(c) /\ Account(c)'
  <2>1. /\ pc'[c] = "join" /\ out'[c].err = e /\ out'[c].n = k
        /\ UNCHANGED <<len, part, moved>>
    BY <1>4 DEF Ends, Settled
  <2>2. OnlyOf(c)
    BY <1>4 DEF Ends, Settled, OnlyOf
  <2>3. c \in Readers => moved[c] = 0
    BY <1>4 DEF Account, Early, Fresh
  <2> QED BY <1>4, <2>1, <2>2, <2>3 DEF Account, Early, Counted
<1>5. /\ pc[c] = "enter" => moved[c] = 0
      /\ pc[c] \in {"io", "late"} => moved[c] = part[c] /\ (c \in Readers => part[c] = 0)
      /\ part[c] \in Nat
  BY DEF Account, Early, Fresh
<1>6. \A e : ReadFails(c, e) => pc[c] = "io" /\ moved[c] = 0
  BY <1>5 DEF ReadFails
<1>7. WroteAll(c, len[c]) \/ WriteFails(c, len[c]) => pc[c] = "io"
  BY DEF WroteAll, WriteFails
<1> QED BY <1>1, <1>2, <1>3, <1>4, <1>5, <1>6, <1>7 DEF CallsObject

-----------------------------------------------------------------------------
(* What the four have in common, last the watchers, the methods and the user.*)
GiveCauseToAll == cause' = [c \in Callers |-> cause[c] \/ pc[c] # "idle"]

CausesGiven == cause' = cause \/ (\E d : GiveCause(d)) \/ GiveCauseToAll

WatcherMoves(c) ==
  /\ \/ watch' = [watch EXCEPT ![c] = "off"]
     \/ /\ watch[c] \in {"fired", "signaling"}
        /\ \E w \in {"signaling", "aborting"} : watch' = [watch EXCEPT ![c] = w]
  /\ CausesGiven
  /\ \/ canceled' = canceled
     \/ watch[c] = "fired" /\ canceled' = [canceled EXCEPT ![Dir(c)] = TRUE]
  /\ rwOpen' = rwOpen \/ rwOpen' = FALSE
  /\ UNCHANGED <<job, pc, ctx, len, out, part, moved, avail, space, peer>>

MethodMoves(x, ops) ==
  /\ job[x] # <<>>
  /\ \/ Advance(x)
     \/ \E rest \in Seq([op : ops, dir : Directions]) :
          /\ job' = [job EXCEPT ![x] = rest \o Tail(@)]
          /\ \A d \in Directions : Resets(rest, d) => At(x, "reset", d)
  /\ CausesGiven
  /\ \/ canceled' = canceled
     \/ \E d \in Directions : canceled' = [canceled EXCEPT ![d] = TRUE] /\ GiveCause(d)
     \/ \E d \in Directions : /\ canceled' = [canceled EXCEPT ![d] = FALSE]
                             /\ At(x, "reset", d)
  /\ rwOpen' = rwOpen \/ rwOpen' = FALSE
  /\ UNCHANGED <<pc, ctx, watch, len, out, part, moved, avail, space, peer>>

(* The first step of a cancel and of a reset.                                *)
LEMMA CancelIsMethod ==
  ASSUME NEW ops, NEW x, NEW d \in Directions,
         NEW rest \in Seq([op : ops, dir : Directions]),
         \A e \in Directions : ~ Resets(rest, e), CancelStore(x, d, rest)
  PROVE  MethodMoves(x, ops)
<1>1. /\ job[x] # <<>> /\ GiveCause(d) /\ canceled' = [canceled EXCEPT ![d] = TRUE]
      /\ job' = [job EXCEPT ![x] = rest \o Tail(@)]
      /\ UNCHANGED <<pc, ctx, watch, len, out, part, moved, avail, space, peer, rwOpen>>
  BY DEF CancelStore, At, streamVars
<1> QED BY <1>1 DEF MethodMoves, CausesGiven

LEMMA ResetIsMethod ==
  ASSUME NEW ops, NEW x, NEW d \in Directions,
         NEW rest \in Seq([op : ops, dir : Directions]),
         \A e \in Directions : Resets(rest, e) => e = d, ResetStore(x, d, rest)
  PROVE  MethodMoves(x, ops)
<1>1. /\ job[x] # <<>> /\ At(x, "reset", d) /\ canceled' = [canceled EXCEPT ![d] = FALSE]
      /\ job' = [job EXCEPT ![x] = rest \o Tail(@)] /\ cause' = cause
      /\ UNCHANGED <<pc, ctx, watch, len, out, part, moved, avail, space, peer, rwOpen>>
  BY DEF ResetStore, At, streamVars, opVars
<1> QED BY <1>1 DEF MethodMoves, CausesGiven

(* What is left of a method by then.                                         *)
LEMMA RestResets ==
  /\ \A d : ~ Resets(<<>>, d)
  /\ \A o, d, e : Resets(<<Step(o, d)>>, e) => e = d /\ o \in {"reset", "zero"}
  /\ \A d, e : ~ Resets(<<Step("signal", d), Step("abort", d)>>, e)
BY DEF Resets, Step

Calls(c) ==
  /\ \E k \in {"none", "live"}, l \in Lengths(c), b \in BOOLEAN :
       Begin(c, k, l, b) /\ (k = "none" /\ canceled[Dir(c)] => b)
  /\ UNCHANGED canceled

OthersMove(ops) ==
  /\ \/ \E c \in Callers : Expire(c)
     \/ \E x \in Cancelers, s \in Seq([op : ops, dir : Directions]) : StartMethod(x, s)
     \/ Peer /\ UNCHANGED <<opVars, job>>
  /\ UNCHANGED canceled

LEMMA CausesTyped == Typed /\ CausesGiven => cause' \in [Callers -> BOOLEAN]
BY DEF Typed, OperationTypeOK, CausesGiven, GiveCause, GiveCauseToAll

LEMMA TypedWatcher ==
  ASSUME Typed, NEW c \in Callers, WatcherMoves(c)
  PROVE  Typed'
<1> PICK w \in {"off", "signaling", "aborting"} : watch' = [watch EXCEPT ![c] = w]
  BY DEF WatcherMoves
<1>1. canceled' \in [Directions -> BOOLEAN]
  BY CallersHaveDirections DEF WatcherMoves, Typed
<1>2. rwOpen' \in BOOLEAN
  BY DEF WatcherMoves, Typed, StreamTypeOK
<1> QED BY <1>1, <1>2, CausesTyped, TypedWatch DEF WatcherMoves

LEMMA TypedMethod ==
  ASSUME Typed, NEW ops, Jobs(ops), NEW x \in Cancelers, MethodMoves(x, ops)
  PROVE  Typed' /\ Jobs(ops)'
<1>1. canceled' \in [Directions -> BOOLEAN]
  BY DEF MethodMoves, Typed
<1>2. rwOpen' \in BOOLEAN
  BY DEF MethodMoves, Typed, StreamTypeOK
<1>3. Typed'
  BY <1>1, <1>2, CausesTyped, TypedManage DEF MethodMoves
<1>4. Jobs(ops)'
  <2>1. <<>> \in Seq([op : ops, dir : Directions])
    OBVIOUS
  <2> QED BY <2>1, JobsGoOn DEF MethodMoves
<1> QED BY <1>3, <1>4

LEMMA TypedUser ==
  ASSUME Typed, NEW ops, Jobs(ops),
         (\E c \in Callers : Calls(c)) \/ OthersMove(ops)
  PROVE  Typed' /\ Jobs(ops)'
<1>1. ASSUME NEW c \in Callers, Calls(c) PROVE Typed' /\ Jobs(ops)'
  BY <1>1, TypedBegin DEF Calls, Jobs, Begin
<1>2. ASSUME OthersMove(ops) PROVE Typed'
  BY <1>2, TypedEnvironment DEF OthersMove
<1>3. ASSUME OthersMove(ops) PROVE Jobs(ops)'
  BY <1>3, JobsStart DEF OthersMove, Expire, Jobs
<1> QED BY <1>1, <1>2, <1>3

LEMMA AccountCall ==
  ASSUME Typed, NEW c \in Callers, Calls(c)
  PROVE  OnlyOf(c) /\ Account(c)'
<1>1. PICK l \in Lengths(c) : /\ pc' = [pc EXCEPT ![c] = "check"]
                              /\ len' = [len EXCEPT ![c] = l]
                              /\ moved' = [moved EXCEPT ![c] = 0]
                              /\ part' = [part EXCEPT ![c] = 0]
                              /\ out' = [out EXCEPT ![c] = NoResult]
  BY DEF Calls, Begin
<1>2. l \in Nat
  BY OperationAssumption DEF Lengths, OperationAssumption
<1> QED BY <1>1, <1>2 DEF Typed, OperationTypeOK, OnlyOf, Account, Early, Fresh

LEMMA OthersCountNothing ==
  ASSUME NEW ops, \/ \E c \in Callers : WatcherMoves(c)
                  \/ \E x \in Cancelers : MethodMoves(x, ops)
                  \/ OthersMove(ops)
  PROVE  UNCHANGED <<pc, len, out, part, moved>>
BY DEF WatcherMoves, MethodMoves, OthersMove, Expire, StartMethod, opVars

-----------------------------------------------------------------------------
(* DeadlineIO.                                                               *)
DeadlineSteps == {"cancel", "past", "reset", "zero", "object"}

DeadlineInv ==
  /\ Typed /\ Jobs(DeadlineSteps)
  /\ deadline \in [Directions -> {"none", "past"}]
  /\ \A c \in Callers : Account(c)

LEMMA DeadlineOperates ==
  ASSUME NEW c, D!Operate(c)
  PROVE  /\ FlagTests(c) \/ CallsObject(c)
         /\ deadline' = deadline \/ deadline' = [deadline EXCEPT ![Dir(c)] = "none"]
<1> USE DEF D!streamVars, streamVars, D!deadlineVars, D!Dir, Dir, D!Settled, Settled
<1>1. CASE (D!Check(c) \/ D!ContextStore(c)) /\ UNCHANGED deadline
  BY <1>1 DEF Tests, FlagTests, D!Check, Check, D!Proceed, Proceed,
       D!ContextStore, ContextStore
<1>2. CASE D!ContextDeadline(c)
  BY <1>2 DEF Tests, FlagTests, D!ContextDeadline, D!ContextUndo, ContextUndo,
       D!Proceed, Proceed
<1>3. CASE D!ClearDeadline(c)
  BY <1>3 DEF CallsObject, Goes, D!ClearDeadline
<1>4. CASE D!Read(c)
  BY <1>4 DEF CallsObject, Ends, D!Read, D!RwRead, D!RwReadData, RwReadData,
       D!Least, Least, D!ReadFails, ReadFails
<1>5. CASE D!WriteSome(c)
  BY <1>5 DEF CallsObject, D!WriteSome, D!RwWriteSome, RwWriteSome, D!Least,
       Least
<1>6. CASE D!WriteReturn(c)
  BY <1>6 DEF CallsObject, Ends, D!WriteReturn, D!WroteAll, WroteAll,
       D!WriteFails, WriteFails
<1>7. CASE D!TimeOut(c)
  BY <1>7 DEF CallsObject, Goes, D!TimeOut
<1>8. CASE D!Late(c)
  BY <1>8 DEF CallsObject, Ends, D!Late
<1>9. CASE D!Return(c) /\ UNCHANGED D!deadlineVars
  BY <1>9 DEF Tests, FlagTests, D!Return, Return
<1> QED BY <1>1, <1>2, <1>3, <1>4, <1>5, <1>6, <1>7, <1>8, <1>9 DEF D!Operate

LEMMA DeadlineWatches ==
  ASSUME NEW c, D!Watch(c)
  PROVE  /\ WatcherMoves(c)
         /\ deadline' = deadline \/ deadline' = [deadline EXCEPT ![Dir(c)] = "past"]
BY DEF D!Watch, D!WatchStore, D!WatchDeadline, D!WatchGoesOn, D!WatchStop,
       D!deadlineVars, D!streamVars, D!Dir, Dir, WatcherMoves, CausesGiven

LEMMA DeadlineManages ==
  ASSUME NEW x, D!Manage(x)
  PROVE  /\ MethodMoves(x, DeadlineSteps)
         /\ \/ deadline' = deadline
            \/ \E d \in Directions, v \in {"none", "past"} :
                 deadline' = [deadline EXCEPT ![d] = v]
<1>2. ASSUME NEW d \in Directions, D!CancelFlag(x, d)
      PROVE  MethodMoves(x, DeadlineSteps) /\ deadline' = deadline
  <2>1. CancelStore(x, d, <<Step("past", d)>>) /\ deadline' = deadline
    BY <1>2 DEF D!CancelFlag, D!CancelStore, CancelStore, D!At, At, D!Step,
         Step, D!streamVars, streamVars, D!opVars, opVars, D!GiveCause,
         GiveCause, D!InProgress, InProgress, D!Callers, Callers, D!Dir, Dir
  <2>2. <<Step("past", d)>> \in Seq([op : DeadlineSteps, dir : Directions])
    BY DEF DeadlineSteps, Step
  <2>3. \A e \in Directions : ~ Resets(<<Step("past", d)>>, e)
    BY RestResets
  <2> QED BY <2>1, <2>2, <2>3, CancelIsMethod
<1>3. ASSUME NEW d \in Directions, D!ResetFlag(x, d)
      PROVE  MethodMoves(x, DeadlineSteps) /\ deadline' = deadline
  <2>1. ResetStore(x, d, <<Step("zero", d)>>) /\ deadline' = deadline
    BY <1>3 DEF D!ResetFlag, D!ResetStore, ResetStore, D!At, At, D!Step, Step,
         D!streamVars, streamVars, D!opVars, opVars, D!GiveCause, GiveCause,
         D!InProgress, InProgress, D!Callers, Callers, D!Dir, Dir
  <2>2. <<Step("zero", d)>> \in Seq([op : DeadlineSteps, dir : Directions])
    BY DEF DeadlineSteps, Step
  <2>3. \A e \in Directions : Resets(<<Step("zero", d)>>, e) => e = d
    BY RestResets
  <2> QED BY <2>1, <2>2, <2>3, ResetIsMethod
<1> USE DEF D!streamVars, D!opVars, D!deadlineVars, D!At, D!Directions, Directions,
            MethodMoves, CausesGiven, D!GiveCause, GiveCause, D!Advance, Advance,
            D!InProgress, InProgress, D!Callers, Callers, D!Dir, Dir
<1>4. ASSUME NEW d \in Directions, D!CancelDeadline(x, d) \/ D!ResetDeadline(x, d)
      PROVE  /\ MethodMoves(x, DeadlineSteps)
             /\ \E v \in {"none", "past"} : deadline' = [deadline EXCEPT ![d] = v]
  BY <1>4 DEF D!CancelDeadline, D!ResetDeadline
<1>5. CASE D!CloseObject(x)
  BY <1>5 DEF D!CloseObject, D!CloseStream
<1> QED BY <1>2, <1>3, <1>4, <1>5 DEF D!Manage

LEMMA DeadlineMethods ==
  \A s \in D!Methods \cup {D!Close} : s \in Seq([op : DeadlineSteps, dir : Directions])
<1> DEFINE S == [op : DeadlineSteps, dir : Directions]
<1>1. /\ \A s \in Methods : s \in Seq(S)
      /\ <<Step("object", "read")>> \in Seq(S)
  BY MethodsAreSteps DEF DeadlineSteps, Directions
<1>2. D!Methods = Methods /\ D!Close = Cancel \o <<Step("object", "read")>>
  BY DEF D!Methods, Methods, D!Close, D!CancelReads, CancelReads,
       D!CancelWrites, CancelWrites, D!Cancel, Cancel, D!ResetReader,
       ResetReader, D!ResetWriter, ResetWriter, D!Reset, Reset, D!Step, Step
<1>3. D!Close \in Seq(S)
  BY <1>1, <1>2, ConcatProperties DEF Methods
<1> QED BY <1>1, <1>2, <1>3

LEMMA DeadlineUsed ==
  ASSUME D!Environment \/ D!UserClose
  PROVE  /\ (\E c \in Callers : Calls(c)) \/ OthersMove(DeadlineSteps)
         /\ deadline' = deadline
<1>1. ASSUME NEW c \in Callers, D!BeginOperation(c)
      PROVE  Calls(c) /\ deadline' = deadline
  <2> PICK k \in {"none", "live"}, l \in Lengths(c) :
         D!Begin(c, k, l, k = "none" /\ canceled[Dir(c)])
    BY <1>1 DEF D!BeginOperation, D!Lengths, Lengths, D!Dir, Dir
  <2>1. Begin(c, k, l, k = "none" /\ canceled[Dir(c)])
    BY DEF D!Begin, Begin, D!ResetPending, ResetPending, D!Resets, Resets,
         D!Dir, Dir, D!NoResult, NoResult, D!streamVars, streamVars
  <2>2. (k = "none" /\ canceled[Dir(c)]) \in BOOLEAN
    OBVIOUS
  <2> QED BY <1>1, <2>1, <2>2 DEF Calls, D!BeginOperation, D!deadlineVars
<1>2. ASSUME NEW c \in Callers, D!Expire(c) /\ UNCHANGED D!deadlineVars
      PROVE  OthersMove(DeadlineSteps) /\ deadline' = deadline
  BY <1>2 DEF D!Expire, Expire, D!streamVars, streamVars, D!deadlineVars,
       OthersMove
<1>3. ASSUME NEW x \in Cancelers, NEW s \in D!Methods \cup {D!Close},
             D!StartMethod(x, s) /\ UNCHANGED D!deadlineVars
      PROVE  OthersMove(DeadlineSteps) /\ deadline' = deadline
  <2>1. s \in Seq([op : DeadlineSteps, dir : Directions])
    BY DeadlineMethods
  <2>2. StartMethod(x, s)
    BY <1>3 DEF D!StartMethod, StartMethod, D!Directions, Directions, D!Resets,
         Resets, D!InProgress, InProgress, D!Callers, Callers, D!Dir, Dir,
         D!opVars, opVars, D!streamVars, streamVars
  <2> QED BY <1>3, <2>1, <2>2 DEF OthersMove, D!deadlineVars
<1>4. CASE D!Peer /\ UNCHANGED <<D!opVars, job, D!deadlineVars>>
  BY <1>4 DEF D!Peer, Peer, D!Arrive, Arrive, D!Leave, Leave, D!HangUp, HangUp,
     D!opVars, opVars, D!deadlineVars, OthersMove
<1>5. D!Callers = Callers
  BY DEF D!Callers, Callers
<1> QED BY <1>1, <1>2, <1>3, <1>4, <1>5 DEF D!Environment, D!UserClose

LEMMA DeadlineInit == D!Init => DeadlineInv
<1> SUFFICES ASSUME D!Init PROVE DeadlineInv
  OBVIOUS
<1>1. OperationInit /\ StreamInit /\ FlagInit
  BY DEF D!Init, D!OperationInit, OperationInit, D!StreamInit, StreamInit,
       D!FlagInit, FlagInit, D!Callers, Callers, D!Directions, Directions,
       D!NoResult, NoResult
<1>2. deadline \in [Directions -> {"none", "past"}]
  BY DEF D!Init, D!Directions, Directions
<1>3. \A c \in Callers : Account(c)
  BY <1>1 DEF OperationInit, Account, Early
<1> QED BY <1>1, <1>2, <1>3, TypedInit, JobsInit DEF DeadlineInv

LEMMA DeadlineStep == DeadlineInv /\ [D!Next]_(D!vars) => DeadlineInv'
<1> SUFFICES ASSUME DeadlineInv, [D!Next]_(D!vars) PROVE DeadlineInv'
  OBVIOUS
<1> USE DEF DeadlineInv
<1>1. ASSUME NEW c \in Callers, D!Operate(c) PROVE DeadlineInv'
  <2>1. Typed' /\ job' = job
    BY <1>1, DeadlineOperates, TypedTests, TypedCalls DEF Tests
  <2>2. \A a \in Callers : Account(a)'
    BY <1>1, DeadlineOperates, AccountTests, AccountCalls, AccountOfOne DEF
         Tests
  <2>3. deadline' \in [Directions -> {"none", "past"}]
    BY <1>1, DeadlineOperates, CallersHaveDirections
  <2> QED BY <2>1, <2>2, <2>3 DEF Jobs
<1>2. ASSUME NEW c \in Callers, D!Watch(c) PROVE DeadlineInv'
  <2>1. Typed' /\ job' = job
    BY <1>2, DeadlineWatches, TypedWatcher DEF WatcherMoves
  <2>2. \A a \in Callers : Account(a)'
    BY <1>2, DeadlineWatches, OthersCountNothing, AccountStays
  <2>3. deadline' \in [Directions -> {"none", "past"}]
    BY <1>2, DeadlineWatches, CallersHaveDirections
  <2> QED BY <2>1, <2>2, <2>3 DEF Jobs
<1>3. ASSUME NEW x \in Cancelers, D!Manage(x) PROVE DeadlineInv'
  <2>1. Typed' /\ Jobs(DeadlineSteps)'
    BY <1>3, DeadlineManages, TypedMethod
  <2>2. \A a \in Callers : Account(a)'
    BY <1>3, DeadlineManages, OthersCountNothing, AccountStays
  <2>3. deadline' \in [Directions -> {"none", "past"}]
    BY <1>3, DeadlineManages
  <2> QED BY <2>1, <2>2, <2>3
<1>4. CASE D!Environment \/ D!UserClose
  <2>1. Typed' /\ Jobs(DeadlineSteps)' /\ deadline' = deadline
    BY <1>4, DeadlineUsed, TypedUser
  <2>2. \A a \in Callers : Account(a)'
    BY <1>4, DeadlineUsed, AccountCall, AccountOfOne, OthersCountNothing,
         AccountStays
  <2> QED BY <2>1, <2>2
<1>5. CASE UNCHANGED D!vars
  BY <1>5, TypedStays, AccountStays DEF D!vars, D!opVars, opVars, D!streamVars,
     streamVars, D!deadlineVars, Jobs
<1>6. D!Callers = Callers
  BY DEF D!Callers, Callers
<1> QED BY <1>1, <1>2, <1>3, <1>4, <1>5, <1>6 DEF D!Next, D!System

-----------------------------------------------------------------------------
(* CloseIO: the object is closed once.                                       *)
(* ClosedOnce is not inductive: it is the flag under the mutex that tells    *)
(* whether the object was closed.                                            *)
OnceInv ==
  /\ closed \in BOOLEAN
  /\ rwOpen = ~ closed
  /\ closes = (IF closed THEN 1 ELSE 0)

LEMMA CloseOnceKeeps ==
  ASSUME OnceInv, C!CloseOnce
  PROVE  OnceInv'
<1>1. CASE closed
  BY <1>1, Zenon DEF OnceInv, C!CloseOnce, C!streamVars
<1>2. CASE ~ closed
  <2>1. closed' = TRUE /\ rwOpen' = FALSE
    BY <1>2, Zenon DEF C!CloseOnce, C!CloseStream
  <2>2. closes' = 1
    <3>1. closes = 0
      BY <1>2, Zenon DEF OnceInv
    <3>2. closes' = closes + 1
      BY <1>2, Zenon DEF C!CloseOnce
    <3> QED BY <3>1, <3>2
  <2> QED BY <2>1, <2>2, Zenon DEF OnceInv
<1> QED BY <1>1, <1>2

LEMMA GuardStays ==
  ASSUME OnceInv, closed' = closed, closes' = closes, rwOpen' = rwOpen
  PROVE  OnceInv'
BY DEF OnceInv

LEMMA OnceInit == C!Init => OnceInv
BY DEF C!Init, C!StreamInit, OnceInv

LEMMA OnceStep == OnceInv /\ [C!Next]_(C!vars) => OnceInv'
<1> SUFFICES ASSUME OnceInv, [C!Next]_(C!vars) PROVE OnceInv'
  OBVIOUS
<1> DEFINE Kept == UNCHANGED <<closed, closes, rwOpen>>
<1>1. Kept => OnceInv'
  BY GuardStays
<1>2. ASSUME NEW c \in C!Callers, C!Operate(c) PROVE OnceInv'
  <2>1. Kept
    BY <1>2 DEF C!Operate, C!CheckFlag, C!Enter, C!Read, C!RwReadData,
         C!WriteSome, C!RwWriteSome, C!WriteReturn, C!Fail, C!Late, C!Return,
         C!closeVars, C!guardVars, C!streamVars
  <2> QED BY <2>1, <1>1
<1>3. ASSUME NEW c \in C!Callers, C!Watch(c) PROVE OnceInv'
  <2>1. CASE C!WatchClose(c)
    BY <2>1, CloseOnceKeeps DEF C!WatchClose
  <2>2. CASE ~ C!WatchClose(c)
    <3>1. Kept
      BY <1>3, <2>2 DEF C!Watch, C!WatchStore, C!WatchStop, C!closeVars,
           C!guardVars, C!streamVars
    <3> QED BY <3>1, <1>1
  <2> QED BY <2>1, <2>2
<1>4. ASSUME NEW x \in Cancelers, C!Manage(x) PROVE OnceInv'
  <2> PICK d \in C!Directions :
         C!CancelFlag(x, d) \/ C!CancelClose(x, d) \/ C!ResetFlag(x, d)
    BY <1>4 DEF C!Manage
  <2>1. CASE C!CancelClose(x, d)
    BY <2>1, CloseOnceKeeps DEF C!CancelClose
  <2>2. CASE C!CancelFlag(x, d) \/ C!ResetFlag(x, d)
    <3>1. Kept
      BY <2>2 DEF C!CancelFlag, C!CancelStore, C!ResetFlag, C!ResetStore,
           C!guardVars, C!streamVars
    <3> QED BY <3>1, <1>1
  <2> QED BY <2>1, <2>2
<1>5. CASE C!Use
  <2>1. Kept
    BY <1>5 DEF C!Use, C!BeginOperation, C!Begin, C!Expire, C!Peer, C!Arrive,
         C!Leave, C!HangUp, C!closeVars, C!guardVars, C!streamVars
  <2> QED BY <2>1, <1>1
<1>6. CASE C!UserMethod(C!Methods \cup {C!Close})
  <2>1. Kept
    BY <1>6 DEF C!UserMethod, C!StartMethod, C!closeVars, C!guardVars,
         C!streamVars
  <2> QED BY <2>1, <1>1
<1>7. CASE UNCHANGED C!vars
  <2>1. Kept
    BY <1>7 DEF C!vars, C!closeVars, C!guardVars, C!streamVars
  <2> QED BY <2>1, <1>1
<1> QED BY <1>2, <1>3, <1>4, <1>5, <1>6, <1>7 DEF C!Next, C!System

(* The types and the count.                                                  *)
CloseSteps == {"cancel", "close", "reset"}

CloseInv ==
  /\ Typed /\ Jobs(CloseSteps) /\ OnceInv
  /\ halves \in C!Wrapped
  /\ failed \in [Callers -> {"eof", "error"}]
  /\ \A c \in Callers : Account(c)

LEMMA CloseOperates ==
  ASSUME NEW c \in Callers, C!Operate(c), CloseInv
  PROVE  /\ Tests(c) \/ CallsObject(c)
         /\ failed' \in [Callers -> {"eof", "error"}]
         /\ halves' = halves
<1> USE DEF C!streamVars, streamVars, C!closeVars, C!guardVars, C!Dir, Dir, C!Settled,
            Settled, CloseInv
<1>1. CASE C!CheckFlag(c)
  BY <1>1 DEF Tests, FlagTests, Ends, C!CheckFlag, C!Proceed, Proceed
<1>2. CASE C!Enter(c)
  BY <1>2 DEF CallsObject, Goes, Ends, C!Enter
<1>3. CASE C!Read(c)
  BY <1>3 DEF CallsObject, Ends, C!Read, C!RwReadData, RwReadData, C!Least,
       Least
<1>4. CASE C!WriteSome(c)
  BY <1>4 DEF CallsObject, C!WriteSome, C!RwWriteSome, RwWriteSome, C!Least,
       Least
<1>5. CASE C!WriteReturn(c)
  BY <1>5 DEF CallsObject, Ends, C!WriteReturn, C!WroteAll, WroteAll
<1>6. CASE C!Fail(c)
  <2>1. pc[c] = "io" /\ Goes(c, "late") /\ halves' = halves
    BY <1>6 DEF C!Fail, C!ReadFails, C!WriteFails, Goes
  <2>2. \E e \in {"eof", "error"} : failed' = [failed EXCEPT ![c] = e]
    BY <1>6 DEF C!Fail
  <2> QED BY <2>1, <2>2 DEF CallsObject
<1>7. CASE C!Late(c)
  <2>1. failed[c] \in {"eof", "error"}
    OBVIOUS
  <2> QED BY <1>7, <2>1 DEF CallsObject, Ends, C!Late
<1>8. CASE C!Return(c) /\ UNCHANGED C!closeVars
  BY <1>8 DEF Tests, FlagTests, C!Return, Return
<1> QED BY <1>1, <1>2, <1>3, <1>4, <1>5, <1>6, <1>7, <1>8 DEF C!Operate

LEMMA CloseWatches ==
  ASSUME NEW c, C!Watch(c)
  PROVE  WatcherMoves(c) /\ UNCHANGED <<failed, halves>>
BY DEF C!Watch, C!WatchStore, C!WatchClose, C!CloseOnce, C!CloseStream,
       C!WatchGoesOn, C!WatchStop, C!closeVars, C!streamVars, C!Dir, Dir,
       WatcherMoves, CausesGiven

LEMMA CloseManages ==
  ASSUME NEW x, C!Manage(x)
  PROVE  MethodMoves(x, CloseSteps) /\ UNCHANGED <<failed, halves>>
<1>2. ASSUME NEW d \in Directions, C!CancelFlag(x, d)
      PROVE  MethodMoves(x, CloseSteps) /\ UNCHANGED <<failed, halves>>
  <2>1. CancelStore(x, d, <<Step("close", d)>>) /\ UNCHANGED <<failed, halves>>
    BY <1>2 DEF C!CancelFlag, C!CancelStore, CancelStore, C!At, At, C!Step,
         Step, C!streamVars, streamVars, C!opVars, opVars, C!GiveCause,
         GiveCause, C!InProgress, InProgress, C!Callers, Callers, C!Dir, Dir
  <2>2. <<Step("close", d)>> \in Seq([op : CloseSteps, dir : Directions])
    BY DEF CloseSteps, Step
  <2>3. \A e \in Directions : ~ Resets(<<Step("close", d)>>, e)
    BY RestResets
  <2> QED BY <2>1, <2>2, <2>3, CancelIsMethod
<1>3. ASSUME NEW d \in Directions, C!ResetFlag(x, d)
      PROVE  MethodMoves(x, CloseSteps) /\ UNCHANGED <<failed, halves>>
  <2>1. ResetStore(x, d, <<>>) /\ UNCHANGED <<failed, halves>>
    BY <1>3 DEF C!ResetFlag, C!ResetStore, ResetStore, C!At, At, C!Step, Step,
         C!streamVars, streamVars, C!opVars, opVars, C!GiveCause, GiveCause,
         C!InProgress, InProgress, C!Callers, Callers, C!Dir, Dir
  <2>2. <<>> \in Seq([op : CloseSteps, dir : Directions])
    OBVIOUS
  <2>3. \A e \in Directions : Resets(<<>>, e) => e = d
    BY RestResets
  <2> QED BY <2>1, <2>2, <2>3, ResetIsMethod
<1> USE DEF C!streamVars, C!opVars, C!At, C!Directions, Directions, MethodMoves,
            CausesGiven, C!GiveCause, GiveCause, C!Advance, Advance, C!InProgress,
            InProgress, C!Callers, Callers, C!Dir, Dir
<1>4. ASSUME NEW d \in Directions, C!CancelClose(x, d)
      PROVE  MethodMoves(x, CloseSteps) /\ UNCHANGED <<failed, halves>>
  BY <1>4 DEF C!CancelClose, C!CloseOnce, C!CloseStream
<1> QED BY <1>2, <1>3, <1>4 DEF C!Manage

LEMMA CloseMethods ==
  \A s \in C!Methods \cup {C!Close} : s \in Seq([op : CloseSteps, dir : Directions])
<1> DEFINE S == [op : CloseSteps, dir : Directions]
<1>1. /\ \A s \in Methods : s \in Seq(S)
      /\ <<Step("close", "read")>> \in Seq(S)
  BY MethodsAreSteps DEF CloseSteps, Directions
<1>2. C!Methods = Methods /\ C!Close = Cancel \o <<Step("close", "read")>>
  BY DEF C!Methods, Methods, C!Close, C!CancelReads, CancelReads,
       C!CancelWrites, CancelWrites, C!Cancel, Cancel, C!ResetReader,
       ResetReader, C!ResetWriter, ResetWriter, C!Reset, Reset, C!Step, Step
<1>3. C!Close \in Seq(S)
  BY <1>1, <1>2, ConcatProperties DEF Methods
<1> QED BY <1>1, <1>2, <1>3

LEMMA CloseUsed ==
  ASSUME Typed, C!Use \/ C!UserMethod(C!Methods \cup {C!Close})
  PROVE  /\ (\E c \in Callers : Calls(c) /\ C!BeginOperation(c)) \/ OthersMove(CloseSteps)
         /\ UNCHANGED <<failed, halves>>
<1>1. ASSUME NEW c \in Callers, C!BeginOperation(c)
      PROVE  Calls(c) /\ UNCHANGED <<failed, halves>>
  <2> PICK k \in {"none", "live"}, l \in Lengths(c) : C!Begin(c, k, l, canceled[Dir(c)])
    BY <1>1 DEF C!BeginOperation, C!Lengths, Lengths, C!Dir, Dir
  <2>1. Begin(c, k, l, canceled[Dir(c)])
    BY DEF C!Begin, Begin, C!ResetPending, ResetPending, C!Resets, Resets,
         C!Dir, Dir, C!NoResult, NoResult, C!streamVars, streamVars
  <2>2. canceled[Dir(c)] \in BOOLEAN
    BY CallersHaveDirections DEF Typed
  <2> QED BY <1>1, <2>1, <2>2 DEF Calls, C!BeginOperation, C!closeVars
<1>2. ASSUME NEW c \in Callers, C!Expire(c) /\ UNCHANGED C!closeVars
      PROVE  OthersMove(CloseSteps) /\ UNCHANGED <<failed, halves>>
  BY <1>2 DEF C!Expire, Expire, C!streamVars, streamVars, C!closeVars,
       OthersMove
<1>3. ASSUME NEW x \in Cancelers, NEW s \in C!Methods \cup {C!Close},
             C!StartMethod(x, s) /\ UNCHANGED C!closeVars
      PROVE  OthersMove(CloseSteps) /\ UNCHANGED <<failed, halves>>
  <2>1. s \in Seq([op : CloseSteps, dir : Directions])
    BY CloseMethods
  <2>2. StartMethod(x, s)
    BY <1>3 DEF C!StartMethod, StartMethod, C!Directions, Directions, C!Resets,
         Resets, C!InProgress, InProgress, C!Callers, Callers, C!Dir, Dir,
         C!opVars, opVars, C!streamVars, streamVars
  <2> QED BY <1>3, <2>1, <2>2 DEF OthersMove, C!closeVars
<1>4. CASE C!Peer /\ UNCHANGED <<C!opVars, job, C!closeVars>>
  BY <1>4 DEF C!Peer, Peer, C!Arrive, Arrive, C!Leave, Leave, C!HangUp, HangUp,
     C!opVars, opVars, C!closeVars, OthersMove
<1>5. C!Callers = Callers
  BY DEF C!Callers, Callers
<1> QED BY <1>1, <1>2, <1>3, <1>4, <1>5 DEF C!Use, C!UserMethod

LEMMA CloseInit == C!Init => CloseInv
<1> SUFFICES ASSUME C!Init PROVE CloseInv
  OBVIOUS
<1>1. OperationInit /\ StreamInit /\ FlagInit
  BY DEF C!Init, C!OperationInit, OperationInit, C!StreamInit, StreamInit,
       C!FlagInit, FlagInit, C!Callers, Callers, C!Directions, Directions,
       C!NoResult, NoResult
<1>2. halves \in C!Wrapped /\ failed \in [Callers -> {"eof", "error"}]
  BY DEF C!Init, C!Callers, Callers
<1>3. \A c \in Callers : Account(c)
  BY <1>1 DEF OperationInit, Account, Early
<1> QED BY <1>1, <1>2, <1>3, TypedInit, JobsInit, OnceInit DEF CloseInv

LEMMA CloseStep == CloseInv /\ [C!Next]_(C!vars) => CloseInv'
<1> SUFFICES ASSUME CloseInv, [C!Next]_(C!vars) PROVE CloseInv'
  OBVIOUS
<1> USE DEF CloseInv
<1>1. OnceInv'
  BY OnceStep
<1>2. ASSUME NEW c \in Callers, C!Operate(c) PROVE CloseInv'
  <2>1. Typed' /\ job' = job
    BY <1>2, CloseOperates, TypedTests, TypedCalls
  <2>2. \A a \in Callers : Account(a)'
    BY <1>2, CloseOperates, AccountTests, AccountCalls, AccountOfOne
  <2> QED BY <1>1, <1>2, <2>1, <2>2, CloseOperates DEF Jobs
<1>3. ASSUME NEW c \in Callers, C!Watch(c) PROVE CloseInv'
  <2>1. Typed' /\ job' = job
    BY <1>3, CloseWatches, TypedWatcher DEF WatcherMoves
  <2>2. \A a \in Callers : Account(a)'
    BY <1>3, CloseWatches, OthersCountNothing, AccountStays
  <2> QED BY <1>1, <1>3, <2>1, <2>2, CloseWatches DEF Jobs
<1>4. ASSUME NEW x \in Cancelers, C!Manage(x) PROVE CloseInv'
  <2>1. Typed' /\ Jobs(CloseSteps)'
    BY <1>4, CloseManages, TypedMethod
  <2>2. \A a \in Callers : Account(a)'
    BY <1>4, CloseManages, OthersCountNothing, AccountStays
  <2> QED BY <1>1, <1>4, <2>1, <2>2, CloseManages
<1>5. CASE C!Use \/ C!UserMethod(C!Methods \cup {C!Close})
  <2>1. Typed' /\ Jobs(CloseSteps)' /\ UNCHANGED <<failed, halves>>
    BY <1>5, CloseUsed, TypedUser
  <2>2. \A a \in Callers : Account(a)'
    BY <1>5, CloseUsed, AccountCall, AccountOfOne, OthersCountNothing,
         AccountStays
  <2> QED BY <1>1, <2>1, <2>2
<1>6. CASE UNCHANGED C!vars
  BY <1>1, <1>6, TypedStays, AccountStays DEF C!vars, C!opVars, opVars,
       C!streamVars, streamVars, C!closeVars, Jobs
<1>7. C!Callers = Callers
  BY DEF C!Callers, Callers
<1> QED BY <1>2, <1>3, <1>4, <1>5, <1>6, <1>7 DEF C!Next, C!System

-----------------------------------------------------------------------------
(* What the two backends with requests have in common.                       *)
LEMMA RequestsInit == RequestInit => RequestTypeOK
BY OperationAssumption DEF OperationAssumption, RequestInit, RequestTypeOK,
     NoRequest

LEMMA RequestsChange ==
  ASSUME RequestTypeOK, NEW c \in Callers,
         \/ Issued(c) \/ Taken(c) \/ req' = req
         \/ \E S : Aborted(S)
         \/ \E e \in {"nil", "error", "aborted"}, k \in 0..MaxLen :
              req' = [req EXCEPT ![c] = Done(e, k)]
  PROVE  RequestTypeOK'
<1>1. 0 \in 0..MaxLen
  BY OperationAssumption DEF OperationAssumption
<1>2. CASE Issued(c)
  BY <1>1, <1>2 DEF Issued, RequestTypeOK, NoRequest, Done
<1>3. CASE Taken(c)
  BY <1>1, <1>3 DEF Taken, RequestTypeOK, NoRequest
<1>4. ASSUME NEW S, Aborted(S) PROVE RequestTypeOK'
  BY <1>1, <1>4 DEF Aborted, RequestTypeOK, Done
<1>5. ASSUME NEW e \in {"nil", "error", "aborted"}, NEW k \in 0..MaxLen,
             req' = [req EXCEPT ![c] = Done(e, k)]
      PROVE  RequestTypeOK'
  BY <1>5 DEF RequestTypeOK, Done
<1> QED BY <1>2, <1>3, <1>4, <1>5 DEF RequestTypeOK

(* The kernel moves no more than was asked for.                              *)
LEMMA TypedKernel ==
  ASSUME Typed, RequestTypeOK, NEW c \in Callers, part[c] <= len[c], Kernel(c),
         canceled' = canceled
  PROVE  /\ Typed' /\ RequestTypeOK' /\ job' = job
         /\ OnlyOf(c) /\ pc' = pc /\ len' = len /\ out' = out /\ part'[c] <= len[c]
         /\ \A a \in Callers \ {c} : req'[a] = req[a]
<1> USE StreamAssumption, OperationAssumption
        DEF StreamAssumption, OperationAssumption, Typed, OperationTypeOK,
             StreamTypeOK
<1>1. CASE Fill(c)
  <2> PICK k \in 1..Least(len[c], avail) : /\ avail' = avail - k
                                           /\ moved' = [moved EXCEPT ![c] = k]
                                           /\ req' = [req EXCEPT ![c] = Done("nil", k)]
    BY <1>1 DEF Fill
  <2>1. k \in 0..MaxLen /\ avail - k \in 0..BufSize
    BY DEF Least
  <2>2. Typed'
    BY <1>1, <2>1 DEF Fill
  <2>3. RequestTypeOK'
    BY <2>1, RequestsChange
  <2> QED BY <1>1, <2>2, <2>3 DEF Fill, OnlyOf, RequestTypeOK
<1>2. CASE Flush(c)
  <2> PICK k \in 0..Least(len[c] - part[c], space) :
             /\ space' = space - k
             /\ part'  = [part EXCEPT ![c] = @ + k]
             /\ moved' = [moved EXCEPT ![c] = @ + k]
             /\ req' = IF part[c] + k = len[c]
                       THEN [req EXCEPT ![c] = Done("nil", len[c])] ELSE req
    BY <1>2 DEF Flush
  <2>1. /\ k \in Nat /\ space - k \in 0..BufSize /\ len[c] \in 0..MaxLen
        /\ part[c] + k <= len[c] /\ part[c] + k \in Nat /\ moved[c] + k \in Nat
    BY DEF Least
  <2>2. Typed'
    BY <1>2, <2>1 DEF Flush
  <2>3. RequestTypeOK'
    BY <2>1, RequestsChange
  <2> QED BY <1>2, <2>1, <2>2, <2>3 DEF Flush, OnlyOf, RequestTypeOK
<1>3. CASE Break(c)
  <2>1. part[c] \in 0..MaxLen
    OBVIOUS
  <2>2. RequestTypeOK'
    BY <1>3, <2>1, RequestsChange DEF Break
  <2>3. Typed'
    BY <1>3, TypedStays DEF Break
  <2> QED BY <1>3, <2>2, <2>3 DEF Break, OnlyOf, RequestTypeOK, opVars
<1> QED BY <1>1, <1>2, <1>3 DEF Kernel

LEMMA ResultsTyped ==
  ASSUME Typed, RequestTypeOK, NEW c \in Callers, SettledAs(c, req[c])
  PROVE  pc' \in [Callers -> States] /\ out' \in [Callers -> Results]
<1>1. req[c].n \in Nat /\ 0 \in Nat
  BY OperationAssumption DEF OperationAssumption, RequestTypeOK
<1>2. req[c].err \in {"nil", "error", "aborted"}
  BY DEF RequestTypeOK
<1>3. CASE req[c].err = "aborted"
  BY <1>1, <1>3, SettledTyped DEF SettledAs
<1>4. CASE req[c].err # "aborted"
  BY <1>1, <1>2, <1>4, SettledTyped DEF SettledAs
<1> QED BY <1>3, <1>4

-----------------------------------------------------------------------------
(* WinOverlappedIO: a request of the kernel ends before the operation that   *)
(* issued it.                                                                *)

Waiting == {"wait", "woken"}

OwnInv ==
  /\ DOMAIN pc = O!Callers
  /\ DOMAIN event = O!Directions
  /\ DOMAIN req = O!Callers
  /\ O!RequestsOwned

-----------------------------------------------------------------------------
(* The steps that keep every request with its operation: a closed event      *)
(* stays closed ...                                                          *)
Latched ==
  /\ DOMAIN event' = O!Directions
  /\ \A d \in O!Directions : event[d] = "closed" => event'[d] = "closed"

(* ... no request is issued ...                                              *)
NothingIssued ==
  /\ DOMAIN req' = O!Callers
  /\ \A c \in O!Callers : O!Pending(c)' => O!Pending(c)

(* ... and an operation with a request that is pending goes on waiting.      *)
WaitersWait ==
  /\ DOMAIN pc' = O!Callers
  /\ \A c \in O!Callers :
       pc[c] \in Waiting /\ O!Pending(c)' => pc'[c] \in Waiting

LEMMA DirType == \A c \in O!Callers : O!Dir(c) \in O!Directions
BY DEF O!Dir, O!Directions

LEMMA OwnKept ==
  ASSUME OwnInv, Latched, NothingIssued, WaitersWait
  PROVE  OwnInv'
BY DirType DEF OwnInv, Latched, NothingIssued, WaitersWait, O!RequestsOwned,
     O!Pending, Waiting

LEMMA EventMoves ==
  ASSUME OwnInv, NEW d \in O!Directions,
         O!SetEvent(d) \/ O!ResetEvent(d) \/ UNCHANGED event
  PROVE  Latched
BY DEF OwnInv, O!SetEvent, O!ResetEvent, Latched

LEMMA RequestEnds ==
  ASSUME OwnInv, NEW c \in O!Callers,
         O!Aborted(O!Callers) \/ O!Taken(c) \/ UNCHANGED req
  PROVE  NothingIssued
BY DEF OwnInv, O!Aborted, O!Taken, O!NoRequest, O!Done, O!Pending, NothingIssued

LEMMA PcStays ==
  ASSUME OwnInv, UNCHANGED pc
  PROVE  WaitersWait
BY DEF OwnInv, WaitersWait

LEMMA PcMoves ==
  ASSUME OwnInv, NEW c \in O!Callers, NEW s, pc' = [pc EXCEPT ![c] = s],
         pc[c] \notin Waiting \/ s \in Waiting \/ ~ O!Pending(c)'
  PROVE  WaitersWait
BY DEF OwnInv, WaitersWait, O!Pending

-----------------------------------------------------------------------------
LEMMA OwnInit == O!Init => OwnInv
BY DEF O!Init, O!OperationInit, O!RequestInit, OwnInv, O!RequestsOwned,
     O!Pending, O!NoRequest

LEMMA OwnOperate ==
  ASSUME OwnInv, NEW c \in O!Callers, O!Operate(c)
  PROVE  OwnInv'
<1> USE DirType
<1>1. CASE (O!Check(c) \/ O!ContextStore(c)) /\ UNCHANGED <<req, O!eventVars>>
  <2>1. Latched /\ NothingIssued
    BY <1>1, EventMoves, RequestEnds DEF O!eventVars
  <2>2. WaitersWait
    BY <1>1, PcMoves DEF O!Check, O!ContextStore, O!Settled, O!Proceed, Waiting
  <2> QED BY <2>1, <2>2, OwnKept
<1>2. CASE O!ContextResetEvent(c)
  <2>1. Latched /\ NothingIssued
    BY <1>2, EventMoves, RequestEnds DEF O!ContextResetEvent
  <2>2. WaitersWait
    BY <1>2, PcMoves DEF O!ContextResetEvent, O!ContextUndo, O!Proceed, Waiting
  <2> QED BY <2>1, <2>2, OwnKept
<1>3. CASE O!Issue(c)
  <2>1. event' = event /\ pc' = [pc EXCEPT ![c] = "wait"] /\ O!Issued(c)
    BY <1>3 DEF O!Issue, O!eventVars
  <2>2. DOMAIN req' = O!Callers /\ \A a \in O!Callers \ {c} : req'[a] = req[a]
    BY <2>1 DEF O!Issued, OwnInv
  <2> QED BY <2>1, <2>2 DEF OwnInv, O!RequestsOwned, O!Pending
<1>4. CASE O!Complete(c)
  <2>1. Latched /\ NothingIssued
    BY <1>4, EventMoves, RequestEnds DEF O!Complete, O!eventVars
  <2>2. ~ O!Pending(c)'
    BY <1>4 DEF O!Complete, O!Taken, O!Pending, O!NoRequest, OwnInv
  <2>3. \E s : pc' = [pc EXCEPT ![c] = s]
    BY <1>4 DEF O!Complete, O!SettledAs, O!Settled
  <2> QED BY <2>1, <2>2, <2>3, PcMoves, OwnKept
<1>5. CASE O!Wake(c)
  <2>1. NothingIssued
    BY <1>5, RequestEnds DEF O!Wake
  <2>2. CASE pc' = [pc EXCEPT ![c] = "woken"] /\ O!ResetEvent(O!Dir(c))
    BY <2>1, <2>2, EventMoves, PcMoves, OwnKept DEF Waiting
  <2>3. CASE /\ event[O!Dir(c)] = "closed"
             /\ O!Settled(c, "error", 0) /\ UNCHANGED event
    BY <1>5, <2>3 DEF O!Wake, O!Settled, OwnInv, O!RequestsOwned, O!Pending
  <2> QED BY <1>5, <2>2, <2>3 DEF O!Wake
<1>6. CASE O!Drain(c)
  <2>1. Latched /\ NothingIssued
    BY <1>6, EventMoves, RequestEnds DEF O!Drain, O!eventVars
  <2>2. ~ O!Pending(c)'
    BY <1>6 DEF O!Drain, O!Taken, O!Pending, O!NoRequest, OwnInv
  <2>3. pc' = [pc EXCEPT ![c] = "join"]
    BY <1>6 DEF O!Drain, O!Settled
  <2> QED BY <2>1, <2>2, <2>3, PcMoves, OwnKept
<1>7. CASE O!Return(c) /\ UNCHANGED <<canceled, req, O!eventVars>>
  <2>1. Latched /\ NothingIssued
    BY <1>7, EventMoves, RequestEnds DEF O!eventVars
  <2>2. WaitersWait
    BY <1>7, PcMoves DEF O!Return, Waiting
  <2> QED BY <2>1, <2>2, OwnKept
<1> QED BY <1>1, <1>2, <1>3, <1>4, <1>5, <1>6, <1>7 DEF O!Operate

LEMMA OwnWatch ==
  ASSUME OwnInv, NEW c \in O!Callers, O!Watch(c)
  PROVE  OwnInv'
<1>1. UNCHANGED pc
  BY DEF O!Watch, O!WatchStore, O!WatchSetEvent, O!WatchAbort, O!WatchGoesOn,
       O!WatchStop
<1>2. O!SetEvent(O!Dir(c)) \/ UNCHANGED event
  BY DEF O!Watch, O!WatchSetEvent, O!WatchAbort, O!eventVars
<1>3. O!Aborted(O!Callers) \/ UNCHANGED req
  BY DEF O!Watch, O!WatchSetEvent, O!WatchAbort
<1> QED BY <1>1, <1>2, <1>3, DirType, EventMoves, RequestEnds, PcStays, OwnKept

(* What the kernel does to a request ends it or leaves it pending.           *)
LEMMA OwnServe ==
  ASSUME OwnInv, NEW c \in O!Callers, O!Serve(c)
  PROVE  OwnInv'
<1>1. UNCHANGED <<pc, event>>
  BY DEF O!Serve, O!FileServed, O!Kernel, O!Fill, O!Flush, O!Break, O!opVars,
       O!eventVars
<1>2. O!Pending(c)
  BY DEF O!Serve, O!FileServed, O!Kernel, O!Fill, O!Flush, O!Break
<1>3. DOMAIN req' = O!Callers /\ \A a \in O!Callers \ {c} : req'[a] = req[a]
  <2>1. CASE isFile
    BY <2>1 DEF O!Serve, O!FileServed, OwnInv
  <2>2. CASE ~ isFile
    BY <2>2 DEF O!Serve, O!Kernel, O!Fill, O!Flush, O!Break, OwnInv
  <2> QED BY <2>1, <2>2
<1>4. NothingIssued
  BY <1>2, <1>3 DEF NothingIssued, O!Pending, OwnInv
<1> QED BY <1>1, <1>4, DirType, EventMoves, PcStays, OwnKept

LEMMA OwnManage ==
  ASSUME OwnInv, NEW x \in Cancelers, O!Manage(x)
  PROVE  OwnInv'
<1>1. UNCHANGED pc
  BY DEF O!Manage, O!CancelFlag, O!CancelStore, O!CancelSignal, O!CancelAbort,
       O!CloseEvent, O!ResetFlag, O!ResetStore, O!ResetSignal, O!CloseObject,
       O!opVars
<1>2. NothingIssued
  <2>1. O!Aborted(O!Callers) \/ UNCHANGED req
    BY DEF O!Manage, O!CancelFlag, O!CancelSignal, O!CancelAbort, O!CloseEvent,
         O!ResetFlag, O!ResetSignal, O!CloseObject
  <2> QED BY <2>1 DEF O!Aborted, NothingIssued, O!Pending, O!Done, OwnInv
<1>3. Latched
  <2>1. CASE O!CloseObject(x)
    BY <2>1 DEF O!CloseObject, O!eventVars, Latched, OwnInv
  <2>2. ASSUME NEW d \in O!Directions,
               \/ O!CancelFlag(x, d) \/ O!CancelSignal(x, d)
               \/ O!CancelAbort(x, d)
               \/ O!ResetFlag(x, d) \/ O!ResetSignal(x, d)
        PROVE  Latched
    <3>1. O!SetEvent(d) \/ O!ResetEvent(d) \/ UNCHANGED event
      BY <2>2 DEF O!CancelFlag, O!CancelSignal, O!CancelAbort, O!ResetFlag,
           O!ResetSignal, O!eventVars
    <3> QED BY <3>1, EventMoves
  <2>3. ASSUME NEW d \in O!Directions, O!CloseEvent(x, d) PROVE Latched
    BY <2>3 DEF O!CloseEvent, Latched, OwnInv
  <2> QED BY <2>1, <2>2, <2>3 DEF O!Manage
<1> QED BY <1>1, <1>2, <1>3, PcStays, OwnKept

LEMMA OwnEnvironment ==
  ASSUME OwnInv, O!Environment
  PROVE  OwnInv'
<1>1. UNCHANGED <<req, event>>
  BY DEF O!Environment, O!BeginOperation, O!eventVars
<1>2. Latched /\ NothingIssued
  BY <1>1 DEF Latched, NothingIssued, O!Pending, OwnInv
<1>3. WaitersWait
  <2>1. CASE UNCHANGED pc
    BY <2>1, PcStays
  <2>2. ASSUME NEW c \in O!Callers, O!BeginOperation(c) PROVE WaitersWait
    BY <2>2, PcMoves DEF O!BeginOperation, O!Begin, Waiting
  <2> QED BY <2>1, <2>2 DEF O!Environment, O!Expire, O!StartMethod, O!Arrive,
         O!Leave, O!HangUp, O!opVars
<1> QED BY <1>2, <1>3, OwnKept

LEMMA OwnStep == OwnInv /\ [O!Next]_(O!vars) => OwnInv'
<1> SUFFICES ASSUME OwnInv, [O!Next]_(O!vars) PROVE OwnInv'
  OBVIOUS
<1>1. CASE O!System
  BY <1>1, OwnOperate, OwnWatch, OwnServe, OwnManage DEF O!System
<1>2. CASE O!Environment
  BY <1>2, OwnEnvironment
<1>3. CASE UNCHANGED O!vars
  BY <1>3 DEF O!vars, O!opVars, O!eventVars, OwnInv, O!RequestsOwned, O!Pending
<1> QED BY <1>1, <1>2, <1>3 DEF O!Next

-----------------------------------------------------------------------------
(* WinOverlappedIO: the types and the count.  An offset belongs to the one   *)
(* operation of its direction: with two of them it would advance twice.      *)
OneEach == \A c, e \in Callers : Dir(c) = Dir(e) => c = e

OverlappedSteps == {"cancel", "signal", "abort", "reset", "zero", "event", "object"}

OverlappedTyped ==
  /\ event \in [Directions -> {"clear", "set", "closed"}]
  /\ isFile \in BOOLEAN

(* The result of a request on a file fits what is behind the offset.         *)
Fits(c) ==
  pc[c] = "wait" /\ req[c].st = "done" =>
    IF req[c].err = "nil" THEN req[c].n <= (IF c \in Readers THEN avail ELSE space)
                          ELSE req[c].n = 0

(* A read on a file, which takes its bytes only when the offset advances.    *)
ReadsFile(c) == c \in Readers /\ isFile

(* The result of a request is what it moved, unless it was aborted.          *)
InRequest(c) ==
  /\ req[c].st \in {"pending", "done"}
  /\ c \in Readers \/ isFile => part[c] = 0
  /\ req[c].st = "pending" => moved[c] = part[c]
  /\ ReadsFile(c) => moved[c] = 0
  /\ req[c].st = "done" /\ req[c].err # "aborted" =>
       req[c].n = moved[c] \/ (ReadsFile(c) /\ req[c].err = "nil")

(* What NothingLost says of one caller that has its results, here.           *)
Reported(c) ==
  /\ out[c].err = "canceled" /\ ReadsFile(c) => moved[c] = 0
  /\ out[c].err # "canceled" =>
       \/ out[c].n = moved[c]
       \/ out[c].err = "error" /\ event[Dir(c)] = "closed" /\ ~ ReadsFile(c)

OverlappedAccount(c) ==
  /\ part[c] <= len[c]
  /\ pc[c] \in Early => Fresh(c)
  /\ pc[c] \in Waiting => InRequest(c)
  /\ isFile => Fits(c)
  /\ pc[c] = "join" => Reported(c)

OverlappedInv ==
  /\ Typed /\ Jobs(OverlappedSteps) /\ RequestTypeOK /\ OverlappedTyped
  /\ \A c \in Callers : OverlappedAccount(c)

(* What is behind an offset grows unless the operation advances it.          *)
Behind(c) ==
  isFile => \A a \in Callers \ {c} : IF a \in Readers THEN avail <= avail'
                                                      ELSE space <= space'

(* A closed event stays closed.                                              *)
ClosedStays == \A a \in Callers : event[Dir(a)] = "closed" => event'[Dir(a)] = "closed"

LEMMA ReportedStays ==
  ASSUME NEW a \in Callers, ClosedStays, isFile' = isFile, out'[a] = out[a],
         moved'[a] = moved[a], Reported(a)
  PROVE  Reported(a)'
BY DEF ClosedStays, Reported, ReadsFile

LEMMA OverlappedOfOne ==
  ASSUME Typed, RequestTypeOK, Typed', \A a \in Callers : OverlappedAccount(a),
         NEW c \in Callers, OnlyOf(c), Behind(c), isFile' = isFile, ClosedStays,
         \A a \in Callers \ {c} : req'[a] = req[a], OverlappedAccount(c)'
  PROVE  \A a \in Callers : OverlappedAccount(a)'
<1> SUFFICES ASSUME NEW a \in Callers \ {c} PROVE OverlappedAccount(a)'
  OBVIOUS
<1>1. /\ pc'[a] = pc[a] /\ len'[a] = len[a] /\ out'[a] = out[a] /\ part'[a] = part[a]
      /\ moved'[a] = moved[a] /\ req'[a] = req[a]
  BY DEF OnlyOf
<1>2. isFile /\ Fits(a) => Fits(a)'
  <2>1. req[a].n \in Nat /\ avail \in Nat /\ avail' \in Nat /\ space \in Nat /\ space' \in Nat
    BY StreamAssumption, OperationAssumption DEF StreamAssumption,
         OperationAssumption, RequestTypeOK, Typed, StreamTypeOK
  <2> QED BY <1>1, <2>1 DEF Fits, Behind
<1>3. InRequest(a) => InRequest(a)'
  BY <1>1 DEF InRequest, ReadsFile
<1>4. Reported(a) => Reported(a)'
  BY <1>1, ReportedStays
<1> QED BY <1>1, <1>2, <1>3, <1>4 DEF OverlappedAccount, Fresh

LEMMA OverlappedStays ==
  ASSUME \A a \in Callers : OverlappedAccount(a), UNCHANGED <<pc, len, out, part, moved>>,
         UNCHANGED <<isFile, avail, space>>, ClosedStays, req' = req \/ \E S : Aborted(S)
  PROVE  \A a \in Callers : OverlappedAccount(a)'
<1> SUFFICES ASSUME NEW a \in Callers PROVE OverlappedAccount(a)'
  OBVIOUS
<1>1. \/ req'[a] = req[a]
      \/ req[a].st = "pending" /\ req'[a] = [st |-> "done", err |-> "aborted", n |-> 0]
  BY DEF Aborted, Pending, Done
<1>2. Fits(a) => Fits(a)'
  BY <1>1 DEF Fits
<1>3. InRequest(a) => InRequest(a)'
  BY <1>1 DEF InRequest, ReadsFile
<1>4. Reported(a) => Reported(a)'
  BY ReportedStays
<1> QED BY <1>2, <1>3, <1>4 DEF OverlappedAccount, Fresh

(* The steps of an operation that leave its request alone.                   *)
LEMMA OverlappedTests ==
  ASSUME OverlappedInv, NEW c \in Callers, Tests(c), OverlappedTyped', isFile' = isFile,
         ClosedStays, req' = req
  PROVE  OverlappedInv'
<1>1. Typed' /\ job' = job
  BY TypedTests DEF OverlappedInv
<1>t. /\ pc \in [Callers -> States] /\ out \in [Callers -> Results]
  BY DEF OverlappedInv, Typed, OperationTypeOK, States, Results
<1>2. /\ pc'[c] \in {"idle", "check", "reset", "drain", "enter", "join"}
      /\ pc'[c] \in Early => pc[c] \in Early
      /\ pc'[c] = "join" => pc[c] = "check" /\ out'[c].err = "canceled"
      /\ UNCHANGED <<part, len, moved, streamVars>>
  BY <1>t DEF Tests, FlagTests, Check, ContextStore, ContextUndo, Ends, Settled,
       Proceed, Return, Early
<1>3. OnlyOf(c)
  BY <1>t DEF Tests, FlagTests, Check, ContextStore, ContextUndo, Ends, Settled,
       Proceed, Return, OnlyOf
<1>4. OverlappedAccount(c)
  BY DEF OverlappedInv
<1>5. OverlappedAccount(c)'
  BY <1>2, <1>4 DEF OverlappedAccount, Fits, Early, Waiting, Fresh, Reported
<1>6. Behind(c)
  BY <1>2, StreamAssumption DEF StreamAssumption, Behind, streamVars,
       OverlappedInv, Typed, StreamTypeOK
<1> QED BY <1>1, <1>3, <1>5, <1>6, OverlappedOfOne DEF OverlappedInv, Jobs,
       RequestTypeOK

(* The operation once it is past the tests, until its results are settled.   *)
LEMMA OverlappedWaits ==
  ASSUME OverlappedInv, NEW c \in Callers, O!Issue(c) \/ O!Wake(c) \/ O!Drain(c)
  PROVE  OverlappedInv'
<1> USE DEF OverlappedInv, O!eventVars, O!streamVars, streamVars, O!Settled, Settled
<1>t. /\ pc \in [Callers -> States] /\ out \in [Callers -> Results]
      /\ event \in [Directions -> {"clear", "set", "closed"}]
      /\ req \in [Callers -> [st : {"none", "pending", "done"},
                              err : {"nil", "error", "aborted"}, n : 0..MaxLen]]
  BY DEF Typed, OperationTypeOK, States, Results, OverlappedTyped, RequestTypeOK
<1>0. OverlappedAccount(c)
  OBVIOUS
<1>1. /\ UNCHANGED <<job, len, part, moved, streamVars, isFile>>
      /\ event' = event \/ O!ResetEvent(O!Dir(c))
  BY DEF O!Issue, O!Wake, O!Drain
<1>2. OverlappedTyped' /\ ClosedStays
  BY <1>t, <1>1, DirType, CallersHaveDirections
     DEF OverlappedTyped, O!ResetEvent, ClosedStays, Directions, O!Directions
<1>3. RequestTypeOK' /\ \A a \in Callers \ {c} : req'[a] = req[a]
  <2>1. Issued(c) \/ Taken(c) \/ req' = req
    BY DEF O!Issue, O!Wake, O!Drain, O!Issued, Issued, O!Taken, Taken,
         O!NoRequest, NoRequest, O!Done, Done
  <2> QED BY <2>1, RequestsChange DEF Issued, Taken, RequestTypeOK
<1>4. Behind(c)
  BY <1>1, StreamAssumption DEF StreamAssumption, Behind, Typed, StreamTypeOK
<1>5. ASSUME Typed', OnlyOf(c), OverlappedAccount(c)' PROVE OverlappedInv'
  BY <1>1, <1>2, <1>3, <1>4, <1>5, OverlappedOfOne DEF Jobs
<1>6. CASE O!Issue(c)
  <2>1. Typed'
    BY <1>6, TypedGoes DEF O!Issue, States
  <2>2. /\ pc[c] = "enter" /\ pc'[c] = "wait" /\ OnlyOf(c)
        /\ \/ req'[c] = [st |-> "pending", err |-> "nil", n |-> 0]
           \/ req'[c] = [st |-> "done", err |-> "error", n |-> 0]
    BY <1>t, <1>6 DEF O!Issue, O!Issued, O!NoRequest, O!Done, OnlyOf
  <2>3. moved[c] = 0 /\ part[c] = 0
    BY <1>0, <2>2 DEF OverlappedAccount, Early, Fresh
  <2>4. InRequest(c)' /\ Fits(c)'
    BY <1>1, <2>2, <2>3 DEF InRequest, Fits
  <2> QED BY <1>0, <1>1, <1>5, <2>1, <2>2, <2>4 DEF OverlappedAccount, Early
<1>7. CASE O!Wake(c) /\ pc' = [pc EXCEPT ![c] = "woken"] /\ out' = out
  <2>1. Typed'
    BY <1>7, TypedGoes DEF O!Wake, States
  <2>2. pc[c] = "wait" /\ pc'[c] = "woken" /\ req' = req /\ OnlyOf(c)
    BY <1>t, <1>7 DEF O!Wake, OnlyOf
  <2>3. InRequest(c)'
    BY <1>0, <1>1, <2>2 DEF OverlappedAccount, Waiting, InRequest, ReadsFile
  <2> QED BY <1>0, <1>1, <1>5, <2>1, <2>2, <2>3 DEF OverlappedAccount, Early,
         Fits
<1>8. CASE O!Wake(c) /\ event[Dir(c)] = "closed" /\ Settled(c, "error", 0)
  <2>1. Typed'
    BY <1>1, <1>8, TypedSettles DEF O!Wake
  <2>2. /\ pc[c] = "wait" /\ pc'[c] = "join" /\ OnlyOf(c)
        /\ out'[c].err = "error" /\ out'[c].n = 0
    BY <1>t, <1>1, <1>8 DEF O!Wake, OnlyOf
  <2>3. ReadsFile(c) => moved[c] = 0
    BY <1>0, <2>2 DEF OverlappedAccount, Waiting, InRequest
  <2>4. Reported(c)'
    BY <1>1, <1>2, <1>8, <2>2, <2>3 DEF Reported, ReadsFile, ClosedStays
  <2> QED BY <1>0, <1>1, <1>5, <2>1, <2>2, <2>4
          DEF OverlappedAccount, Early, Waiting, Fits
<1>9. CASE O!Drain(c)
  <2>1. Typed'
    BY <1>1, <1>9, TypedSettles DEF O!Drain
  <2>2. /\ pc[c] = "woken" /\ pc'[c] = "join" /\ OnlyOf(c) /\ out'[c].err = "canceled"
    BY <1>t, <1>1, <1>9 DEF O!Drain, OnlyOf
  <2>3. ReadsFile(c) => moved[c] = 0
    BY <1>0, <2>2 DEF OverlappedAccount, Waiting, InRequest
  <2>4. Reported(c)'
    BY <1>1, <2>2, <2>3 DEF Reported, ReadsFile
  <2> QED BY <1>0, <1>1, <1>5, <2>1, <2>2, <2>4
          DEF OverlappedAccount, Early, Waiting, Fits
<1>10. O!Wake(c) => \/ pc' = [pc EXCEPT ![c] = "woken"] /\ out' = out
                    \/ event[Dir(c)] = "closed" /\ Settled(c, "error", 0)
  BY DEF O!Wake, O!Dir, Dir
<1> QED BY <1>6, <1>7, <1>8, <1>9, <1>10

(* The request has ended: a read on a file only now takes its bytes.         *)
LEMMA OverlappedComplete ==
  ASSUME isFile => OneEach, OverlappedInv, NEW c \in Callers, O!Complete(c)
  PROVE  OverlappedInv'
<1> USE DEF OverlappedInv
<1>t. /\ pc \in [Callers -> States] /\ out \in [Callers -> Results]
      /\ moved \in [Callers -> Nat]
      /\ req \in [Callers -> [st : {"none", "pending", "done"},
                              err : {"nil", "error", "aborted"}, n : 0..MaxLen]]
  BY DEF Typed, OperationTypeOK, States, Results, RequestTypeOK
<1>0. OverlappedAccount(c)
  OBVIOUS
<1>1. /\ pc[c] = "wait" /\ req[c].st = "done" /\ SettledAs(c, req[c]) /\ Taken(c)
      /\ UNCHANGED <<job, ctx, watch, len, part, cause, canceled, event, isFile>>
  BY DEF O!Complete, O!Ended, O!SettledAs, SettledAs, O!Settled, Settled,
       O!Taken, Taken, O!NoRequest, NoRequest, O!eventVars
<1>2. /\ pc' \in [Callers -> States] /\ out' \in [Callers -> Results]
      /\ pc'[c] = "join"
      /\ IF req[c].err = "aborted" THEN out'[c].err = "canceled"
                                   ELSE out'[c] = [err |-> req[c].err, n |-> req[c].n]
  BY <1>t, <1>1, ResultsTyped DEF SettledAs, Settled
<1>3. ClosedStays /\ RequestTypeOK' /\ \A a \in Callers \ {c} : req'[a] = req[a]
  BY <1>1, RequestsChange DEF ClosedStays, Taken, RequestTypeOK
<1>4. InRequest(c) /\ (isFile => Fits(c)) /\ c \in Readers \cup Writers
  BY <1>0, <1>1 DEF OverlappedAccount, Waiting, Callers
<1>5. ASSUME Typed', OnlyOf(c), Behind(c), Reported(c)' PROVE OverlappedInv'
  <2>1. OverlappedAccount(c)'
    BY <1>0, <1>1, <1>2, <1>5 DEF OverlappedAccount, Early, Waiting, Fits
  <2> QED BY <1>1, <1>3, <1>5, <2>1, OverlappedOfOne DEF OverlappedTyped, Jobs
<1>6. CASE isFile /\ req[c].err = "nil"
  <2>1. /\ c \in Readers => /\ moved' = [moved EXCEPT ![c] = req[c].n]
                            /\ avail' = avail - req[c].n /\ space' = space
        /\ c \notin Readers => /\ moved' = moved
                               /\ space' = space - req[c].n /\ avail' = avail
        /\ UNCHANGED <<peer, rwOpen>>
    BY <1>4, <1>6, OperationAssumption DEF OperationAssumption, O!Complete,
         O!Advances
  <2>2. req[c].n \in Nat /\ req[c].n <= (IF c \in Readers THEN avail ELSE space)
    BY <1>t, <1>1, <1>4, <1>6, OperationAssumption DEF OperationAssumption, Fits
  <2>3. StreamTypeOK'
    BY <2>1, <2>2, StreamAssumption DEF StreamAssumption, Typed, StreamTypeOK
  <2>4. moved' \in [Callers -> Nat] /\ moved'[c] = req[c].n
    BY <1>t, <1>1, <1>4, <1>6, <2>1, <2>2 DEF InRequest, ReadsFile
  <2>5. Typed'
    BY <1>1, <1>2, <2>3, <2>4 DEF Typed, OperationTypeOK, States, Results
  <2>6. OnlyOf(c)
    BY <1>t, <1>1, <2>1 DEF SettledAs, Settled, OnlyOf
  <2>7. Reported(c)'
    BY <1>2, <1>6, <2>4 DEF Reported
  <2>8. Behind(c)
    <3>1. ASSUME NEW a \in Callers \ {c} PROVE (a \in Readers) # (c \in Readers)
      BY <1>6 DEF OneEach, Dir
    <3> QED BY <2>1, <3>1, StreamAssumption
            DEF StreamAssumption, Behind, Typed, StreamTypeOK
  <2> QED BY <1>5, <2>5, <2>6, <2>7, <2>8
<1>7. CASE ~ (isFile /\ req[c].err = "nil")
  <2>1. UNCHANGED <<moved, avail, space, peer, rwOpen>>
    BY <1>7 DEF O!Complete, O!streamVars
  <2>2. Typed'
    BY <1>1, <1>2, <2>1 DEF Typed, OperationTypeOK, StreamTypeOK, States,
         Results
  <2>3. OnlyOf(c)
    BY <1>t, <1>1, <2>1 DEF SettledAs, Settled, OnlyOf
  <2>4. Reported(c)'
    BY <1>1, <1>2, <1>4, <1>7, <2>1 DEF Reported, InRequest, ReadsFile
  <2>5. Behind(c)
    BY <2>1, StreamAssumption DEF StreamAssumption, Behind, Typed, StreamTypeOK
  <2> QED BY <1>5, <2>2, <2>3, <2>4, <2>5
<1> QED BY <1>6, <1>7

(* The kernel serves the request on a named pipe ...                         *)
LEMMA PipeServed ==
  ASSUME OverlappedInv, NEW c \in Callers, pc[c] \in Waiting, ~ isFile, isFile' = isFile,
         Kernel(c)
  PROVE  InRequest(c)'
<1> USE StreamAssumption, OperationAssumption
<1>t. /\ part \in [Callers -> Nat] /\ len \in [Callers -> 0..MaxLen]
      /\ req \in [Callers -> [st : {"none", "pending", "done"},
                              err : {"nil", "error", "aborted"}, n : 0..MaxLen]]
      /\ moved \in [Callers -> Nat] /\ Readers \cap Writers = {}
      /\ space \in Nat /\ avail \in Nat
  BY DEF OverlappedInv, Typed, OperationTypeOK, RequestTypeOK, StreamTypeOK,
     OperationAssumption, StreamAssumption
<1>0. /\ moved[c] = part[c] /\ (c \in Readers => part[c] = 0) /\ part[c] <= len[c]
      /\ Pending(c)
  BY DEF OverlappedInv, OverlappedAccount, InRequest, Kernel, Fill, Flush,
       Break, Pending
<1>1. CASE Fill(c)
  <2>1. PICK k \in 1..Least(len[c], avail) :
          /\ moved' = [moved EXCEPT ![c] = k]
          /\ req' = [req EXCEPT ![c] = Done("nil", k)]
    BY <1>1 DEF Fill
  <2>2. /\ moved'[c] = k /\ part' = part
        /\ req'[c] = [st |-> "done", err |-> "nil", n |-> k]
    BY <1>t, <1>1, <2>1 DEF Done, Fill
  <2> QED BY <1>0, <2>2 DEF InRequest, ReadsFile
<1>2. CASE Flush(c)
  <2>1. PICK k \in 0..Least(len[c] - part[c], space) :
          /\ moved' = [moved EXCEPT ![c] = moved[c] + k]
          /\ part' = [part EXCEPT ![c] = part[c] + k]
          /\ req' = IF part[c] + k = len[c]
               THEN [req EXCEPT ![c] = Done("nil", len[c])] ELSE req
    BY <1>2 DEF Flush
  <2>2. /\ moved'[c] = part'[c] /\ c \notin Readers
        /\ \/ part'[c] = len[c] /\ req'[c] = [st |-> "done", err |-> "nil", n |-> len[c]]
           \/ req'[c] = req[c]
    BY <1>t, <1>0, <1>2, <2>1 DEF Done, Flush
  <2> QED BY <1>0, <2>2 DEF InRequest, ReadsFile, Pending
<1>3. CASE Break(c)
  <2>1. /\ UNCHANGED <<moved, part>>
        /\ req'[c] = [st |-> "done", err |-> "error", n |-> part[c]]
    BY <1>t, <1>3 DEF Done, Break, opVars
  <2> QED BY <1>0, <2>1 DEF InRequest, ReadsFile
<1> QED BY <1>1, <1>2, <1>3 DEF Kernel

(* ... and that on a file, which moves nothing but the bytes of a write.     *)
LEMMA FileServes ==
  ASSUME OverlappedInv, NEW c \in Callers, isFile, O!Serve(c)
  PROVE  /\ Pending(c)
         /\ UNCHANGED <<pc, ctx, watch, len, out, part, cause, job, streamVars>>
         /\ \E k \in 0..MaxLen, e \in {"nil", "error"} :
              /\ req' = [req EXCEPT ![c] = Done(e, k)]
              /\ moved' = IF c \in Readers THEN moved ELSE [moved EXCEPT ![c] = k]
              /\ e = "nil" => k <= (IF c \in Readers THEN avail ELSE space)
              /\ e = "error" => k = 0
<1> DEFINE most == IF c \in Readers THEN Least(len[c], avail)
                   ELSE IF len[c] <= space THEN len[c] ELSE 0
           moves(k) == moved' = IF c \in Readers THEN moved ELSE [moved EXCEPT ![c] = k]
<1>1. /\ Pending(c)
      /\ UNCHANGED <<pc, ctx, watch, len, out, part, cause, job, streamVars>>
      /\ \/ req' = [req EXCEPT ![c] = Done("nil", most)] /\ moves(most)
         \/ req' = [req EXCEPT ![c] = Done("error", 0)] /\ moves(0)
  BY DEF O!Serve, O!FileServed, O!Pending, Pending, O!Done, Done, O!Least,
       Least, O!streamVars, streamVars
<1>2. most \in 0..MaxLen /\ most <= (IF c \in Readers THEN avail ELSE space)
  BY StreamAssumption, OperationAssumption
     DEF StreamAssumption, OperationAssumption, Least, OverlappedInv, Typed,
         OperationTypeOK, StreamTypeOK
<1>3. 0 \in 0..MaxLen
  BY OperationAssumption DEF OperationAssumption
<1> HIDE DEF most
<1> QED BY <1>1, <1>2, <1>3

LEMMA OverlappedServe ==
  ASSUME OverlappedInv, NEW c \in Callers, O!Serve(c)
  PROVE  OverlappedInv'
<1> USE DEF OverlappedInv
<1>1. UNCHANGED <<canceled, event, isFile>> /\ pc[c] \in Waiting
  BY DEF O!Serve, O!eventVars, Waiting
<1>2. OverlappedAccount(c) /\ ClosedStays
  BY <1>1 DEF ClosedStays
<1>3. CASE ~ isFile
  <2>1. Kernel(c)
    BY <1>3 DEF O!Serve, O!Kernel, Kernel, O!Fill, Fill, O!Flush, Flush,
         O!Break, Break, O!Pending, Pending, O!Done, Done, O!Least, Least,
         O!opVars, opVars, O!streamVars, streamVars
  <2>2. /\ Typed' /\ RequestTypeOK' /\ job' = job /\ OnlyOf(c)
        /\ pc' = pc /\ len' = len /\ part'[c] <= len[c]
        /\ \A a \in Callers \ {c} : req'[a] = req[a]
    BY <1>1, <1>2, <2>1, TypedKernel DEF OverlappedAccount
  <2>3. InRequest(c)'
    BY <1>1, <1>3, <2>1, PipeServed
  <2>4. Behind(c) /\ OverlappedAccount(c)'
    BY <1>1, <1>3, <2>2, <2>3 DEF Behind, OverlappedAccount, Waiting, Early
  <2> QED BY <1>1, <1>2, <2>2, <2>4, OverlappedOfOne DEF OverlappedTyped, Jobs
<1>4. CASE isFile
  <2>1. PICK k \in 0..MaxLen, e \in {"nil", "error"} :
          /\ UNCHANGED <<pc, ctx, watch, len, out, part, cause, job, streamVars>>
          /\ req' = [req EXCEPT ![c] = Done(e, k)]
          /\ moved' = IF c \in Readers THEN moved ELSE [moved EXCEPT ![c] = k]
          /\ e = "nil" => k <= (IF c \in Readers THEN avail ELSE space)
          /\ e = "error" => k = 0
          /\ Pending(c)
    BY <1>4, FileServes
  <2>2. RequestTypeOK'
    BY <2>1, RequestsChange
  <2>3. Typed'
    BY <1>1, <2>1 DEF Typed, OperationTypeOK, StreamTypeOK, streamVars
  <2>4. OnlyOf(c) /\ Behind(c) /\ \A a \in Callers \ {c} : req'[a] = req[a]
    BY <2>1, StreamAssumption DEF StreamAssumption, OnlyOf, Behind,
         streamVars, Typed, OperationTypeOK, StreamTypeOK, RequestTypeOK
  <2>5. req'[c] = [st |-> "done", err |-> e, n |-> k]
    BY <2>1 DEF Done, RequestTypeOK
  <2>6. Fits(c)'
    BY <2>1, <2>5 DEF Fits, streamVars
  <2>7. InRequest(c)'
    BY <1>1, <1>2, <1>4, <2>1, <2>5 DEF OverlappedAccount, InRequest, ReadsFile,
       Typed, OperationTypeOK, Pending
  <2>8. OverlappedAccount(c)'
    BY <1>1, <1>2, <2>1, <2>6, <2>7 DEF OverlappedAccount, Waiting, Early
  <2> QED BY <1>1, <1>2, <2>1, <2>2, <2>3, <2>4, <2>8, OverlappedOfOne
          DEF OverlappedTyped, Jobs
<1> QED BY <1>3, <1>4

LEMMA OverlappedOperate ==
  ASSUME isFile => OneEach, OverlappedInv, NEW c \in Callers, O!Operate(c)
  PROVE  OverlappedInv'
<1> USE DEF O!eventVars, O!streamVars, streamVars, O!Settled, Settled, O!Dir, Dir
<1>1. CASE (O!Check(c) \/ O!ContextStore(c)) /\ UNCHANGED <<req, O!eventVars>>
  <2>1. Tests(c)
    BY <1>1 DEF Tests, FlagTests, O!Check, Check, O!Proceed, Proceed,
         O!ContextStore, ContextStore
  <2> QED BY <1>1, <2>1, OverlappedTests DEF OverlappedInv, OverlappedTyped,
         ClosedStays
<1>2. CASE O!ContextResetEvent(c)
  <2>1. Tests(c) /\ req' = req /\ isFile' = isFile
    BY <1>2 DEF Tests, FlagTests, O!ContextResetEvent, O!ContextUndo,
         ContextUndo, O!Proceed, Proceed
  <2>2. OverlappedTyped' /\ ClosedStays
    BY <1>2, CallersHaveDirections DEF O!ContextResetEvent, O!ResetEvent,
         OverlappedInv, OverlappedTyped, ClosedStays, Directions
  <2> QED BY <2>1, <2>2, OverlappedTests
<1>3. CASE O!Return(c) /\ UNCHANGED <<canceled, req, O!eventVars>>
  <2>1. Tests(c)
    BY <1>3 DEF Tests, FlagTests, O!Return, Return
  <2> QED BY <1>3, <2>1, OverlappedTests DEF OverlappedInv, OverlappedTyped,
         ClosedStays
<1> QED BY <1>1, <1>2, <1>3, OverlappedWaits, OverlappedComplete DEF O!Operate

LEMMA OverlappedWatches ==
  ASSUME NEW c, O!Watch(c)
  PROVE  /\ WatcherMoves(c)
         /\ isFile' = isFile
         /\ event' = event \/ (watch[c] = "signaling" /\ O!SetEvent(Dir(c)))
         /\ req' = req \/ (GiveCauseToAll /\ \E S : Aborted(S))
<1> USE DEF O!eventVars, O!streamVars, O!Dir, Dir, WatcherMoves, CausesGiven
<1>1. CASE O!WatchStore(c) /\ UNCHANGED <<req, O!eventVars>>
  BY <1>1 DEF O!WatchStore
<1>2. CASE O!WatchSetEvent(c)
  BY <1>2 DEF O!WatchSetEvent, O!WatchGoesOn
<1>3. CASE O!WatchAbort(c)
  BY <1>3 DEF O!WatchAbort, O!WatchGoesOn, O!Aborted, Aborted, O!Callers,
       Callers, O!Pending, Pending, O!Done, Done, O!GiveCauseToAll,
       GiveCauseToAll
<1>4. CASE O!WatchStop(c) /\ UNCHANGED <<canceled, req, O!eventVars>>
  BY <1>4 DEF O!WatchStop
<1> QED BY <1>1, <1>2, <1>3, <1>4 DEF O!Watch

LEMMA OverlappedManages ==
  ASSUME NEW x, O!Manage(x)
  PROVE  /\ MethodMoves(x, OverlappedSteps)
         /\ isFile' = isFile
         /\ \/ event' = event
            \/ \E d \in Directions : \/ O!SetEvent(d) /\ GiveCause(d)
                                     \/ O!ResetEvent(d)
                                     \/ event' = [event EXCEPT ![d] = "closed"]
         /\ req' = req \/ (GiveCauseToAll /\ \E S : Aborted(S))
<1>2. ASSUME NEW d \in Directions, O!CancelFlag(x, d)
      PROVE  MethodMoves(x, OverlappedSteps) /\ UNCHANGED <<req, event, isFile>>
  <2>1. /\ CancelStore(x, d, <<Step("signal", d), Step("abort", d)>>)
        /\ UNCHANGED <<req, event, isFile>>
    BY <1>2 DEF O!CancelFlag, O!CancelStore, CancelStore, O!eventVars, O!At, At,
         O!Step, Step, O!streamVars, streamVars, O!opVars, opVars, O!GiveCause,
         GiveCause, O!InProgress, InProgress, O!Callers, Callers, O!Dir, Dir
  <2>2. <<Step("signal", d), Step("abort", d)>>
          \in Seq([op : OverlappedSteps, dir : Directions])
    BY DEF OverlappedSteps, Step
  <2>3. \A e \in Directions : ~ Resets(<<Step("signal", d), Step("abort", d)>>, e)
    BY RestResets
  <2> QED BY <2>1, <2>2, <2>3, CancelIsMethod
<1>3. ASSUME NEW d \in Directions, O!ResetFlag(x, d)
      PROVE  MethodMoves(x, OverlappedSteps) /\ UNCHANGED <<req, event, isFile>>
  <2>1. ResetStore(x, d, <<Step("zero", d)>>) /\ UNCHANGED <<req, event, isFile>>
    BY <1>3 DEF O!ResetFlag, O!ResetStore, ResetStore, O!eventVars, O!At, At,
         O!Step, Step, O!streamVars, streamVars, O!opVars, opVars, O!GiveCause,
         GiveCause, O!InProgress, InProgress, O!Callers, Callers, O!Dir, Dir
  <2>2. <<Step("zero", d)>> \in Seq([op : OverlappedSteps, dir : Directions])
    BY DEF OverlappedSteps, Step
  <2>3. \A e \in Directions : Resets(<<Step("zero", d)>>, e) => e = d
    BY RestResets
  <2> QED BY <2>1, <2>2, <2>3, ResetIsMethod
<1> USE DEF O!eventVars, O!streamVars, O!opVars, O!At, O!Directions, Directions,
            MethodMoves, CausesGiven, O!GiveCause, GiveCause, O!Advance, Advance,
            O!InProgress, InProgress, O!Callers, Callers, O!Dir, Dir
<1>4. ASSUME NEW d \in Directions, O!CloseEvent(x, d)
      PROVE  /\ MethodMoves(x, OverlappedSteps) /\ UNCHANGED <<req, isFile>>
             /\ event' = [event EXCEPT ![d] = "closed"]
  BY <1>4 DEF O!CloseEvent
<1>5. ASSUME NEW d \in Directions, O!CancelSignal(x, d)
      PROVE  MethodMoves(x, OverlappedSteps) /\ O!SetEvent(d) /\ GiveCause(d)
             /\ UNCHANGED <<req, isFile>>
  BY <1>5 DEF O!CancelSignal
<1>6. ASSUME NEW d \in Directions, O!CancelAbort(x, d)
      PROVE  /\ MethodMoves(x, OverlappedSteps) /\ UNCHANGED <<event, isFile>>
             /\ GiveCauseToAll /\ \E S : Aborted(S)
  BY <1>6 DEF O!CancelAbort, O!GiveCauseToAll, GiveCauseToAll, O!Aborted,
       Aborted, O!Pending, Pending, O!Done, Done
<1>7. ASSUME NEW d \in Directions, O!ResetSignal(x, d)
      PROVE  /\ MethodMoves(x, OverlappedSteps) /\ O!ResetEvent(d)
             /\ UNCHANGED <<req, isFile>>
  BY <1>7 DEF O!ResetSignal
<1>8. CASE O!CloseObject(x)
  BY <1>8 DEF O!CloseObject, O!CloseStream
<1> QED BY <1>2, <1>3, <1>4, <1>5, <1>6, <1>7, <1>8 DEF O!Manage

LEMMA OverlappedMethods ==
  \A s \in O!Methods \cup {O!Close} : s \in Seq([op : OverlappedSteps, dir : Directions])
<1> DEFINE S == [op : OverlappedSteps, dir : Directions]
           Ends3 == <<Step("event", "read"), Step("event", "write"),
                      Step("object", "read")>>
<1>1. /\ \A s \in Methods : s \in Seq(S)
      /\ Ends3 \in Seq(S)
  <2>1. \A s \in Methods : s \in Seq(S)
    BY MethodsAreSteps DEF OverlappedSteps
  <2>2. Ends3 \in Seq(S)
    BY DEF OverlappedSteps, Directions, Step
  <2> QED BY <2>1, <2>2
<1>2. O!Methods = Methods /\ O!Close = Cancel \o Ends3
  BY DEF O!Methods, Methods, O!Close, O!CancelReads, CancelReads,
       O!CancelWrites, CancelWrites, O!Cancel, Cancel, O!ResetReader,
       ResetReader, O!ResetWriter, ResetWriter, O!Reset, Reset, O!Step, Step
<1>3. Cancel \in Seq(S)
  BY <1>1 DEF Methods
<1>4. O!Close \in Seq(S)
  BY <1>1, <1>2, <1>3, ConcatProperties
<1> QED BY <1>1, <1>2, <1>4

LEMMA OverlappedUsed ==
  ASSUME OverlappedInv, O!Environment
  PROVE  /\ (\E c \in Callers : Calls(c) /\ O!BeginOperation(c)) \/ OthersMove(OverlappedSteps)
         /\ UNCHANGED <<req, event, isFile>>
<1> USE DEF O!eventVars, OverlappedInv, OverlappedTyped
<1>1. ASSUME NEW c \in Callers, O!BeginOperation(c)
      PROVE  Calls(c) /\ UNCHANGED <<req, event, isFile>>
  <2> PICK k \in {"none", "live"}, l \in Lengths(c) :
         O!Begin(c, k, l, \/ k = "none" /\ canceled[Dir(c)]
                          \/ O!LeftOver(Dir(c)))
    BY <1>1 DEF O!BeginOperation, O!Lengths, Lengths, O!Dir, Dir
  <2> DEFINE b == \/ k = "none" /\ canceled[Dir(c)]
                  \/ O!LeftOver(Dir(c))
  <2>1. Begin(c, k, l, b)
    BY DEF O!Begin, Begin, O!ResetPending, ResetPending, O!Resets, Resets,
         O!Dir, Dir, O!NoResult, NoResult, O!streamVars, streamVars
  <2>2. b \in BOOLEAN
    OBVIOUS
  <2> QED BY <1>1, <2>1, <2>2 DEF Calls, O!BeginOperation
<1>2. ASSUME NEW c \in Callers, O!Expire(c) /\ UNCHANGED <<canceled, req, O!eventVars>>
      PROVE  OthersMove(OverlappedSteps) /\ UNCHANGED <<req, event, isFile>>
  BY <1>2 DEF O!Expire, Expire, O!streamVars, streamVars, OthersMove
<1>3. ASSUME NEW x \in Cancelers, NEW s \in O!Methods \cup {O!Close},
             O!StartMethod(x, s) /\ UNCHANGED <<canceled, req, O!eventVars>>
      PROVE  OthersMove(OverlappedSteps) /\ UNCHANGED <<req, event, isFile>>
  <2>1. s \in Seq([op : OverlappedSteps, dir : Directions])
    BY OverlappedMethods
  <2>2. StartMethod(x, s)
    BY <1>3 DEF O!StartMethod, StartMethod, O!Directions, Directions, O!Resets,
         Resets, O!InProgress, InProgress, O!Callers, Callers, O!Dir, Dir,
         O!opVars, opVars, O!streamVars, streamVars
  <2> QED BY <1>3, <2>1, <2>2 DEF OthersMove
<1>4. CASE /\ O!Arrive \/ O!Leave \/ (O!HangUp /\ ~ isFile)
           /\ UNCHANGED <<O!opVars, job, canceled, req, O!eventVars>>
  BY <1>4 DEF Peer, O!Arrive, Arrive, O!Leave, Leave, O!HangUp, HangUp,
       O!opVars, opVars, OthersMove
<1>5. O!Callers = Callers
  BY DEF O!Callers, Callers
<1> QED BY <1>1, <1>2, <1>3, <1>4, <1>5 DEF O!Environment

LEMMA OverlappedInit == O!Init => OverlappedInv
<1> SUFFICES ASSUME O!Init PROVE OverlappedInv
  OBVIOUS
<1>1. OperationInit /\ StreamInit /\ FlagInit /\ RequestInit
  BY DEF O!Init, O!OperationInit, OperationInit, O!StreamInit, StreamInit,
       O!FlagInit, FlagInit, O!Callers, Callers, O!Directions, Directions,
       O!NoResult, NoResult, O!RequestInit, RequestInit, O!NoRequest, NoRequest
<1>2. OverlappedTyped
  BY DEF O!Init, OverlappedTyped, O!Directions, Directions
<1>3. \A c \in Callers : OverlappedAccount(c)
  BY <1>1 DEF OperationInit, RequestInit, NoRequest, OverlappedAccount, Early,
       Waiting, Fits
<1> QED BY <1>1, <1>2, <1>3, TypedInit, JobsInit, RequestsInit DEF OverlappedInv

LEMMA OverlappedStep ==
  ASSUME isFile => OneEach, OverlappedInv, [O!Next]_(O!vars)
  PROVE  OverlappedInv'
<1>0. Typed /\ Jobs(OverlappedSteps) /\ RequestTypeOK /\ OverlappedTyped
      /\ \A c \in Callers : OverlappedAccount(c)
  BY DEF OverlappedInv
<1>1. ASSUME NEW c \in Callers, O!Watch(c) PROVE OverlappedInv'
  <2>1. Typed' /\ job' = job
    BY <1>0, <1>1, OverlappedWatches, TypedWatcher DEF WatcherMoves
  <2>2. UNCHANGED <<pc, len, out, part, moved, avail, space>>
    BY <1>1, OverlappedWatches DEF WatcherMoves
  <2>3. ClosedStays /\ isFile' = isFile /\ (req' = req \/ \E S : Aborted(S))
    BY <1>0, <1>1, OverlappedWatches, CallersHaveDirections
       DEF ClosedStays, O!SetEvent, OverlappedTyped
  <2>4. \A a \in Callers : OverlappedAccount(a)'
    BY <1>0, <2>2, <2>3, OverlappedStays
  <2>5. RequestTypeOK' /\ OverlappedTyped'
    BY <1>0, <1>1, OverlappedWatches, RequestsChange, CallersHaveDirections
       DEF OverlappedTyped, O!SetEvent
  <2> QED BY <1>0, <2>1, <2>4, <2>5 DEF OverlappedInv, Jobs
<1>2. ASSUME NEW x \in Cancelers, O!Manage(x) PROVE OverlappedInv'
  <2>1. Typed' /\ Jobs(OverlappedSteps)'
    BY <1>0, <1>2, OverlappedManages, TypedMethod
  <2>2. UNCHANGED <<pc, len, out, part, moved, avail, space>>
    BY <1>2, OverlappedManages DEF MethodMoves
  <2>3. \A a \in Callers : OverlappedAccount(a)'
    <3>1. ClosedStays /\ isFile' = isFile /\ (req' = req \/ \E S : Aborted(S))
      BY <1>0, <1>2, OverlappedManages, CallersHaveDirections
         DEF ClosedStays, O!SetEvent, O!ResetEvent, OverlappedTyped
    <3> QED BY <1>0, <2>2, <3>1, OverlappedStays
  <2>4. RequestTypeOK'
    BY <1>0, <1>2, OverlappedManages, RequestsChange DEF RequestTypeOK, Aborted,
         Done
  <2>5. OverlappedTyped'
    BY <1>0, <1>2, OverlappedManages DEF OverlappedTyped, O!SetEvent,
         O!ResetEvent
  <2> QED BY <2>1, <2>3, <2>4, <2>5 DEF OverlappedInv
<1>3. CASE O!Environment
  <2>1. Typed' /\ Jobs(OverlappedSteps)'
    BY <1>0, <1>3, OverlappedUsed, TypedUser
  <2>2. ASSUME NEW c \in Callers, Calls(c) PROVE \A a \in Callers : OverlappedAccount(a)'
    <3>1. /\ OnlyOf(c) /\ Account(c)' /\ req' = req /\ isFile' = isFile
          /\ ClosedStays
      BY <1>0, <1>3, <2>2, OverlappedUsed, AccountCall DEF ClosedStays
    <3>2. pc'[c] = "check" /\ UNCHANGED streamVars
      BY <1>0, <2>2 DEF Calls, Begin, Typed, OperationTypeOK
    <3>3. OverlappedAccount(c)'
      BY <3>1, <3>2 DEF OverlappedAccount, Account, Waiting, Fits
    <3>4. Behind(c)
      BY <1>0, <3>2, StreamAssumption
         DEF StreamAssumption, Behind, streamVars, Typed, StreamTypeOK
    <3> QED BY <1>0, <2>1, <3>1, <3>3, <3>4, OverlappedOfOne
  <2>3. ASSUME OthersMove(OverlappedSteps)
        PROVE  \A a \in Callers : OverlappedAccount(a)'
    <3> SUFFICES ASSUME NEW a \in Callers PROVE OverlappedAccount(a)'
      OBVIOUS
    <3>1. UNCHANGED <<pc, len, out, part, moved, req, event, isFile>>
      BY <1>0, <1>3, <2>3, OthersCountNothing, OverlappedUsed
    <3>2. avail <= avail' /\ space <= space'
      BY <1>0, <2>3, StreamAssumption DEF StreamAssumption, OthersMove, Expire,
           StartMethod, Peer, Arrive, Leave, HangUp, streamVars, Typed,
           StreamTypeOK
    <3>3. /\ req[a].n \in Nat /\ avail \in Nat /\ avail' \in Nat
          /\ space \in Nat /\ space' \in Nat
      BY <1>0, <2>1, StreamAssumption, OperationAssumption DEF StreamAssumption,
           OperationAssumption, RequestTypeOK, Typed, StreamTypeOK
    <3>4. Fits(a) => Fits(a)'
      BY <3>1, <3>2, <3>3 DEF Fits
    <3> QED BY <1>0, <3>1, <3>4 DEF OverlappedAccount, Fresh, InRequest,
           ReadsFile, Reported
  <2>4. RequestTypeOK' /\ OverlappedTyped'
    BY <1>0, <1>3, OverlappedUsed DEF RequestTypeOK, OverlappedTyped,
         OverlappedInv
  <2> QED BY <1>0, <1>3, <2>1, <2>2, <2>3, <2>4, OverlappedUsed DEF
         OverlappedInv
<1>4. CASE UNCHANGED O!vars
  <2>1. UNCHANGED <<opVars, streamVars, job, canceled, req, event, isFile>>
    BY <1>4 DEF O!vars, O!opVars, opVars, O!streamVars, streamVars, O!eventVars
  <2>2. Typed' /\ \A a \in Callers : OverlappedAccount(a)'
    BY <1>0, <2>1, TypedStays, OverlappedStays DEF opVars, streamVars,
         ClosedStays
  <2> QED BY <1>0, <2>1, <2>2 DEF OverlappedInv, Jobs, RequestTypeOK,
         OverlappedTyped
<1>5. O!Callers = Callers
  BY DEF O!Callers, Callers
<1> QED BY <1>1, <1>2, <1>3, <1>4, <1>5, OverlappedOperate, OverlappedServe
        DEF O!Next, O!System

-----------------------------------------------------------------------------
(* WinConsoleIO: the types and the count.                                    *)
ConsoleSteps == {"cancel", "signal", "abort", "reset", "zero", "event", "object"}

ConsoleTyped ==
  /\ event \in [Directions -> {"clear", "set", "closed"}]
  /\ halves \in K!Opened
  /\ noise \in 0..MaxNoise

(* A request of a read has taken nothing unless it has ended with the bytes. *)
RequestCounted(c) ==
  /\ req[c].st \in {"pending", "done"}
  /\ req[c].st = "pending" \/ req[c].err # "nil" => moved[c] = 0
  /\ req[c].st = "done" => req[c].n = moved[c]

(* Only reads issue requests, and none outlives the read in which it was     *)
(* issued.                                                                   *)
ConsoleAccount(c) ==
  /\ part[c] <= len[c]
  /\ c \in Readers => part[c] = 0
  /\ IF c \in Readers /\ pc[c] \in {"wait", "woken", "io"}
     THEN IF pc[c] = "io" THEN RequestCounted(c) ELSE moved[c] = 0
     ELSE Account(c) /\ pc[c] \notin {"wait", "woken"}
  /\ req[c].st # "none" => c \in Readers /\ pc[c] = "io"

ConsoleInv ==
  /\ Typed /\ Jobs(ConsoleSteps) /\ RequestTypeOK /\ ConsoleTyped
  /\ \A c \in Callers : ConsoleAccount(c)

LEMMA ConsoleOfOne ==
  ASSUME \A a \in Callers : ConsoleAccount(a), NEW c \in Callers, OnlyOf(c),
         \A a \in Callers \ {c} : req'[a] = req[a], ConsoleAccount(c)'
  PROVE  \A a \in Callers : ConsoleAccount(a)'
BY DEF OnlyOf, ConsoleAccount, Account, Fresh, Counted, RequestCounted

(* Aborted requests have taken nothing.                                      *)
LEMMA ConsoleStays ==
  ASSUME \A a \in Callers : ConsoleAccount(a), UNCHANGED <<pc, len, out, part, moved>>,
         req' = req \/ \E S : Aborted(S)
  PROVE  \A a \in Callers : ConsoleAccount(a)'
<1> SUFFICES ASSUME NEW a \in Callers PROVE ConsoleAccount(a)'
  OBVIOUS
<1>1. Account(a) => Account(a)'
  BY DEF Account, Fresh, Counted
<1>2. \/ req'[a] = req[a]
      \/ req[a].st = "pending" /\ req'[a] = Done("aborted", 0)
  BY DEF Aborted, Pending
<1> QED BY <1>1, <1>2 DEF ConsoleAccount, RequestCounted, Done

(* The steps of an operation that leave its request alone.                   *)
LEMMA ConsoleCalls ==
  ASSUME ConsoleInv, NEW c \in Callers,
         \/ Tests(c)
         \/ CallsObject(c) /\ c \in Writers
         \/ pc[c] = "enter" /\ Ends(c, "error", 0),
         ConsoleTyped', req' = req
  PROVE  ConsoleInv'
<1> USE DEF ConsoleInv
<1>1. Typed' /\ job' = job
  BY TypedTests, TypedCalls DEF CallsObject
<1>2. CASE Tests(c)
  <2>1. /\ pc[c] \in {"check", "reset", "drain", "join"}
        /\ pc'[c] \in {"idle", "check", "reset", "drain", "enter", "join"}
        /\ part' = part /\ len' = len
    BY <1>2 DEF Tests, FlagTests, Check, ContextStore, ContextUndo, Ends,
         Settled, Proceed, Return, Typed, OperationTypeOK
  <2>2. OnlyOf(c) /\ Account(c)'
    BY <1>2, <2>1, AccountTests DEF ConsoleAccount
  <2>3. ConsoleAccount(c)'
    BY <2>1, <2>2 DEF ConsoleAccount
  <2> QED BY <1>1, <2>2, <2>3, ConsoleOfOne DEF RequestTypeOK, Jobs
<1>3. CASE ~ Tests(c)
  <2>1. CASE pc[c] = "enter" /\ Ends(c, "error", 0)
    <3>1. /\ pc'[c] = "join" /\ part' = part /\ len' = len
      BY <2>1 DEF Ends, Settled, Typed, OperationTypeOK
    <3>2. OnlyOf(c) /\ Account(c)'
      BY <2>1, AccountCalls DEF ConsoleAccount, CallsObject
    <3>3. ConsoleAccount(c)'
      BY <2>1, <3>1, <3>2 DEF ConsoleAccount
    <3> QED BY <1>1, <3>2, <3>3, ConsoleOfOne DEF RequestTypeOK, Jobs
  <2>2. CASE CallsObject(c) /\ c \in Writers
    <3>1. c \notin Readers
      BY <2>2, OperationAssumption DEF OperationAssumption
    <3>2. pc'[c] \notin {"wait", "woken"}
      BY <2>2 DEF CallsObject, Goes, Ends, Settled, RwReadData, ReadFails,
           RwWriteSome, WroteAll, WriteFails, Typed, OperationTypeOK
    <3>3. OnlyOf(c) /\ Account(c)'
      BY <2>2, <3>1, AccountCalls DEF ConsoleAccount
    <3>4. ConsoleAccount(c)'
      BY <3>1, <3>2, <3>3 DEF ConsoleAccount, Account
    <3> QED BY <1>1, <3>3, <3>4, ConsoleOfOne DEF RequestTypeOK, Jobs
  <2> QED BY <1>3, <2>1, <2>2
<1> QED BY <1>2, <1>3

(* The read of the console, once it is past the tests.                       *)
LEMMA ConsoleReads ==
  ASSUME ConsoleInv, NEW c \in Callers, K!Wait(c) \/ K!Issue(c) \/ K!Read(c)
  PROVE  ConsoleInv'
<1> USE DEF ConsoleInv, K!consoleVars, K!streamVars, streamVars, K!Settled, Settled
<1>1. /\ pc[c] \in {"wait", "woken", "io"} /\ c \in Readers
      /\ part[c] = 0 /\ pc[c] # "io" => moved[c] = 0 /\ req[c].st = "none"
      /\ pc[c] = "io" => RequestCounted(c)
  <2>1. /\ pc[c] \in {"wait", "woken", "io"}
        /\ pc[c] = "io" => K!Ended(c)
    BY DEF K!Wait, K!Issue, K!Read
  <2>2. req[c].st \in {"none", "pending", "done"}
    BY DEF RequestTypeOK
  <2>3. c \in Readers
    BY <2>1 DEF ConsoleAccount, K!Ended
  <2> QED BY <2>1, <2>2, <2>3 DEF ConsoleAccount
<1>2. /\ UNCHANGED <<job, len, part, moved, halves, noise>>
      /\ event' = event \/ K!ResetReadEvent
  BY DEF K!Wait, K!Issue, K!Read
<1>3. ConsoleTyped'
  BY <1>2 DEF ConsoleTyped, K!ResetReadEvent, Directions
<1>4. RequestTypeOK' /\ \A a \in Callers \ {c} : req'[a] = req[a]
  <2>1. Issued(c) \/ Taken(c) \/ req' = req
    BY DEF K!Wait, K!Issue, K!Read, K!Issued, Issued, K!Taken, Taken,
         K!NoRequest, NoRequest, K!Done, Done
  <2> QED BY <2>1, RequestsChange DEF Issued, Taken, RequestTypeOK
<1>5. CASE K!Wait(c)
  <2>1. CASE Settled(c, "canceled", 0) \/ Settled(c, "error", 0)
    <3>1. Typed'
      BY <1>5, <2>1, TypedSettles DEF K!Wait
    <3>2. OnlyOf(c) /\ ConsoleAccount(c)'
      BY <1>1, <1>2, <1>5, <2>1 DEF K!Wait, Typed, OperationTypeOK, OnlyOf,
         ConsoleAccount, Account, Early, Counted
    <3> QED BY <1>2, <1>3, <1>4, <3>1, <3>2, ConsoleOfOne DEF Jobs
  <2>2. CASE pc' = [pc EXCEPT ![c] = "woken"] /\ out' = out
    <3>1. Typed'
      BY <1>5, <2>2, TypedGoes DEF K!Wait, States
    <3>2. OnlyOf(c) /\ ConsoleAccount(c)'
      BY <1>1, <1>2, <1>5, <2>2 DEF K!Wait, Typed, OperationTypeOK, OnlyOf,
         ConsoleAccount
    <3> QED BY <1>2, <1>3, <1>4, <3>1, <3>2, ConsoleOfOne DEF Jobs
  <2> QED BY <1>5, <2>1, <2>2 DEF K!Wait
<1>6. CASE K!Issue(c)
  <2>1. CASE Settled(c, "canceled", 0) /\ req' = req
    <3>1. Typed'
      BY <1>6, <2>1, TypedSettles DEF K!Issue
    <3>2. OnlyOf(c) /\ ConsoleAccount(c)'
      BY <1>1, <1>2, <1>6, <2>1 DEF K!Issue, Typed, OperationTypeOK, OnlyOf,
         ConsoleAccount, Account, Early, Counted
    <3> QED BY <1>2, <1>3, <1>4, <3>1, <3>2, ConsoleOfOne DEF Jobs
  <2>2. CASE pc' = [pc EXCEPT ![c] = "io"] /\ K!Issued(c) /\ out' = out
    <3>1. Typed'
      BY <1>6, <2>2, TypedGoes DEF K!Issue, States
    <3>2. /\ req'[c].st \in {"pending", "done"} /\ req'[c].n = 0
      BY <2>2 DEF K!Issued, K!NoRequest, K!Done, RequestTypeOK
    <3>3. OnlyOf(c) /\ ConsoleAccount(c)'
      BY <1>1, <1>2, <1>6, <2>2, <3>2 DEF K!Issue, Typed, OperationTypeOK,
           OnlyOf, ConsoleAccount, RequestCounted
    <3> QED BY <1>2, <1>3, <1>4, <3>1, <3>3, ConsoleOfOne DEF Jobs
  <2> QED BY <1>6, <2>1, <2>2 DEF K!Issue
<1>7. CASE K!Read(c)
  <2>1. pc[c] = "io" /\ req'[c].st = "none" /\ req[c].st = "done"
    BY <1>7 DEF K!Read, K!Taken, K!NoRequest, K!Ended, RequestTypeOK
  <2>2. CASE SettledAs(c, req[c])
    <3>1. Typed'
      BY <1>7, <2>2, ResultsTyped DEF K!Read, Typed, OperationTypeOK,
           StreamTypeOK, States, Results
    <3>2. /\ pc'[c] = "join" /\ OnlyOf(c)
          /\ \/ req[c].err = "aborted" /\ out'[c].err = "canceled"
             \/ req[c].err # "aborted" /\ out'[c].err = req[c].err
                /\ out'[c].n = req[c].n
      BY <1>2, <2>2 DEF SettledAs, OnlyOf, Typed, OperationTypeOK
    <3>3. Counted(c)'
      BY <1>1, <1>2, <2>1, <3>2 DEF RequestCounted, Counted, RequestTypeOK
    <3>4. ConsoleAccount(c)'
      BY <1>1, <1>2, <2>1, <3>2, <3>3 DEF ConsoleAccount, Account, Early
    <3> QED BY <1>2, <1>3, <1>4, <3>1, <3>2, <3>4, ConsoleOfOne DEF Jobs
  <2>3. CASE /\ req[c].err # "nil" \/ req[c].n = 0
             /\ pc' = [pc EXCEPT ![c] = "wait"] /\ out' = out
    <3>1. Typed'
      BY <1>7, <2>3, TypedGoes DEF K!Read, States
    <3>2. moved[c] = 0
      BY <1>1, <2>1, <2>3 DEF RequestCounted
    <3>3. OnlyOf(c) /\ ConsoleAccount(c)'
      BY <1>1, <1>2, <2>1, <2>3, <3>2 DEF Typed, OperationTypeOK, OnlyOf,
           ConsoleAccount
    <3> QED BY <1>2, <1>3, <1>4, <3>1, <3>3, ConsoleOfOne DEF Jobs
  <2> QED BY <1>1, <1>7, <2>2, <2>3 DEF K!Read, K!SettledAs, SettledAs
<1> QED BY <1>5, <1>6, <1>7

LEMMA ConsoleOperate ==
  ASSUME ConsoleInv, NEW c \in Callers, K!Operate(c)
  PROVE  ConsoleInv'
<1> USE DEF K!consoleVars, K!streamVars, streamVars, K!Settled, Settled, K!Dir, Dir
<1>1. CASE K!Wait(c) \/ K!Issue(c) \/ K!Read(c)
  BY <1>1, ConsoleReads
<1>2. CASE (K!Check(c) \/ K!ContextStore(c)) /\ UNCHANGED <<req, K!consoleVars>>
  <2>1. Tests(c)
    BY <1>2 DEF Tests, FlagTests, K!Check, Check, K!Proceed, Proceed,
         K!ContextStore, ContextStore
  <2> QED BY <1>2, <2>1, ConsoleCalls DEF ConsoleInv, ConsoleTyped
<1>3. CASE K!ContextResetEvent(c)
  <2>1. Tests(c) /\ req' = req
    BY <1>3 DEF Tests, FlagTests, K!ContextResetEvent, K!ContextUndo,
         ContextUndo, K!Proceed, Proceed
  <2>2. ConsoleTyped'
    BY <1>3 DEF K!ContextResetEvent, K!ResetReadEvent, ConsoleInv, ConsoleTyped,
       Directions
  <2> QED BY <2>1, <2>2, ConsoleCalls
<1>4. CASE K!Enter(c)
  <2>1. CASE Ends(c, "error", 0) /\ pc[c] = "enter"
    BY <1>4, <2>1, ConsoleCalls DEF K!Enter, ConsoleInv, ConsoleTyped
  <2>2. CASE Goes(c, IF c \in Readers THEN "wait" ELSE "io") /\ pc[c] = "enter"
    <3>1. CASE c \in Readers
      <4>1. Typed' /\ job' = job
        BY <2>2, <3>1, TypedGoes DEF Goes, ConsoleInv, States
      <4>2. OnlyOf(c) /\ pc'[c] = "wait" /\ UNCHANGED <<len, part, moved>>
        BY <2>2, <3>1 DEF Goes, OnlyOf, ConsoleInv, Typed, OperationTypeOK
      <4>3. ConsoleAccount(c) /\ req' = req
        BY <1>4 DEF ConsoleInv, K!Enter
      <4>4. ConsoleAccount(c)'
        BY <2>2, <3>1, <4>2, <4>3 DEF ConsoleAccount, Account, Fresh, Early
      <4> QED BY <1>4, <4>1, <4>2, <4>4, ConsoleOfOne
              DEF ConsoleInv, Jobs, K!Enter, ConsoleTyped, RequestTypeOK
    <3>2. CASE c \notin Readers
      BY <1>4, <2>2, <3>2, ConsoleCalls
         DEF CallsObject, K!Enter, ConsoleInv, ConsoleTyped, Callers
    <3> QED BY <3>1, <3>2
  <2> QED BY <1>4, <2>1, <2>2 DEF K!Enter, Ends, Goes
<1>5. CASE K!WriteSome(c) \/ K!WriteReturn(c)
  <2>1. CallsObject(c) /\ c \in Writers /\ UNCHANGED <<req, event, halves, noise>>
    BY <1>5 DEF CallsObject, Ends, K!WriteSome, K!RwWriteSome, RwWriteSome,
         K!Least, Least, K!WriteReturn, K!WroteAll, WroteAll, K!WriteFails,
         WriteFails
  <2> QED BY <2>1, ConsoleCalls DEF ConsoleInv, ConsoleTyped
<1>6. CASE K!Return(c) /\ UNCHANGED <<canceled, req, K!consoleVars>>
  <2>1. Tests(c)
    BY <1>6 DEF Tests, FlagTests, K!Return, Return
  <2> QED BY <1>6, <2>1, ConsoleCalls DEF ConsoleInv, ConsoleTyped
<1> QED BY <1>1, <1>2, <1>3, <1>4, <1>5, <1>6 DEF K!Operate

LEMMA ConsoleServe ==
  ASSUME ConsoleInv, NEW c \in Callers, K!Serve(c)
  PROVE  ConsoleInv'
<1> USE DEF ConsoleInv
<1>1. /\ c \in Readers /\ c \notin Writers /\ pc[c] = "io" /\ req[c].st = "pending"
      /\ moved[c] = 0 /\ part[c] = 0
  BY OperationAssumption DEF OperationAssumption, K!Serve, K!Kernel, K!Fill,
       K!Flush, K!Break, K!Swallow, K!Pending, ConsoleAccount, RequestCounted
<1>2. CASE K!Kernel(c) /\ UNCHANGED <<canceled, K!consoleVars>>
  <2>1. Fill(c) \/ Break(c)
    BY <1>1, <1>2 DEF K!Kernel, K!Fill, Fill, K!Flush, K!Break, Break,
         K!Pending, Pending, K!Done, Done, K!Least, Least, K!opVars, opVars,
         K!streamVars, streamVars
  <2>2. /\ Typed' /\ RequestTypeOK' /\ job' = job
        /\ OnlyOf(c) /\ pc' = pc /\ part'[c] <= len'[c]
        /\ \A a \in Callers \ {c} : req'[a] = req[a]
    BY <1>2, <2>1, TypedKernel DEF Kernel, ConsoleAccount
  <2>3. RequestCounted(c)' /\ part' = part
    <3>1. CASE Fill(c)
      BY <3>1 DEF Fill, Done, RequestCounted, Typed, OperationTypeOK,
           RequestTypeOK
    <3>2. CASE Break(c)
      BY <1>1, <3>2 DEF Break, Done, RequestCounted, RequestTypeOK, opVars
    <3> QED BY <2>1, <3>1, <3>2
  <2>4. ConsoleAccount(c)'
    BY <1>1, <2>2, <2>3 DEF ConsoleAccount
  <2> QED BY <1>2, <2>2, <2>4, ConsoleOfOne DEF Jobs, K!consoleVars,
         ConsoleTyped
<1>3. CASE K!Swallow(c)
  <2>1. /\ UNCHANGED <<opVars, streamVars, job, canceled, event, halves>>
        /\ noise' \in 0..MaxNoise
    BY <1>3, NoiseAssumption DEF NoiseAssumption, K!Swallow, K!opVars, opVars,
       K!streamVars, streamVars, ConsoleTyped
  <2>2. \/ req' = [req EXCEPT ![c] = Done("nil", 0)]
        \/ req' = [req EXCEPT ![c] = Done("aborted", 0)]
        \/ req' = req
    BY <1>3 DEF K!Swallow, K!Done, Done
  <2>3. RequestTypeOK'
    BY <2>2, RequestsChange, OperationAssumption DEF OperationAssumption
  <2>4. Typed'
    BY <2>1, TypedStays
  <2>5. OnlyOf(c) /\ \A a \in Callers \ {c} : req'[a] = req[a]
    BY <2>1, <2>2 DEF OnlyOf, RequestTypeOK, opVars
  <2>6. RequestCounted(c)'
    BY <1>1, <2>1, <2>2 DEF RequestCounted, Done, RequestTypeOK, opVars
  <2>7. ConsoleAccount(c)'
    BY <1>1, <2>1, <2>6 DEF ConsoleAccount, opVars
  <2> QED BY <2>1, <2>3, <2>4, <2>5, <2>7, ConsoleOfOne DEF Jobs, ConsoleTyped
<1> QED BY <1>2, <1>3 DEF K!Serve

LEMMA ConsoleWatches ==
  ASSUME NEW c, K!Watch(c)
  PROVE  /\ WatcherMoves(c)
         /\ UNCHANGED <<halves, noise>>
         /\ event' = event \/ (watch[c] = "signaling" /\ c \in Readers /\ K!SetReadEvent)
         /\ req' = req \/ \E S : Aborted(S)
<1> USE DEF K!consoleVars, K!streamVars, K!Dir, Dir, WatcherMoves, CausesGiven
<1>1. CASE K!WatchStore(c) /\ UNCHANGED <<req, K!consoleVars>>
  BY <1>1 DEF K!WatchStore
<1>2. CASE K!WatchSetEvent(c)
  BY <1>2 DEF K!WatchSetEvent, K!WatchGoesOn
<1>3. CASE K!WatchAbort(c)
  BY <1>3 DEF K!WatchAbort, K!WatchGoesOn, K!Aborted, Aborted, K!Callers,
       Callers, K!Pending, Pending, K!Done, Done
<1>4. CASE K!WatchStop(c) /\ UNCHANGED <<canceled, req, K!consoleVars>>
  BY <1>4 DEF K!WatchStop
<1> QED BY <1>1, <1>2, <1>3, <1>4 DEF K!Watch

LEMMA ConsoleManages ==
  ASSUME NEW x, K!Manage(x)
  PROVE  /\ MethodMoves(x, ConsoleSteps)
         /\ UNCHANGED <<halves, noise>>
         /\ \/ event' = event \/ (K!SetReadEvent /\ GiveCause("read")) \/ K!ResetReadEvent
            \/ \E d \in Directions : event' = [event EXCEPT ![d] = "closed"]
         /\ req' = req \/ \E S : Aborted(S)
<1>1. /\ \A d \in Directions :
           /\ <<Step("signal", d), Step("abort", d)>>
                \in Seq([op : ConsoleSteps, dir : Directions])
           /\ <<Step("zero", d)>> \in Seq([op : ConsoleSteps, dir : Directions])
      /\ <<>> \in Seq([op : ConsoleSteps, dir : Directions])
  BY DEF Step, ConsoleSteps
<1>2. ASSUME NEW d \in Directions, K!CancelFlag(x, d)
      PROVE  MethodMoves(x, ConsoleSteps) /\ UNCHANGED <<req, event, halves, noise>>
  <2>1. /\ \/ CancelStore(x, d, <<Step("signal", d), Step("abort", d)>>)
           \/ CancelStore(x, d, <<>>)
        /\ UNCHANGED <<req, event, halves, noise>>
    BY <1>2 DEF K!CancelFlag, K!CancelStore, CancelStore, K!consoleVars, K!At,
         At, K!Step, Step, K!streamVars, streamVars, K!opVars, opVars,
         K!GiveCause, GiveCause, K!InProgress, InProgress, K!Callers, Callers,
         K!Dir, Dir
  <2>2. \A e \in Directions : /\ ~ Resets(<<Step("signal", d), Step("abort", d)>>, e)
                              /\ ~ Resets(<<>>, e)
    BY RestResets
  <2> QED BY <1>1, <2>1, <2>2, CancelIsMethod
<1>3. ASSUME NEW d \in Directions, K!ResetFlag(x, d)
      PROVE  MethodMoves(x, ConsoleSteps) /\ UNCHANGED <<req, event, halves, noise>>
  <2>1. /\ ResetStore(x, d, <<Step("zero", d)>>) \/ ResetStore(x, d, <<>>)
        /\ UNCHANGED <<req, event, halves, noise>>
    BY <1>3 DEF K!ResetFlag, K!ResetStore, ResetStore, K!consoleVars, K!At, At,
         K!Step, Step, K!streamVars, streamVars, K!opVars, opVars, K!GiveCause,
         GiveCause, K!InProgress, InProgress, K!Callers, Callers, K!Dir, Dir
  <2>2. \A e \in Directions : /\ Resets(<<Step("zero", d)>>, e) => e = d
                              /\ ~ Resets(<<>>, e)
    BY RestResets
  <2> QED BY <1>1, <2>1, <2>2, ResetIsMethod
<1> USE DEF K!consoleVars, K!streamVars, K!opVars, K!At, K!Directions, Directions,
            MethodMoves, CausesGiven, K!GiveCause, GiveCause, K!Advance, Advance,
            K!InProgress, InProgress, K!Callers, Callers, K!Dir, Dir
<1>4. ASSUME NEW d \in Directions, K!CloseEvent(x, d)
      PROVE  /\ MethodMoves(x, ConsoleSteps) /\ UNCHANGED <<req, halves, noise>>
             /\ event' = [event EXCEPT ![d] = "closed"]
  BY <1>4 DEF K!CloseEvent
<1>5. CASE K!CancelSignal(x)
  BY <1>5 DEF K!CancelSignal
<1>6. CASE K!CancelAbort(x)
  BY <1>6 DEF K!CancelAbort, K!Aborted, Aborted, K!Pending, Pending, K!Done,
       Done
<1>7. CASE K!ResetSignal(x)
  BY <1>7 DEF K!ResetSignal
<1>8. CASE K!CloseObject(x)
  BY <1>8 DEF K!CloseObject, K!CloseStream
<1> QED BY <1>2, <1>3, <1>4, <1>5, <1>6, <1>7, <1>8 DEF K!Manage

LEMMA ConsoleMethods ==
  \A s \in K!Methods \cup {K!Close} : s \in Seq([op : ConsoleSteps, dir : Directions])
<1> DEFINE S == [op : ConsoleSteps, dir : Directions]
           Ends3 == <<Step("event", "read"), Step("event", "write"),
                      Step("object", "read")>>
<1>1. /\ \A s \in Methods : s \in Seq(S)
      /\ Ends3 \in Seq(S)
  <2>1. \A s \in Methods : s \in Seq(S)
    BY MethodsAreSteps DEF ConsoleSteps
  <2>2. Ends3 \in Seq(S)
    BY DEF ConsoleSteps, Directions, Step
  <2> QED BY <2>1, <2>2
<1>2. K!Methods = Methods /\ K!Close = Cancel \o Ends3
  BY DEF K!Methods, Methods, K!Close, K!CancelReads, CancelReads,
       K!CancelWrites, CancelWrites, K!Cancel, Cancel, K!ResetReader,
       ResetReader, K!ResetWriter, ResetWriter, K!Reset, Reset, K!Step, Step
<1>3. Cancel \in Seq(S)
  BY <1>1 DEF Methods
<1>4. K!Close \in Seq(S)
  BY <1>1, <1>2, <1>3, ConcatProperties
<1> QED BY <1>1, <1>2, <1>4

LEMMA ConsoleUsed ==
  ASSUME ConsoleInv, K!Environment
  PROVE  /\ (\E c \in Callers : Calls(c) /\ K!BeginOperation(c)) \/ OthersMove(ConsoleSteps)
            \/ UNCHANGED <<opVars, job, streamVars, canceled>>
         /\ UNCHANGED <<req, event, halves>>
         /\ noise' \in 0..MaxNoise
<1> USE DEF K!consoleVars, ConsoleInv, ConsoleTyped
<1>1. ASSUME NEW c \in Callers, K!BeginOperation(c)
      PROVE  Calls(c) /\ UNCHANGED <<req, event, halves, noise>>
  <2> PICK k \in {"none", "live"}, l \in Lengths(c) :
         K!Begin(c, k, l, \/ k = "none" /\ canceled[Dir(c)]
                          \/ c \in Readers /\ K!LeftOver)
    BY <1>1 DEF K!BeginOperation, K!Lengths, Lengths, K!Dir, Dir
  <2> DEFINE b == \/ k = "none" /\ canceled[Dir(c)]
                  \/ c \in Readers /\ K!LeftOver
  <2>1. Begin(c, k, l, b)
    BY DEF K!Begin, Begin, K!ResetPending, ResetPending, K!Resets, Resets,
         K!Dir, Dir, K!NoResult, NoResult, K!streamVars, streamVars
  <2>2. b \in BOOLEAN
    OBVIOUS
  <2> QED BY <1>1, <2>1, <2>2 DEF Calls, K!BeginOperation
<1>2. ASSUME NEW c \in Callers, K!Expire(c) /\ UNCHANGED <<canceled, req, K!consoleVars>>
      PROVE  OthersMove(ConsoleSteps) /\ UNCHANGED <<req, event, halves, noise>>
  BY <1>2 DEF K!Expire, Expire, K!streamVars, streamVars, OthersMove
<1>3. ASSUME NEW x \in Cancelers, NEW s \in K!Methods \cup {K!Close},
             K!StartMethod(x, s) /\ UNCHANGED <<canceled, req, K!consoleVars>>
      PROVE  OthersMove(ConsoleSteps) /\ UNCHANGED <<req, event, halves, noise>>
  <2>1. s \in Seq([op : ConsoleSteps, dir : Directions])
    BY ConsoleMethods
  <2>2. StartMethod(x, s)
    BY <1>3 DEF K!StartMethod, StartMethod, K!Directions, Directions, K!Resets,
         Resets, K!InProgress, InProgress, K!Callers, Callers, K!Dir, Dir,
         K!opVars, opVars, K!streamVars, streamVars
  <2> QED BY <1>3, <2>1, <2>2 DEF OthersMove
<1>4. CASE /\ K!Arrive \/ K!Leave
           /\ UNCHANGED <<K!opVars, job, canceled, req, K!consoleVars>>
  BY <1>4 DEF Peer, K!Arrive, Arrive, K!Leave, Leave, K!opVars, opVars,
       OthersMove
<1>5. CASE K!Fidget
  BY <1>5, NoiseAssumption DEF NoiseAssumption, K!Fidget, K!opVars, opVars,
     K!streamVars, streamVars
<1>6. K!Callers = Callers
  BY DEF K!Callers, Callers
<1> QED BY <1>1, <1>2, <1>3, <1>4, <1>5, <1>6 DEF K!Environment

LEMMA ConsoleInit == K!Init => ConsoleInv
<1> SUFFICES ASSUME K!Init PROVE ConsoleInv
  OBVIOUS
<1>1. OperationInit /\ StreamInit /\ FlagInit /\ RequestInit
  BY DEF K!Init, K!OperationInit, OperationInit, K!StreamInit, StreamInit,
       K!FlagInit, FlagInit, K!Callers, Callers, K!Directions, Directions,
       K!NoResult, NoResult, K!RequestInit, RequestInit, K!NoRequest, NoRequest
<1>2. ConsoleTyped
  BY NoiseAssumption DEF NoiseAssumption, K!Init, ConsoleTyped, K!Directions,
       Directions
<1>3. \A c \in Callers : ConsoleAccount(c)
  BY <1>1 DEF OperationInit, RequestInit, NoRequest, ConsoleAccount, Account,
       Early
<1> QED BY <1>1, <1>2, <1>3, TypedInit, JobsInit, RequestsInit DEF ConsoleInv

LEMMA ConsoleStep == ConsoleInv /\ [K!Next]_(K!vars) => ConsoleInv'
<1> SUFFICES ASSUME ConsoleInv, [K!Next]_(K!vars) PROVE ConsoleInv'
  OBVIOUS
<1>0. Typed /\ Jobs(ConsoleSteps) /\ RequestTypeOK /\ ConsoleTyped
      /\ \A c \in Callers : ConsoleAccount(c)
  BY DEF ConsoleInv
<1>1. ASSUME NEW c \in Callers, K!Watch(c) PROVE ConsoleInv'
  <2>1. Typed' /\ job' = job
    BY <1>0, <1>1, ConsoleWatches, TypedWatcher DEF WatcherMoves
  <2>2. \A a \in Callers : ConsoleAccount(a)'
    BY <1>0, <1>1, ConsoleWatches, OthersCountNothing, ConsoleStays
  <2>3. RequestTypeOK' /\ ConsoleTyped'
    BY <1>0, <1>1, ConsoleWatches, RequestsChange
       DEF ConsoleTyped, K!SetReadEvent, Directions
  <2> QED BY <1>0, <2>1, <2>2, <2>3 DEF ConsoleInv, Jobs
<1>2. ASSUME NEW x \in Cancelers, K!Manage(x) PROVE ConsoleInv'
  <2>1. Typed' /\ Jobs(ConsoleSteps)'
    BY <1>0, <1>2, ConsoleManages, TypedMethod
  <2>2. \A a \in Callers : ConsoleAccount(a)'
    BY <1>0, <1>2, ConsoleManages, OthersCountNothing, ConsoleStays
  <2>3. RequestTypeOK'
    BY <1>0, <1>2, ConsoleManages, RequestsChange DEF RequestTypeOK, Aborted,
         Done
  <2>4. ConsoleTyped'
    BY <1>0, <1>2, ConsoleManages
       DEF ConsoleTyped, K!SetReadEvent, K!ResetReadEvent, Directions
  <2> QED BY <2>1, <2>2, <2>3, <2>4 DEF ConsoleInv
<1>3. CASE K!Environment
  <2>1. Typed' /\ Jobs(ConsoleSteps)'
    BY <1>0, <1>3, ConsoleUsed, TypedUser, TypedStays DEF Jobs
  <2>2. \A a \in Callers : ConsoleAccount(a)'
    <3>1. ASSUME NEW c \in Callers, Calls(c) PROVE \A a \in Callers : ConsoleAccount(a)'
      <4>1. OnlyOf(c) /\ Account(c)' /\ req' = req
        BY <1>0, <1>3, <3>1, ConsoleUsed, AccountCall
      <4>2. pc[c] = "idle" /\ pc'[c] = "check" /\ part'[c] = 0
        BY <1>0, <3>1 DEF Calls, Begin, Typed, OperationTypeOK
      <4>3. ConsoleAccount(c)'
        BY <1>0, <4>1, <4>2 DEF ConsoleAccount, Account
      <4> QED BY <1>0, <4>1, <4>3, ConsoleOfOne
    <3>2. ASSUME UNCHANGED <<pc, len, out, part, moved>>
          PROVE  \A a \in Callers : ConsoleAccount(a)'
      BY <1>0, <1>3, <3>2, ConsoleUsed, ConsoleStays
    <3> QED BY <1>0, <1>3, <3>1, <3>2, ConsoleUsed, OthersCountNothing DEF
           opVars
  <2>3. RequestTypeOK' /\ ConsoleTyped'
    BY <1>0, <1>3, ConsoleUsed DEF RequestTypeOK, ConsoleTyped, ConsoleInv
  <2> QED BY <2>1, <2>2, <2>3 DEF ConsoleInv
<1>4. CASE UNCHANGED K!vars
  <2>1. UNCHANGED <<opVars, streamVars, job, canceled, req, event, halves, noise>>
    BY <1>4 DEF K!vars, K!opVars, opVars, K!streamVars, streamVars,
         K!consoleVars
  <2>2. Typed' /\ \A a \in Callers : ConsoleAccount(a)'
    BY <1>0, <2>1, TypedStays, ConsoleStays DEF opVars
  <2> QED BY <1>0, <2>1, <2>2 DEF ConsoleInv, Jobs, RequestTypeOK, ConsoleTyped
<1>5. K!Callers = Callers
  BY DEF K!Callers, Callers
<1> QED BY <1>1, <1>2, <1>3, <1>4, <1>5, ConsoleOperate, ConsoleServe
        DEF K!Next, K!System

-----------------------------------------------------------------------------
(* Why ErrCanceled has a reason.  First what the goroutines know: a watcher  *)
(* calls CancelReads only for a context that is done, and a reset by a       *)
(* canceler does not run during an operation of that direction.              *)
WatchInv ==
  \A c \in Callers :
    /\ watch[c] # "off" => pc[c] \notin {"idle", "check", "reset", "drain"}
    /\ watch[c] \in {"fired", "signaling", "aborting"} => ctx[c] = "done"

ResetInv ==
  \A x \in Cancelers : \A d \in Directions :
    Resets(job[x], d) => InProgress(d) = {}

(* A flag that an operation finds set is a reason for it; but for those that *)
(* are about to reset it, which are at one of the places P.                  *)
CauseInv(P) ==
  \A c \in Callers : pc[c] # "idle" =>
    /\ ctx[c] = "done" => cause[c]
    /\ canceled[Dir(c)] => cause[c] \/ (ctx[c] = "live" /\ pc[c] \in P)

Testing == {"check", "reset"}

(* The steps of an operation that is past the tests.                         *)
Beyond(c) ==
  /\ pc[c] \notin {"idle", "check", "reset", "drain"}
  /\ pc' = pc \/ \E s \in States \ {"idle", "check", "reset", "drain"} :
                   pc' = [pc EXCEPT ![c] = s]
  /\ UNCHANGED <<job, ctx, watch, cause, canceled>>

(* All other steps but the tests.                                            *)
Around(ops) ==
  \/ \E c \in Callers : Beyond(c) \/ WatcherMoves(c)
  \/ \E x \in Cancelers : MethodMoves(x, ops)
  \/ OthersMove(ops)
  \/ UNCHANGED <<pc, job, ctx, watch, cause, canceled>>

LEMMA WatchKept ==
  ASSUME Typed, NEW ops, WatchInv,
         Around(ops) \/ \E c \in Callers : Tests(c) \/ Calls(c)
  PROVE  WatchInv'
<1> USE DEF WatchInv, Typed, OperationTypeOK
<1>1. ASSUME UNCHANGED <<pc, watch, ctx>> PROVE WatchInv'
  BY <1>1
<1>2. ASSUME NEW c \in Callers, Tests(c) PROVE WatchInv'
  BY <1>2 DEF Tests, FlagTests, Check, ContextStore, ContextUndo, Return, Ends,
       Proceed, Settled
<1>3. ASSUME NEW c \in Callers, Calls(c) PROVE WatchInv'
  BY <1>3 DEF Calls, Begin
<1>4. ASSUME NEW c \in Callers, Beyond(c) PROVE WatchInv'
  BY <1>4 DEF Beyond
<1>5. ASSUME NEW c \in Callers, WatcherMoves(c) PROVE WatchInv'
  BY <1>5 DEF WatcherMoves
<1>6. ASSUME NEW x \in Cancelers, MethodMoves(x, ops) PROVE WatchInv'
  BY <1>1, <1>6 DEF MethodMoves
<1>7. CASE OthersMove(ops)
  BY <1>1, <1>7 DEF OthersMove, Expire, StartMethod, opVars
<1> QED BY <1>1, <1>2, <1>3, <1>4, <1>5, <1>6, <1>7 DEF Around

LEMMA CauseAround ==
  ASSUME OneEach, Typed, NEW ops, WatchInv, NEW P, P \subseteq Testing, CauseInv(P),
         Around(ops)
  PROVE  CauseInv(P)'
<1> USE DEF CauseInv, Typed, OperationTypeOK
<1>1. ASSUME UNCHANGED <<pc, ctx, canceled>>, \A c \in Callers : cause[c] => cause'[c]
      PROVE  CauseInv(P)'
  BY <1>1
<1>2. CausesGiven => \A c \in Callers : cause[c] => cause'[c]
  BY DEF CausesGiven, GiveCause, GiveCauseToAll
<1>3. ASSUME NEW c \in Callers, Beyond(c) PROVE CauseInv(P)'
  BY <1>3 DEF Beyond, Testing
<1>4. ASSUME NEW c \in Callers, WatcherMoves(c) PROVE CauseInv(P)'
  <2>1. CASE canceled' = canceled
    BY <1>1, <1>2, <1>4, <2>1 DEF WatcherMoves
  <2>2. CASE watch[c] = "fired" /\ canceled' = [canceled EXCEPT ![Dir(c)] = TRUE]
    <3>1. cause'[c] /\ UNCHANGED <<pc, ctx>> /\ \A e \in Callers : cause[e] => cause'[e]
      BY <1>2, <1>4, <2>2 DEF WatcherMoves, WatchInv
    <3>2. \A e \in Callers \ {c} : canceled'[Dir(e)] = canceled[Dir(e)]
      BY <2>2, CallersHaveDirections DEF OneEach
    <3> QED BY <3>1, <3>2
  <2> QED BY <1>4, <2>1, <2>2 DEF WatcherMoves
<1>5. ASSUME NEW x \in Cancelers, MethodMoves(x, ops) PROVE CauseInv(P)'
  <2>1. UNCHANGED <<pc, ctx>> /\ \A e \in Callers : cause[e] => cause'[e]
    BY <1>2, <1>5 DEF MethodMoves
  <2>2. CASE canceled' = canceled
    BY <1>1, <2>1, <2>2
  <2>3. ASSUME NEW d \in Directions, canceled' = [canceled EXCEPT ![d] = FALSE]
        PROVE  CauseInv(P)'
    BY <2>1, <2>3, CallersHaveDirections
  <2>4. ASSUME NEW d \in Directions, canceled' = [canceled EXCEPT ![d] = TRUE],
               GiveCause(d)
        PROVE  CauseInv(P)'
    <3>1. \A e \in Callers : Dir(e) = d /\ pc[e] # "idle" => cause'[e]
      BY <2>4 DEF GiveCause, InProgress
    <3> QED BY <2>1, <2>4, <3>1, CallersHaveDirections
  <2> QED BY <1>5, <2>2, <2>3, <2>4 DEF MethodMoves
<1>6. CASE OthersMove(ops)
  <2>1. CASE \E c \in Callers : Expire(c)
    BY <1>6, <2>1 DEF OthersMove, Expire
  <2>2. CASE UNCHANGED opVars
    BY <1>1, <1>6, <2>2 DEF OthersMove, opVars
  <2> QED BY <1>6, <2>1, <2>2 DEF OthersMove, StartMethod
<1> QED BY <1>1, <1>3, <1>4, <1>5, <1>6 DEF Around

LEMMA CauseTests ==
  ASSUME Typed, CauseInv(Testing), NEW c \in Callers, FlagTests(c)
  PROVE  CauseInv(Testing)'
<1> USE CallersHaveDirections DEF CauseInv, Testing, Typed, OperationTypeOK
<1>1. CASE Check(c)
  BY <1>1 DEF Check, Settled, Proceed
<1>2. CASE ContextStore(c)
  BY <1>2 DEF ContextStore
<1>3. CASE ContextUndo(c)
  BY <1>3 DEF ContextUndo, Proceed
<1>4. CASE Return(c) /\ UNCHANGED canceled
  BY <1>4 DEF Return
<1> QED BY <1>1, <1>2, <1>3, <1>4 DEF FlagTests

LEMMA CauseCalls ==
  ASSUME Typed, CauseInv(Testing), NEW c \in Callers, Calls(c)
  PROVE  CauseInv(Testing)'
<1> PICK k \in {"none", "live"}, b \in BOOLEAN :
       /\ pc' = [pc EXCEPT ![c] = "check"]
       /\ ctx' = [ctx EXCEPT ![c] = k]
       /\ cause' = [cause EXCEPT ![c] = b]
       /\ k = "none" /\ canceled[Dir(c)] => b
  BY DEF Calls, Begin
<1> QED BY DEF Calls, CauseInv, Testing, Typed, OperationTypeOK

(* No reset by a canceler comes into an operation.                           *)
LEMMA ResetsOfTail ==
  ASSUME NEW T, NEW s \in Seq(T), s # <<>>, NEW d, Resets(Tail(s), d)
  PROVE  Resets(s, d)
<1>1. PICK i \in DOMAIN Tail(s) :
        Tail(s)[i].op \in {"reset", "zero"} /\ Tail(s)[i].dir = d
  BY DEF Resets
<1>2. /\ Len(Tail(s)) = Len(s) - 1 /\ Len(s) \in Nat
      /\ DOMAIN Tail(s) = 1..Len(Tail(s)) /\ DOMAIN s = 1..Len(s)
      /\ \A j \in 1..Len(Tail(s)) : Tail(s)[j] = s[j + 1]
  BY HeadTailProperties, LenProperties
<1>3. i + 1 \in DOMAIN s /\ Tail(s)[i] = s[i + 1]
  BY <1>2
<1> QED BY <1>1, <1>3 DEF Resets

LEMMA ResetsOfConcat ==
  ASSUME NEW T, NEW r \in Seq(T), NEW s \in Seq(T), NEW d, Resets(r \o s, d)
  PROVE  Resets(r, d) \/ Resets(s, d)
<1>1. PICK i \in DOMAIN (r \o s) :
        (r \o s)[i].op \in {"reset", "zero"} /\ (r \o s)[i].dir = d
  BY DEF Resets
<1>2. /\ Len(r) \in Nat /\ Len(s) \in Nat /\ Len(r \o s) = Len(r) + Len(s)
      /\ DOMAIN r = 1..Len(r) /\ DOMAIN s = 1..Len(s)
      /\ DOMAIN (r \o s) = 1..Len(r \o s)
      /\ \A j \in 1..Len(r) + Len(s) :
           (r \o s)[j] = IF j <= Len(r) THEN r[j] ELSE s[j - Len(r)]
  BY ConcatProperties, LenProperties
<1>3. CASE i <= Len(r)
  BY <1>1, <1>2, <1>3 DEF Resets
<1>4. CASE i > Len(r)
  <2>1. i - Len(r) \in DOMAIN s /\ (r \o s)[i] = s[i - Len(r)]
    BY <1>2, <1>4
  <2> QED BY <1>1, <2>1 DEF Resets
<1> QED BY <1>2, <1>3, <1>4

LEMMA ResetsOfHead ==
  ASSUME NEW ops, Jobs(ops), NEW x \in Cancelers, NEW d, At(x, "reset", d)
  PROVE  Resets(job[x], d)
<1>1. job[x] \in Seq([op : ops, dir : Directions])
  BY DEF Jobs
<1>2. job[x] # <<>> /\ Head(job[x]) = Step("reset", d)
  BY DEF At
<1>3. 1 \in DOMAIN job[x] /\ job[x][1] = Head(job[x])
  <2> DEFINE T == [op : ops, dir : Directions]
  <2>1. job[x] \in Seq(T)
    BY <1>1
  <2> HIDE DEF T
  <2>2. /\ Len(job[x]) \in Nat /\ Len(job[x]) # 0 /\ DOMAIN job[x] = 1..Len(job[x])
    BY <1>2, <2>1, LenProperties, EmptySeq
  <2>3. Head(job[x]) = job[x][1]
    BY <1>2, <2>1
  <2> QED BY <2>2, <2>3
<1> QED BY <1>2, <1>3 DEF Resets, Step

LEMMA ResetMethods ==
  ASSUME NEW ops, Jobs(ops), ResetInv, NEW x \in Cancelers, MethodMoves(x, ops)
  PROVE  ResetInv'
<1> DEFINE S == [op : ops, dir : Directions]
<1>1. job[x] \in Seq(S) /\ job[x] # <<>> /\ Tail(job[x]) \in Seq(S) /\ pc' = pc
  BY HeadTailProperties DEF Jobs, MethodMoves
<1>2. ASSUME NEW d \in Directions, Resets(job'[x], d) PROVE Resets(job[x], d)
  <2>1. CASE Advance(x)
    BY <1>1, <1>2, <2>1, ResetsOfTail DEF Jobs, Advance
  <2>2. ASSUME NEW rest \in Seq(S), job' = [job EXCEPT ![x] = rest \o Tail(@)],
               Resets(rest, d) => At(x, "reset", d)
        PROVE  Resets(job[x], d)
    <3>1. job'[x] = rest \o Tail(job[x])
      BY <2>2 DEF Jobs
    <3>2. Resets(rest, d) \/ Resets(Tail(job[x]), d)
      BY <1>1, <1>2, <3>1, ResetsOfConcat
    <3> QED BY <1>1, <2>2, <3>2, ResetsOfTail, ResetsOfHead
  <2> QED BY <2>1, <2>2 DEF MethodMoves
<1>3. \A y \in Cancelers \ {x} : job'[y] = job[y]
  BY DEF MethodMoves, Advance, Jobs
<1>4. ASSUME NEW y \in Cancelers, NEW d \in Directions, Resets(job'[y], d)
      PROVE  Resets(job[y], d)
  BY <1>2, <1>3, <1>4
<1> QED BY <1>1, <1>4 DEF ResetInv, InProgress

LEMMA ResetKept ==
  ASSUME Typed, NEW ops, Jobs(ops), ResetInv,
         Around(ops) \/ \E c \in Callers : Tests(c) \/ Calls(c)
  PROVE  ResetInv'
<1>1. ASSUME UNCHANGED job, \A c \in Callers : pc'[c] # "idle" => pc[c] # "idle"
      PROVE  ResetInv'
  BY <1>1 DEF ResetInv, InProgress, Resets
<1>2. ASSUME NEW c \in Callers, Tests(c) \/ Beyond(c) \/ WatcherMoves(c)
      PROVE  UNCHANGED job /\ \A e \in Callers : pc'[e] # "idle" => pc[e] # "idle"
  BY <1>2 DEF Tests, FlagTests, Check, ContextStore, ContextUndo, Return, Ends,
       Proceed, Settled, Beyond, WatcherMoves, Typed, OperationTypeOK
<1>3. ASSUME NEW c \in Callers, Calls(c) PROVE ResetInv'
  BY <1>3 DEF ResetInv, Calls, Begin, ResetPending, InProgress, Resets, Typed,
     OperationTypeOK
<1>4. ASSUME NEW x \in Cancelers, NEW s, StartMethod(x, s) PROVE ResetInv'
  <2>1. \A d \in Directions : Resets(s, d) => InProgress(d) = {}
    BY <1>4 DEF StartMethod
  <2>2. UNCHANGED pc /\ job' = [job EXCEPT ![x] = s]
    BY <1>4 DEF StartMethod, opVars
  <2> QED BY <2>1, <2>2 DEF ResetInv, Jobs, InProgress
<1>5. CASE OthersMove(ops)
  BY <1>1, <1>4, <1>5 DEF OthersMove, Expire, opVars
<1> QED BY <1>1, <1>2, <1>3, <1>5, ResetMethods DEF Around

-----------------------------------------------------------------------------
(* The cancel events of Windows: an event that one of S finds set is a       *)
(* reason for it, but for a ReadContext that is about to reset it.           *)
EventInv(S) ==
  \A c \in S : pc[c] # "idle" /\ event[Dir(c)] = "set" =>
    \/ cause[c]
    \/ ctx[c] = "live" /\ \/ pc[c] = "check" /\ canceled[Dir(c)]
                          \/ pc[c] \in {"reset", "drain"}

(* Nobody sets it without a reason.                                          *)
Reasoned(S) ==
  \A c \in S : pc'[c] # "idle" /\ event'[Dir(c)] = "set" =>
    event[Dir(c)] = "set" \/ cause'[c]

LEMMA EventAround ==
  ASSUME OneEach, Typed, NEW ops, Jobs(ops), ResetInv, NEW S \in SUBSET Callers,
         EventInv(S), Around(ops), Reasoned(S)
  PROVE  EventInv(S)'
<1> USE DEF EventInv, Reasoned, Typed, OperationTypeOK
<1>1. ASSUME UNCHANGED <<pc, ctx>>, \A c \in Callers : cause[c] => cause'[c],
             \A c \in S : canceled[Dir(c)] => canceled'[Dir(c)] \/ pc[c] = "idle"
      PROVE  EventInv(S)'
  BY <1>1
<1>2. CausesGiven => \A c \in Callers : cause[c] => cause'[c]
  BY DEF CausesGiven, GiveCause, GiveCauseToAll
<1>3. ASSUME NEW c \in Callers, Beyond(c) PROVE EventInv(S)'
  BY <1>3 DEF Beyond
<1>4. ASSUME NEW c \in Callers, WatcherMoves(c) PROVE EventInv(S)'
  BY <1>1, <1>2, <1>4, CallersHaveDirections DEF WatcherMoves
<1>5. ASSUME NEW x \in Cancelers, MethodMoves(x, ops) PROVE EventInv(S)'
  <2>1. UNCHANGED <<pc, ctx>> /\ \A e \in Callers : cause[e] => cause'[e]
    BY <1>2, <1>5 DEF MethodMoves
  <2>2. ASSUME NEW d \in Directions, canceled' = [canceled EXCEPT ![d] = FALSE],
               At(x, "reset", d)
        PROVE  EventInv(S)'
    <3>1. InProgress(d) = {}
      BY <2>2, ResetsOfHead DEF ResetInv
    <3>2. \A c \in S : Dir(c) = d => pc[c] = "idle"
      BY <3>1 DEF InProgress
    <3> QED BY <1>1, <2>1, <2>2, <3>2, CallersHaveDirections
  <2>3. ASSUME NEW d \in Directions,
               canceled' = canceled \/ canceled' = [canceled EXCEPT ![d] = TRUE]
        PROVE  EventInv(S)'
    BY <1>1, <2>1, <2>3, CallersHaveDirections
  <2>4. "read" \in Directions
    BY DEF Directions
  <2> QED BY <1>5, <2>2, <2>3, <2>4 DEF MethodMoves
<1>6. CASE OthersMove(ops)
  <2>1. CASE \E c \in Callers : Expire(c)
    BY <1>6, <2>1 DEF OthersMove, Expire
  <2>2. CASE UNCHANGED opVars
    BY <1>1, <1>6, <2>2 DEF OthersMove, opVars
  <2> QED BY <1>6, <2>1, <2>2 DEF OthersMove, StartMethod
<1> QED BY <1>1, <1>3, <1>4, <1>5, <1>6 DEF Around

LEMMA EventTests ==
  ASSUME OneEach, Typed, CauseInv(Testing), NEW S \in SUBSET Callers, EventInv(S),
         NEW c \in Callers, FlagTests(c),
         \A e \in S : event'[Dir(e)] = "set" => event[Dir(e)] = "set",
         ContextUndo(c) /\ c \in S => event'[Dir(c)] # "set"
  PROVE  EventInv(S)'
<1> USE CallersHaveDirections DEF EventInv, Typed, OperationTypeOK
<1>1. CASE Check(c)
  BY <1>1 DEF Check, Settled, Proceed, CauseInv, Testing
<1>2. CASE ContextStore(c)
  <2>1. \A e \in Callers \ {c} : canceled'[Dir(e)] = canceled[Dir(e)]
    BY <1>2 DEF ContextStore, OneEach
  <2> QED BY <1>2, <2>1 DEF ContextStore
<1>3. CASE ContextUndo(c)
  BY <1>3 DEF ContextUndo, Proceed
<1>4. CASE Return(c) /\ UNCHANGED canceled
  BY <1>4 DEF Return
<1> QED BY <1>1, <1>2, <1>3, <1>4 DEF FlagTests

(* A call that finds it set: the flag is set as well, or it was left over.   *)
LEMMA EventCalls ==
  ASSUME Typed, NEW S \in SUBSET Callers, EventInv(S), event' = event,
         canceled' = canceled,
         NEW c \in Callers, NEW k \in {"none", "live"}, NEW l, NEW b, Begin(c, k, l, b),
         c \in S /\ event[Dir(c)] = "set" => b \/ (k = "live" /\ canceled[Dir(c)])
  PROVE  EventInv(S)'
BY DEF Begin, EventInv, Typed, OperationTypeOK

-----------------------------------------------------------------------------
(* The refinement of ContextIO: the phase of a call is a function of its pc. *)
Phase(q) == CASE q = "idle" -> "idle"
              [] q = "join" -> "done"
              [] OTHER -> "busy"

KeepsPromise == [Promise!ContextNext]_Promise!contextVars
KeepsCounts  == [Counts!ContextNext]_Counts!contextVars

LEMMA PromiseKeepsCounts ==
  ASSUME KeepsPromise
  PROVE  KeepsCounts
<1>1. CASE UNCHANGED Promise!contextVars
  BY <1>1 DEF KeepsCounts, Promise!contextVars, Counts!contextVars
<1>2. CASE Promise!Disturb
  <2>1. Counts!Disturb
    BY <1>2 DEF Promise!Disturb, Counts!Disturb
  <2> QED BY <2>1 DEF KeepsCounts, Counts!ContextNext
<1>3. ASSUME NEW c \in Callers, Promise!Call(c) PROVE KeepsCounts
  <2>1. Counts!Call(c)
    BY <1>3 DEF Promise!Call, Counts!Call, Promise!NoResult, Counts!NoResult
  <2> QED BY <2>1 DEF KeepsCounts, Counts!ContextNext
<1>4. ASSUME NEW c \in Callers, Promise!Finish(c) PROVE KeepsCounts
  <2>1. Counts!Finish(c)
    BY <1>4 DEF Promise!Finish, Counts!Finish
  <2> QED BY <2>1 DEF KeepsCounts, Counts!ContextNext
<1>5. ASSUME NEW c \in Callers, NEW k \in 0..MaxLen, Promise!Transfer(c, k)
      PROVE  KeepsCounts
  <2>1. Counts!Transfer(c, k)
    BY <1>5 DEF Promise!Transfer, Counts!Transfer
  <2> QED BY <2>1 DEF KeepsCounts, Counts!ContextNext
<1>6. ASSUME NEW c \in Callers, NEW k \in 0..MaxLen, NEW err \in Promise!Errors,
             Promise!Settle(c, k, err)
      PROVE  KeepsCounts
  <2>1. Counts!Settle(c, k, err)
    BY <1>6 DEF Promise!Settle, Counts!Settle
  <2> QED BY <2>1 DEF KeepsCounts, Counts!ContextNext, Promise!Errors,
         Counts!Errors
<1> QED BY <1>1, <1>2, <1>3, <1>4, <1>5, <1>6 DEF KeepsPromise,
       Promise!ContextNext

LEMMA Stutters ==
  ASSUME UNCHANGED <<cause, moved, out>>,
         \A c \in Callers : Phase(pc'[c]) = Phase(pc[c])
  PROVE  KeepsPromise
BY DEF KeepsPromise, Promise!contextVars, Phase

LEMMA GoesOn ==
  ASSUME Typed, NEW c \in Callers, Phase(pc[c]) = "busy",
         NEW q \in States, q \notin {"idle", "join"},
         pc' = [pc EXCEPT ![c] = q], UNCHANGED <<cause, moved, out>>
  PROVE  KeepsPromise
<1>1. \A e \in Callers : Phase(pc'[e]) = Phase(pc[e])
  BY DEF Phase, Typed, OperationTypeOK
<1> QED BY <1>1, Stutters

(* An operation returns with its last k bytes.                               *)
LEMMA SettlesWith ==
  ASSUME Typed, NEW c \in Callers, Phase(pc[c]) = "busy", NEW k \in 0..MaxLen,
         NEW e \in {"nil", "canceled", "eof", "error"}, e = "canceled" => cause[c],
         moved' = [moved EXCEPT ![c] = moved[c] + k], UNCHANGED cause,
         \/ Settled(c, e, moved[c] + k)
         \/ c \in Writers /\ e \in Forgotten /\ Settled(c, e, 0)
  PROVE  KeepsPromise
<1>1. Promise!Settle(c, k, e)
  <2>1. CASE Settled(c, e, moved[c] + k)
    BY <2>1 DEF Promise!Settle, Settled, Phase, Typed, OperationTypeOK
  <2>2. CASE c \in Writers /\ e \in Forgotten /\ Settled(c, e, 0)
    BY <2>2 DEF Promise!Settle, Settled, Phase, Typed,
         OperationTypeOK
  <2> QED BY <2>1, <2>2
<1> QED BY <1>1 DEF KeepsPromise, Promise!ContextNext, Promise!Errors

(* It returns what it has moved before, or 0 from a write that may.          *)
LEMMA Settles ==
  ASSUME Typed, NEW c \in Callers, Phase(pc[c]) = "busy",
         NEW e \in {"nil", "canceled", "eof", "error"}, e = "canceled" => cause[c],
         UNCHANGED <<moved, cause>>,
         \/ Settled(c, e, moved[c])
         \/ c \in Writers /\ e \in Forgotten /\ Settled(c, e, 0)
  PROVE  KeepsPromise
<1>1. /\ 0 \in 0..MaxLen /\ moved[c] + 0 = moved[c]
      /\ moved' = [moved EXCEPT ![c] = moved[c] + 0]
  BY OperationAssumption DEF OperationAssumption, Typed, OperationTypeOK
<1>2. Settled(c, e, moved[c]) => Settled(c, e, moved[c] + 0)
  BY <1>1
<1> QED BY <1>1, <1>2, SettlesWith

(* ErrCanceled: the count is right, and with a reason it keeps the promise.  *)
LEMMA SettlesCanceled ==
  ASSUME Typed, NEW c \in Callers, Phase(pc[c]) = "busy",
         moved[c] = 0 \/ (c \in Writers /\ "canceled" \in Forgotten),
         Settled(c, "canceled", 0), UNCHANGED <<moved, cause>>
  PROVE  KeepsCounts /\ (cause[c] => KeepsPromise)
<1>1. cause[c] => KeepsPromise
  BY Settles
<1>2. /\ 0 \in 0..MaxLen /\ moved[c] + 0 = moved[c]
      /\ moved' = [moved EXCEPT ![c] = moved[c] + 0]
  BY OperationAssumption DEF OperationAssumption, Typed, OperationTypeOK
<1>3. Counts!Settle(c, 0, "canceled")
  BY <1>2 DEF Counts!Settle, Settled, Phase, Typed, OperationTypeOK
<1>4. KeepsCounts
  BY <1>2, <1>3 DEF KeepsCounts, Counts!ContextNext, Counts!Errors
<1> QED BY <1>1, <1>4

LEMMA Transfers ==
  ASSUME NEW c \in Callers, Phase(pc[c]) = "busy", NEW k \in 0..MaxLen,
         moved' = [moved EXCEPT ![c] = moved[c] + k], UNCHANGED <<pc, cause, out>>
  PROVE  KeepsPromise
<1>1. Promise!Transfer(c, k)
  BY DEF Promise!Transfer, Phase
<1> QED BY <1>1 DEF KeepsPromise, Promise!ContextNext

LEMMA Disturbs ==
  ASSUME NEW S \in SUBSET Callers, UNCHANGED <<pc, moved, out>>,
         cause' = [c \in Callers |-> cause[c] \/ c \in S]
  PROVE  KeepsPromise
BY DEF KeepsPromise, Promise!ContextNext, Promise!Disturb

LEMMA CausesRefine ==
  ASSUME CausesGiven, UNCHANGED <<pc, moved, out>>
  PROVE  KeepsPromise
<1>1. CASE cause' = cause
  BY <1>1, Stutters
<1>2. ASSUME NEW d, GiveCause(d) PROVE KeepsPromise
  <2>1. InProgress(d) \in SUBSET Callers
    BY DEF InProgress
  <2> QED BY <1>2, <2>1, Disturbs DEF GiveCause
<1>3. CASE cause' = [c \in Callers |-> cause[c] \/ pc[c] # "idle"]
  <2> DEFINE S == {c \in Callers : pc[c] # "idle"}
  <2>1. cause' = [c \in Callers |-> cause[c] \/ c \in S] /\ S \in SUBSET Callers
    BY <1>3
  <2> QED BY <2>1, Disturbs
<1> QED BY <1>1, <1>2, <1>3 DEF CausesGiven, GiveCauseToAll

-----------------------------------------------------------------------------
(* The steps that the backends share.                                        *)
LEMMA TestsRefine ==
  ASSUME Typed, NEW P \in SUBSET Testing, NEW c \in Callers,
         pc[c] = "check" => moved[c] = 0,
         FlagTests(c) \/ (P = {} /\ Tests(c))
  PROVE  KeepsCounts /\ (CauseInv(P) => KeepsPromise)
<1>t. pc \in [Callers -> States]
  BY DEF Typed, OperationTypeOK, States
<1>1. ASSUME Settled(c, "canceled", 0), UNCHANGED <<moved, cause>>,
             pc[c] = "check", ctx[c] = "done" \/ canceled[Dir(c)],
             ctx[c] = "live" => P = {}
      PROVE  KeepsCounts /\ (CauseInv(P) => KeepsPromise)
  <2>1. KeepsCounts /\ (cause[c] => KeepsPromise)
    BY <1>1, SettlesCanceled DEF Phase
  <2>2. CauseInv(P) => cause[c]
    BY <1>1 DEF CauseInv
  <2> QED BY <2>1, <2>2
<1>2. ASSUME NEW q \in {"reset", "drain", "enter"}, pc' = [pc EXCEPT ![c] = q],
             UNCHANGED <<cause, moved, out>>, pc[c] \in {"check", "reset", "drain"}
      PROVE  KeepsPromise
  <2>1. Phase(pc[c]) = "busy" /\ q \in States /\ q \notin {"idle", "join"}
    BY <1>2 DEF Phase, States
  <2> QED BY <1>2, <2>1, GoesOn
<1>3. CASE Check(c)
  <2>1. \/ KeepsPromise
        \/ KeepsCounts /\ (CauseInv(P) => KeepsPromise)
    BY <1>1, <1>2, <1>3 DEF Check, Proceed
  <2> QED BY <2>1, PromiseKeepsCounts
<1>4. CASE ContextStore(c) \/ ContextUndo(c)
  BY <1>2, <1>4, PromiseKeepsCounts DEF ContextStore, ContextUndo, Proceed
<1>5. CASE Return(c)
  <2>1. Promise!Finish(c)
    BY <1>t, <1>5 DEF Return, Promise!Finish
  <2>2. KeepsPromise
    BY <2>1 DEF KeepsPromise, Promise!ContextNext
  <2> QED BY <2>2, PromiseKeepsCounts
<1>6. CASE /\ P = {} /\ pc[c] = "check"
           /\ ctx[c] = "done" \/ canceled[Dir(c)]
           /\ Ends(c, "canceled", 0)
  BY <1>1, <1>6 DEF Ends
<1>7. CASE /\ pc[c] = "check" /\ Proceed(c)
           /\ UNCHANGED <<out, cause, moved>>
  BY <1>2, <1>7, PromiseKeepsCounts DEF Proceed
<1> QED BY <1>3, <1>4, <1>5, <1>6, <1>7 DEF FlagTests, Tests

LEMMA CallsObjectRefines ==
  ASSUME Typed, NEW P \in SUBSET Testing, NEW c \in Callers,
         pc[c] = "late" => "canceled" \in Forgotten,
         Account(c), CallsObject(c)
  PROVE  KeepsCounts /\ (CauseInv(P) => KeepsPromise)
<1> USE StreamAssumption, OperationAssumption
<1>t. /\ part \in [Callers -> Nat] /\ len \in [Callers -> 0..MaxLen]
      /\ space \in 0..BufSize /\ avail \in 0..BufSize /\ moved \in [Callers -> Nat]
      /\ MaxLen \in Nat /\ BufSize \in Nat
  BY DEF Typed, OperationTypeOK, StreamTypeOK, StreamAssumption,
       OperationAssumption
<1>a. ASSUME NEW e \in {"nil", "eof", "error"}, pc[c] \in {"enter", "io", "late"},
             Ends(c, e, moved[c])
      PROVE  KeepsPromise
  <2>1. Phase(pc[c]) = "busy" /\ UNCHANGED <<moved, cause>> /\ Settled(c, e, moved[c])
    BY <1>a DEF Phase, Ends
  <2> QED BY <1>a, <2>1, Settles
<1>b. ASSUME NEW q \in {"io", "late"}, Goes(c, q), pc[c] \in {"enter", "io"}
      PROVE  KeepsPromise
  <2>1. Phase(pc[c]) = "busy" /\ q \in States /\ q \notin {"idle", "join"}
    BY <1>b DEF Phase, States
  <2> QED BY <1>b, <2>1, GoesOn DEF Goes
<1>c. /\ pc[c] \in {"io", "late"} => moved[c] = part[c] /\ (c \in Readers => part[c] = 0)
      /\ part[c] <= len[c]
      /\ pc[c] = "enter" => moved[c] = 0
  BY DEF Account, Early, Fresh
<1>1. CASE pc[c] = "enter" /\ (Goes(c, "io") \/ Ends(c, "error", 0))
  BY <1>1, <1>a, <1>b, <1>c, PromiseKeepsCounts
<1>2. CASE RwReadData(c, len[c]) /\ UNCHANGED canceled
  <2>1. PICK k \in 1..Least(len[c], avail) :
          moved' = [moved EXCEPT ![c] = k] /\ Settled(c, "nil", k)
    BY <1>2 DEF RwReadData
  <2>2. pc[c] = "io" /\ c \in Readers /\ cause' = cause
    BY <1>2 DEF RwReadData
  <2>3. k \in 0..MaxLen /\ moved[c] + k = k /\ Phase(pc[c]) = "busy"
    BY <1>t, <1>c, <2>2 DEF Least, Phase
  <2> QED BY <2>1, <2>2, <2>3, SettlesWith, PromiseKeepsCounts
<1>3. CASE \E e \in {"eof", "error"} : ReadFails(c, e) /\ Ends(c, e, 0)
  BY <1>3, <1>a, <1>c, PromiseKeepsCounts DEF ReadFails
<1>4. CASE RwWriteSome(c, len[c]) /\ UNCHANGED canceled
  <2>1. PICK k \in 1..Least(len[c] - part[c], space) :
          moved' = [moved EXCEPT ![c] = moved[c] + k]
    BY <1>4 DEF RwWriteSome
  <2>2. pc[c] = "io" /\ UNCHANGED <<pc, cause, out>>
    BY <1>4 DEF RwWriteSome
  <2>3. k \in 0..MaxLen /\ Phase(pc[c]) = "busy"
    BY <1>t, <1>c, <2>2 DEF Least, Phase
  <2> QED BY <2>1, <2>2, <2>3, Transfers, PromiseKeepsCounts
<1>5. CASE WroteAll(c, len[c]) /\ Ends(c, "nil", part[c])
  BY <1>5, <1>a, <1>c, PromiseKeepsCounts DEF WroteAll
<1>6. CASE WriteFails(c, len[c]) /\ Ends(c, "error", part[c])
  BY <1>6, <1>a, <1>c, PromiseKeepsCounts DEF WriteFails
<1>7. CASE pc[c] = "io" /\ Goes(c, "late")
  BY <1>7, <1>b, PromiseKeepsCounts
<1>8. CASE pc[c] = "late" /\ canceled[Dir(c)] /\ Ends(c, "canceled", 0)
  <2>1. /\ Settled(c, "canceled", 0) /\ UNCHANGED <<moved, cause>>
        /\ Phase(pc[c]) = "busy"
    BY <1>8 DEF Ends, Phase
  <2>2. moved[c] = 0 \/ (c \in Writers /\ "canceled" \in Forgotten)
    BY <1>8, <1>c DEF Callers
  <2>3. KeepsCounts /\ (cause[c] => KeepsPromise)
    BY <2>1, <2>2, SettlesCanceled
  <2>4. CauseInv(P) => cause[c]
    BY <1>8 DEF CauseInv, Testing
  <2> QED BY <2>3, <2>4
<1>9. CASE /\ pc[c] = "late" /\ ~ canceled[Dir(c)]
           /\ \E e \in {"eof", "error"} : Ends(c, e, part[c])
  BY <1>9, <1>a, <1>c, PromiseKeepsCounts
<1> QED BY <1>1, <1>2, <1>3, <1>4, <1>5, <1>6, <1>7, <1>8, <1>9 DEF CallsObject

LEMMA CallsRefine ==
  ASSUME Typed, NEW c \in Callers, Calls(c)
  PROVE  KeepsPromise
<1>1. PICK b \in BOOLEAN : cause' = [cause EXCEPT ![c] = b]
  BY DEF Calls, Begin
<1>2. /\ pc[c] = "idle" /\ pc' = [pc EXCEPT ![c] = "check"]
      /\ moved' = [moved EXCEPT ![c] = 0]
      /\ out' = [out EXCEPT ![c] = Promise!NoResult]
  BY DEF Calls, Begin, NoResult, Promise!NoResult
<1>3. Promise!Call(c)
  BY <1>1, <1>2 DEF Promise!Call, Typed, OperationTypeOK
<1> QED BY <1>3 DEF KeepsPromise, Promise!ContextNext

LEMMA OthersRefine ==
  ASSUME Typed, NEW ops,
         \/ \E c \in Callers : WatcherMoves(c)
         \/ \E x \in Cancelers : MethodMoves(x, ops)
         \/ OthersMove(ops)
         \/ UNCHANGED opVars
  PROVE  KeepsPromise
<1>1. ASSUME NEW c \in Callers, Expire(c) PROVE KeepsPromise
  <2>1. UNCHANGED <<pc, moved, out>> /\ cause' = [cause EXCEPT ![c] = TRUE]
    BY <1>1 DEF Expire
  <2>2. cause' = [e \in Callers |-> cause[e] \/ e \in {c}]
    BY <2>1 DEF Typed, OperationTypeOK
  <2> QED BY <2>1, <2>2, Disturbs
<1>2. CASE UNCHANGED opVars
  BY <1>2, Stutters DEF opVars
<1>3. CASE OthersMove(ops)
  BY <1>1, <1>2, <1>3 DEF OthersMove, StartMethod, opVars
<1>4. ASSUME NEW c \in Callers, WatcherMoves(c) PROVE KeepsPromise
  BY <1>4, CausesRefine DEF WatcherMoves
<1>5. ASSUME NEW x \in Cancelers, MethodMoves(x, ops) PROVE KeepsPromise
  BY <1>5, CausesRefine DEF MethodMoves
<1> QED BY <1>2, <1>3, <1>4, <1>5

-----------------------------------------------------------------------------
(* The deadline backend: what a late operation finds in the flag.            *)
LEMMA CallsObjectBeyond ==
  ASSUME NEW c \in Callers, CallsObject(c)
  PROVE  Beyond(c)
BY DEF CallsObject, Beyond, Goes, Ends, Settled, RwReadData, RwWriteSome,
     ReadFails, WroteAll, WriteFails, States

LEMMA DeadlineMoves ==
  ASSUME [D!Next]_(D!vars)
  PROVE  \/ \E c \in Callers : FlagTests(c) \/ CallsObject(c) \/ Calls(c)
         \/ \E c \in Callers : WatcherMoves(c)
         \/ \E x \in Cancelers : MethodMoves(x, DeadlineSteps)
         \/ OthersMove(DeadlineSteps)
         \/ UNCHANGED <<opVars, job, streamVars, canceled>>
<1>1. D!Callers = Callers
  BY DEF D!Callers, Callers
<1>2. UNCHANGED D!vars => UNCHANGED <<opVars, job, streamVars, canceled>>
  BY DEF D!vars, D!opVars, opVars, D!streamVars, streamVars, D!deadlineVars
<1> QED BY <1>1, <1>2, DeadlineOperates, DeadlineWatches, DeadlineManages,
       DeadlineUsed DEF D!Next, D!System

LEMMA DeadlineReasons ==
  ASSUME OneEach, DeadlineInv, WatchInv, CauseInv(Testing), [D!Next]_(D!vars)
  PROVE  WatchInv' /\ CauseInv(Testing)'
<1>1. Typed
  BY DEF DeadlineInv
<1>2. \/ Around(DeadlineSteps)
      \/ \E c \in Callers : FlagTests(c) \/ Calls(c)
  BY DeadlineMoves, CallsObjectBeyond DEF Around, opVars
<1> QED BY <1>1, <1>2, WatchKept, CauseAround, CauseTests, CauseCalls DEF Tests

LEMMA DeadlineRefines ==
  ASSUME "canceled" \in Forgotten, DeadlineInv, [D!Next]_(D!vars)
  PROVE  KeepsCounts /\ (CauseInv(Testing) => KeepsPromise)
<1>1. Typed /\ Testing \in SUBSET Testing
  BY DEF DeadlineInv
<1>2. ASSUME NEW c \in Callers, FlagTests(c) \/ CallsObject(c)
      PROVE  KeepsCounts /\ (CauseInv(Testing) => KeepsPromise)
  <2>1. Account(c)
    BY DEF DeadlineInv
  <2>2. pc[c] = "check" => moved[c] = 0
    BY <2>1 DEF Account, Early, Fresh
  <2> QED BY <1>1, <1>2, <2>1, <2>2, TestsRefine, CallsObjectRefines
<1>3. UNCHANGED <<opVars, job, streamVars, canceled>> => UNCHANGED opVars
  OBVIOUS
<1>4. CASE KeepsPromise
  BY <1>4, PromiseKeepsCounts
<1> QED BY <1>1, <1>2, <1>3, <1>4, DeadlineMoves, CallsRefine, OthersRefine

-----------------------------------------------------------------------------
(* The closable backend: nobody resets a flag during an operation, and every *)
(* call that finds it set is canceled.                                       *)
LEMMA CloseMoves ==
  ASSUME CloseInv, [C!Next]_(C!vars)
  PROVE  \/ \E c \in Callers : C!Operate(c) /\ (Tests(c) \/ CallsObject(c))
         \/ \E c \in Callers : C!BeginOperation(c) /\ Calls(c)
         \/ \E c \in Callers : WatcherMoves(c)
         \/ \E x \in Cancelers : MethodMoves(x, CloseSteps)
         \/ OthersMove(CloseSteps)
         \/ UNCHANGED <<opVars, job, streamVars, canceled>>
<1>1. C!Callers = Callers
  BY DEF C!Callers, Callers
<1>2. UNCHANGED C!vars => UNCHANGED <<opVars, job, streamVars, canceled>>
  BY DEF C!vars, C!opVars, opVars, C!streamVars, streamVars, C!closeVars,
       C!guardVars
<1>3. Typed
  BY DEF CloseInv
<1> QED BY <1>1, <1>2, <1>3, CloseOperates, CloseWatches, CloseManages,
       CloseUsed DEF C!Next, C!System

LEMMA CauseCloseOperates ==
  ASSUME Typed, CauseInv({}), NEW c \in Callers, C!Operate(c)
  PROVE  CauseInv({})' \/ CallsObject(c)
<1> USE CallersHaveDirections DEF CauseInv, Typed, OperationTypeOK, C!Dir, Dir
<1>1. CASE C!CheckFlag(c)
  <2>1. UNCHANGED <<ctx, cause, canceled>> /\ pc[c] = "check"
    BY <1>1 DEF C!CheckFlag, C!closeVars
  <2>2. \E q : pc' = [pc EXCEPT ![c] = q]
    BY <1>1 DEF C!CheckFlag, C!Settled, C!Proceed
  <2> QED BY <2>1, <2>2
<1>2. CASE C!Return(c) /\ UNCHANGED C!closeVars
  BY <1>2 DEF C!Return, C!closeVars
<1>3. ASSUME ~ C!CheckFlag(c), ~ (C!Return(c) /\ UNCHANGED C!closeVars)
      PROVE  CauseInv({})'
  <2>1. /\ pc[c] \in {"enter", "io", "late"} /\ UNCHANGED <<ctx, cause, canceled>>
        /\ pc' = pc \/ \E q : pc' = [pc EXCEPT ![c] = q]
    BY <1>3 DEF C!Operate, C!Enter, C!Read, C!RwReadData, C!WriteSome,
         C!RwWriteSome, C!WriteReturn, C!WroteAll, C!Fail, C!ReadFails,
         C!WriteFails, C!Late, C!Settled, C!closeVars
  <2> QED BY <2>1
<1> QED BY <1>1, <1>2, <1>3

LEMMA CloseReasons ==
  ASSUME OneEach, CloseInv, WatchInv, CauseInv({}), [C!Next]_(C!vars)
  PROVE  WatchInv' /\ CauseInv({})'
<1>1. Typed /\ {} \subseteq Testing
  BY DEF CloseInv
<1>2. \/ Around(CloseSteps)
      \/ \E c \in Callers : Tests(c) \/ Calls(c)
  BY CloseMoves, CallsObjectBeyond DEF Around, opVars
<1>3. WatchInv'
  BY <1>1, <1>2, WatchKept
<1>4. CASE Around(CloseSteps)
  BY <1>1, <1>3, <1>4, CauseAround
<1>5. ASSUME NEW c \in Callers, C!Operate(c) PROVE CauseInv({})'
  BY <1>1, <1>4, <1>5, CauseCloseOperates, CallsObjectBeyond DEF Around
<1>6. ASSUME NEW c \in Callers, C!BeginOperation(c) PROVE CauseInv({})'
  <2>1. PICK k \in {"none", "live"} :
          /\ pc' = [pc EXCEPT ![c] = "check"]
          /\ ctx' = [ctx EXCEPT ![c] = k]
          /\ cause' = [cause EXCEPT ![c] = canceled[Dir(c)]]
    BY <1>6 DEF C!BeginOperation, C!Begin, C!Dir, Dir
  <2>2. canceled' = canceled
    BY <1>6 DEF C!BeginOperation, C!closeVars
  <2>3. canceled[Dir(c)] \in BOOLEAN
    BY <1>1, CallersHaveDirections DEF Typed
  <2> QED BY <1>1, <2>1, <2>2, <2>3 DEF CauseInv, Typed, OperationTypeOK
<1>7. \/ \E c \in Callers : C!Operate(c) \/ C!BeginOperation(c)
      \/ Around(CloseSteps)
  BY CloseMoves DEF Around, opVars
<1> QED BY <1>3, <1>4, <1>5, <1>6, <1>7

LEMMA CloseRefines ==
  ASSUME "canceled" \in Forgotten, CloseInv, [C!Next]_(C!vars)
  PROVE  KeepsCounts /\ (CauseInv({}) => KeepsPromise)
<1>1. Typed /\ {} \in SUBSET Testing
  BY DEF CloseInv
<1>2. ASSUME NEW c \in Callers, Tests(c) \/ CallsObject(c)
      PROVE  KeepsCounts /\ (CauseInv({}) => KeepsPromise)
  <2>1. Account(c)
    BY DEF CloseInv
  <2>2. pc[c] = "check" => moved[c] = 0
    BY <2>1 DEF Account, Early, Fresh
  <2> QED BY <1>1, <1>2, <2>1, <2>2, TestsRefine, CallsObjectRefines
<1>3. UNCHANGED <<opVars, job, streamVars, canceled>> => UNCHANGED opVars
  OBVIOUS
<1>4. CASE KeepsPromise
  BY <1>4, PromiseKeepsCounts
<1> QED BY <1>1, <1>2, <1>3, <1>4, CloseMoves, CallsRefine, OthersRefine

-----------------------------------------------------------------------------
(* The overlapped backend: an operation that was woken by the cancel event,  *)
(* or whose request was aborted, has a reason to end.                        *)
RequestReason(c) ==
  /\ pc[c] = "woken" => cause[c]
  /\ pc[c] = "wait" /\ Ended(c) /\ req[c].err = "aborted" => cause[c]

OverlappedReasons ==
  /\ WatchInv /\ ResetInv /\ CauseInv(Testing) /\ EventInv(Callers)
  /\ \A c \in Callers : RequestReason(c)

(* The steps of an operation past the tests.                                 *)
OverlappedWorks(c) == O!Issue(c) \/ O!Complete(c) \/ O!Wake(c) \/ O!Drain(c) \/ O!Serve(c)

LEMMA OverlappedTestSteps ==
  ASSUME NEW c \in Callers, O!Operate(c), OverlappedInv
  PROVE  \/ OverlappedWorks(c)
         \/ /\ FlagTests(c) /\ UNCHANGED <<req, isFile>>
            /\ \A e \in Callers : event'[Dir(e)] = "set" => event[Dir(e)] = "set"
            /\ ContextUndo(c) => event'[Dir(c)] # "set"
<1> USE CallersHaveDirections DEF FlagTests, O!eventVars, O!streamVars, streamVars, O!Dir,
        Dir, O!Settled, Settled, OverlappedInv, OverlappedTyped
<1>1. CASE (O!Check(c) \/ O!ContextStore(c)) /\ UNCHANGED <<req, O!eventVars>>
  BY <1>1 DEF O!Check, Check, O!Proceed, Proceed, O!ContextStore, ContextStore,
       ContextUndo
<1>2. CASE O!ContextResetEvent(c)
  <2>1. ContextUndo(c) /\ UNCHANGED <<req, isFile>>
    BY <1>2 DEF O!ContextResetEvent, O!ContextUndo, ContextUndo, O!Proceed,
         Proceed
  <2>2. event' = [event EXCEPT ![Dir(c)] = IF @ = "closed" THEN @ ELSE "clear"]
    BY <1>2 DEF O!ContextResetEvent, O!ResetEvent
  <2>3. \A d \in Directions : event'[d] = "set" => event[d] = "set" /\ d # Dir(c)
    BY <2>2
  <2> QED BY <2>1, <2>3
<1>3. CASE O!Return(c) /\ UNCHANGED <<canceled, req, O!eventVars>>
  BY <1>3 DEF O!Return, Return, ContextUndo
<1> QED BY <1>1, <1>2, <1>3 DEF O!Operate, OverlappedWorks

LEMMA OverlappedMoves ==
  ASSUME OverlappedInv, [O!Next]_(O!vars)
  PROVE  \/ \E c \in Callers : OverlappedWorks(c)
         \/ \E c \in Callers :
              /\ FlagTests(c) /\ UNCHANGED <<req, isFile>>
              /\ \A e \in Callers : event'[Dir(e)] = "set" => event[Dir(e)] = "set"
              /\ ContextUndo(c) => event'[Dir(c)] # "set"
         \/ \E c \in Callers : O!BeginOperation(c) /\ Calls(c)
         \/ \E c \in Callers : O!Watch(c) /\ WatcherMoves(c)
         \/ \E x \in Cancelers : O!Manage(x) /\ MethodMoves(x, OverlappedSteps)
         \/ OthersMove(OverlappedSteps) /\ UNCHANGED <<req, event, isFile>>
         \/ UNCHANGED <<opVars, job, streamVars, canceled, req, event, isFile>>
<1>1. O!Callers = Callers
  BY DEF O!Callers, Callers
<1>2. UNCHANGED O!vars
        => UNCHANGED <<opVars, job, streamVars, canceled, req, event, isFile>>
  BY DEF O!vars, O!opVars, opVars, O!streamVars, streamVars, O!eventVars
<1> QED BY <1>1, <1>2, OverlappedTestSteps, OverlappedWatches,
       OverlappedManages, OverlappedUsed DEF O!Next, O!System, OverlappedWorks

LEMMA OverlappedBeyond ==
  ASSUME NEW c \in Callers, OverlappedWorks(c)
  PROVE  Beyond(c)
<1> USE DEF Beyond, States
<1>1. CASE O!Issue(c)
  BY <1>1 DEF O!Issue
<1>2. CASE O!Complete(c)
  BY <1>2 DEF O!Complete, O!SettledAs, O!Settled
<1>3. CASE O!Wake(c)
  BY <1>3 DEF O!Wake, O!Settled
<1>4. CASE O!Drain(c)
  BY <1>4 DEF O!Drain, O!Settled
<1>5. CASE O!Serve(c)
  BY <1>5 DEF O!Serve, O!FileServed, O!Kernel, O!Fill, O!Flush, O!Break,
       O!opVars
<1> QED BY <1>1, <1>2, <1>3, <1>4, <1>5 DEF OverlappedWorks

(* An event is set by a cancel of its direction, by the watcher of an        *)
(* operation that is done for, or not at all.                                *)
LEMMA OverlappedReasoned ==
  ASSUME OneEach, OverlappedInv, WatchInv, CauseInv(Testing),
         \/ \E c \in Callers : OverlappedWorks(c)
         \/ \E c \in Callers : O!Watch(c)
         \/ \E x \in Cancelers : O!Manage(x)
         \/ UNCHANGED event
  PROVE  Reasoned(Callers)
<1>0. event \in [Directions -> {"clear", "set", "closed"}]
  BY DEF OverlappedInv, OverlappedTyped
<1> USE <1>0, CallersHaveDirections DEF Reasoned
<1>1. event' = event => Reasoned(Callers)
  OBVIOUS
<1>2. ASSUME NEW d \in Directions, O!ResetEvent(d) PROVE Reasoned(Callers)
  BY <1>2 DEF O!ResetEvent
<1>3. ASSUME NEW c \in Callers, OverlappedWorks(c) PROVE Reasoned(Callers)
  BY <1>1, <1>2, <1>3, DirType DEF OverlappedWorks, O!Issue, O!Complete, O!Wake,
       O!Drain, O!Serve, O!eventVars, O!Dir, O!Directions, Directions
<1>4. ASSUME NEW c \in Callers, watch[c] = "signaling", O!SetEvent(Dir(c)), WatcherMoves(c)
      PROVE  Reasoned(Callers)
  <2>1. cause[c] /\ \A e \in Callers \ {c} : Dir(e) # Dir(c)
    BY <1>4 DEF WatchInv, CauseInv, OneEach
  <2>2. cause'[c]
    BY <1>4, <2>1 DEF WatcherMoves, CausesGiven, GiveCause, GiveCauseToAll
  <2> QED BY <1>4, <2>1, <2>2 DEF O!SetEvent
<1>5. ASSUME NEW d \in Directions, O!SetEvent(d), GiveCause(d), pc' = pc
      PROVE  Reasoned(Callers)
  BY <1>5 DEF O!SetEvent, GiveCause, InProgress
<1>6. ASSUME NEW d \in Directions, event' = [event EXCEPT ![d] = "closed"]
      PROVE  Reasoned(Callers)
  BY <1>6
<1>7. ASSUME NEW c \in Callers, O!Watch(c) PROVE Reasoned(Callers)
  BY <1>1, <1>4, <1>7, OverlappedWatches
<1>8. ASSUME NEW x \in Cancelers, O!Manage(x) PROVE Reasoned(Callers)
  <2>1. pc' = pc
    BY <1>8, OverlappedManages DEF MethodMoves
  <2> QED BY <1>1, <1>2, <1>5, <1>6, <1>8, <2>1, OverlappedManages
<1> QED BY <1>1, <1>3, <1>7, <1>8

LEMMA OverlappedCausesKept ==
  ASSUME OneEach, OverlappedInv, OverlappedReasons, [O!Next]_(O!vars)
  PROVE  WatchInv' /\ ResetInv' /\ CauseInv(Testing)' /\ EventInv(Callers)'
<1>1. /\ Typed /\ Jobs(OverlappedSteps) /\ WatchInv /\ ResetInv /\ CauseInv(Testing)
      /\ EventInv(Callers) /\ Callers \in SUBSET Callers
  BY DEF OverlappedInv, OverlappedReasons
<1>2. CASE Around(OverlappedSteps) /\ Reasoned(Callers)
  BY <1>1, <1>2, WatchKept, ResetKept, CauseAround, EventAround
<1>3. ASSUME NEW c \in Callers, FlagTests(c),
             \A e \in Callers : event'[Dir(e)] = "set" => event[Dir(e)] = "set",
             ContextUndo(c) => event'[Dir(c)] # "set"
      PROVE  WatchInv' /\ ResetInv' /\ CauseInv(Testing)' /\ EventInv(Callers)'
  BY <1>1, <1>3, WatchKept, ResetKept, CauseTests, EventTests DEF Tests
<1>4. ASSUME NEW c \in Callers, O!BeginOperation(c), Calls(c)
      PROVE  WatchInv' /\ ResetInv' /\ CauseInv(Testing)' /\ EventInv(Callers)'
  <2>1. PICK k \in {"none", "live"}, l \in O!Lengths(c) :
          O!Begin(c, k, l, \/ k = "none" /\ canceled[Dir(c)]
                           \/ O!LeftOver(Dir(c)))
    BY <1>4 DEF O!BeginOperation, O!Dir, Dir
  <2> DEFINE b == (k = "none" /\ canceled[Dir(c)]) \/ O!LeftOver(Dir(c))
  <2>2. Begin(c, k, l, b)
    BY <2>1 DEF O!Begin, Begin, O!ResetPending, ResetPending, O!Resets, Resets,
         O!Dir, Dir, O!NoResult, NoResult, O!streamVars, streamVars
  <2>3. event' = event /\ canceled' = canceled
    BY <1>4 DEF O!BeginOperation, O!eventVars
  <2>4. event[Dir(c)] = "set" => b \/ (k = "live" /\ canceled[Dir(c)])
    BY DEF O!LeftOver
  <2> HIDE DEF b
  <2>5. EventInv(Callers)'
    BY <1>1, <2>2, <2>3, <2>4, EventCalls
  <2> QED BY <1>1, <1>4, <2>5, WatchKept, ResetKept, CauseCalls
<1>5. \/ Around(OverlappedSteps) /\ Reasoned(Callers)
      \/ \E c \in Callers :
              /\ FlagTests(c)
              /\ \A e \in Callers : event'[Dir(e)] = "set" => event[Dir(e)] = "set"
              /\ ContextUndo(c) => event'[Dir(c)] # "set"
      \/ \E c \in Callers : O!BeginOperation(c) /\ Calls(c)
  BY <1>1, OverlappedMoves, OverlappedBeyond, OverlappedReasoned DEF Around,
       opVars
<1> QED BY <1>2, <1>3, <1>4, <1>5

(* A step of one caller or its request leaves those of the others alone.     *)
LEMMA ReasonOfOne ==
  ASSUME NEW c \in Callers, \A a \in Callers : RequestReason(a), OnlyOf(c),
         \A a \in Callers \ {c} : req'[a] = req[a] /\ cause'[a] = cause[a],
         RequestReason(c)'
  PROVE  \A a \in Callers : RequestReason(a)'
<1>1. ASSUME NEW a \in Callers \ {c} PROVE RequestReason(a)'
  BY <1>1 DEF RequestReason, OnlyOf, Ended
<1> QED BY <1>1

LEMMA ReasonStays ==
  ASSUME Typed, \A a \in Callers : RequestReason(a), pc' = pc,
         \A a \in Callers : cause[a] => cause'[a],
         req' = req \/ (GiveCauseToAll /\ \E S : Aborted(S))
  PROVE  \A a \in Callers : RequestReason(a)'
<1>1. CASE req' = req
  BY <1>1 DEF RequestReason, Ended
<1>2. ASSUME GiveCauseToAll, NEW a \in Callers PROVE RequestReason(a)'
  <2>1. pc[a] # "idle" => cause'[a]
    BY <1>2 DEF GiveCauseToAll
  <2> QED BY <2>1 DEF RequestReason
<1> QED BY <1>1, <1>2

(* The operation past the tests.                                             *)
LEMMA ReasonWorks ==
  ASSUME OverlappedInv, OverlappedReasons, NEW c \in Callers, OverlappedWorks(c),
         ~ O!Serve(c)
  PROVE  \A a \in Callers : RequestReason(a)'
<1>t. /\ pc \in [Callers -> States] /\ req \in [Callers -> [st : {"none", "pending", "done"},
                       err : {"nil", "error", "aborted"}, n : 0..MaxLen]]
      /\ cause \in [Callers -> BOOLEAN] /\ moved \in [Callers -> Nat]
      /\ out \in [Callers -> Results]
  BY DEF OverlappedInv, Typed, OperationTypeOK, RequestTypeOK, States, Results
<1>0. /\ \A a \in Callers : RequestReason(a)
      /\ EventInv(Callers)
  BY DEF OverlappedReasons
<1>1. /\ UNCHANGED <<len, part, cause, isFile>>
      /\ \E q : pc' = [pc EXCEPT ![c] = q]
      /\ out' = out \/ \E r : out' = [out EXCEPT ![c] = r]
      /\ moved' = moved \/ \E n : moved' = [moved EXCEPT ![c] = n]
      /\ req' = req \/ \E r : req' = [req EXCEPT ![c] = r]
  BY DEF OverlappedWorks, O!Issue, O!Complete, O!Advances, O!Wake, O!Drain,
       O!Issued, O!Taken, O!SettledAs, O!Settled, O!eventVars
<1>2. /\ OnlyOf(c)
      /\ \A a \in Callers \ {c} : req'[a] = req[a] /\ cause'[a] = cause[a]
  BY <1>t, <1>1 DEF OnlyOf
<1>3. CASE O!Complete(c) \/ O!Drain(c) \/ (O!Wake(c) /\ event[Dir(c)] = "closed")
  <2>1. pc'[c] = "join"
    BY <1>t, <1>3 DEF O!Complete, O!SettledAs, O!Settled, O!Drain, O!Wake,
         O!Dir, Dir
  <2> QED BY <1>0, <1>2, <2>1, ReasonOfOne DEF RequestReason
<1>4. CASE O!Issue(c)
  <2>1. /\ pc'[c] = "wait"
        /\ \/ req'[c] = [st |-> "pending", err |-> "nil", n |-> 0]
           \/ req'[c] = [st |-> "done", err |-> "error", n |-> 0]
    BY <1>t, <1>4 DEF O!Issue, O!Issued, O!NoRequest, O!Done
  <2> QED BY <1>0, <1>2, <2>1, ReasonOfOne DEF RequestReason, Ended
<1>5. CASE O!Wake(c) /\ event[Dir(c)] # "closed"
  <2>1. pc'[c] = "woken" /\ event[Dir(c)] = "set" /\ pc[c] = "wait"
    BY <1>t, <1>5 DEF O!Wake, O!Dir, Dir
  <2>2. cause[c]
    BY <1>0, <2>1 DEF EventInv
  <2> QED BY <1>0, <1>1, <1>2, <2>1, <2>2, ReasonOfOne DEF RequestReason
<1> QED BY <1>3, <1>4, <1>5 DEF OverlappedWorks

LEMMA ServeSteps ==
  ASSUME OverlappedInv, NEW c \in Callers, O!Serve(c)
  PROVE  /\ pc[c] \in Waiting /\ Pending(c) /\ UNCHANGED <<pc, cause, out, isFile>>
         /\ OnlyOf(c) /\ \A a \in Callers \ {c} : req'[a] = req[a]
         /\ req'[c].st = "done" => req'[c].err # "aborted"
         /\ ~ isFile => Kernel(c)
<1>t. /\ part \in [Callers -> Nat] /\ moved \in [Callers -> Nat]
      /\ req \in [Callers -> [st : {"none", "pending", "done"},
                              err : {"nil", "error", "aborted"}, n : 0..MaxLen]]
  BY DEF OverlappedInv, Typed, OperationTypeOK, RequestTypeOK
<1>1. pc[c] \in Waiting /\ isFile' = isFile
  BY DEF O!Serve, O!eventVars, Waiting
<1>2. CASE isFile
  <2>1. PICK k \in 0..MaxLen, e \in {"nil", "error"} :
          /\ UNCHANGED <<pc, len, out, part, cause>> /\ Pending(c)
          /\ req' = [req EXCEPT ![c] = Done(e, k)]
          /\ moved' = IF c \in Readers THEN moved ELSE [moved EXCEPT ![c] = k]
    BY <1>2, FileServes
  <2> QED BY <1>t, <1>1, <1>2, <2>1 DEF OnlyOf, Done
<1>3. CASE ~ isFile
  <2>1. Kernel(c)
    BY <1>3 DEF O!Serve, O!Kernel, Kernel, O!Fill, Fill, O!Flush, Flush,
         O!Break, Break, O!Pending, Pending, O!Done, Done, O!Least, Least,
         O!opVars, opVars, O!streamVars, streamVars
  <2>2. Pending(c) /\ UNCHANGED <<pc, cause, out>>
    BY <2>1 DEF Kernel, Fill, Flush, Break, opVars
  <2>3. OnlyOf(c) /\ \A a \in Callers \ {c} : req'[a] = req[a]
    BY <1>t, <2>1 DEF OnlyOf, Kernel, Fill, Flush, Break, opVars
  <2>4. req'[c].st = "done" => req'[c].err # "aborted"
    BY <1>t, <2>1, <2>2 DEF Kernel, Fill, Flush, Break, Done, Pending
  <2> QED BY <1>1, <1>3, <2>1, <2>2, <2>3, <2>4
<1> QED BY <1>2, <1>3

LEMMA ReasonServe ==
  ASSUME OverlappedInv, OverlappedReasons, NEW c \in Callers, O!Serve(c)
  PROVE  \A a \in Callers : RequestReason(a)'
<1>1. RequestReason(c)'
  BY ServeSteps DEF OverlappedReasons, RequestReason, Ended
<1> QED BY <1>1, ServeSteps, ReasonOfOne DEF OverlappedReasons

LEMMA OverlappedReasonsKept ==
  ASSUME OneEach, OverlappedInv, OverlappedReasons, [O!Next]_(O!vars)
  PROVE  OverlappedReasons'
<1>0. Typed /\ \A a \in Callers : RequestReason(a)
  BY DEF OverlappedInv, OverlappedReasons
<1> DEFINE Goal == \A a \in Callers : RequestReason(a)'
<1>1. ASSUME NEW c \in Callers, OverlappedWorks(c) PROVE Goal
  BY <1>1, ReasonWorks, ReasonServe
<1>2. ASSUME NEW c \in Callers, FlagTests(c), UNCHANGED <<req, isFile>> PROVE Goal
  <2>1. /\ UNCHANGED <<len, part, cause, moved>>
        /\ \E q \in States \ Waiting : pc' = [pc EXCEPT ![c] = q]
        /\ out' = out \/ \E r : out' = [out EXCEPT ![c] = r]
    BY <1>2 DEF FlagTests, Check, ContextStore, ContextUndo, Return, Settled,
         Proceed, Waiting, States
  <2>2. OnlyOf(c) /\ \A a \in Callers \ {c} : req'[a] = req[a] /\ cause'[a] = cause[a]
    BY <1>0, <1>2, <2>1 DEF OnlyOf, Typed, OperationTypeOK
  <2>3. pc'[c] \notin Waiting
    BY <1>0, <2>1 DEF Typed, OperationTypeOK
  <2>4. RequestReason(c)'
    BY <2>3 DEF RequestReason, Waiting
  <2> QED BY <1>0, <2>2, <2>4, ReasonOfOne
<1>3. ASSUME NEW c \in Callers, O!BeginOperation(c), Calls(c) PROVE Goal
  <2>1. OnlyOf(c) /\ pc'[c] = "check"
    BY <1>0, <1>3, AccountCall DEF Calls, Begin, Typed, OperationTypeOK
  <2>2. \A a \in Callers \ {c} : req'[a] = req[a] /\ cause'[a] = cause[a]
    BY <1>0, <1>3 DEF Calls, Begin, O!BeginOperation, O!eventVars, Typed,
         OperationTypeOK
  <2>3. RequestReason(c)'
    BY <2>1 DEF RequestReason
  <2> QED BY <1>0, <2>1, <2>2, <2>3, ReasonOfOne
<1>4. CausesGiven => \A a \in Callers : cause[a] => cause'[a]
  BY DEF CausesGiven, GiveCause, GiveCauseToAll
<1>5. ASSUME NEW c \in Callers, O!Watch(c), WatcherMoves(c) PROVE Goal
  BY <1>0, <1>4, <1>5, OverlappedWatches, ReasonStays DEF WatcherMoves
<1>6. ASSUME NEW x \in Cancelers, O!Manage(x), MethodMoves(x, OverlappedSteps) PROVE Goal
  BY <1>0, <1>4, <1>6, OverlappedManages, ReasonStays DEF MethodMoves
<1>7. ASSUME OthersMove(OverlappedSteps), UNCHANGED <<req, event, isFile>> PROVE Goal
  <2>1. \A a \in Callers : cause[a] => cause'[a]
    BY <1>0, <1>7 DEF OthersMove, Expire, StartMethod, opVars, Typed,
         OperationTypeOK
  <2>2. pc' = pc
    BY <1>7, OthersCountNothing
  <2> QED BY <1>0, <1>7, <2>1, <2>2, ReasonStays
<1>8. ASSUME UNCHANGED <<opVars, job, streamVars, canceled, req, event, isFile>>
      PROVE  Goal
  <2>1. UNCHANGED <<pc, cause, req>>
    BY <1>8 DEF opVars
  <2>2. \A a \in Callers : cause[a] => cause'[a]
    BY <2>1
  <2> QED BY <1>0, <2>1, <2>2, ReasonStays
<1> HIDE DEF Goal
<1>9. Goal
  BY <1>1, <1>2, <1>3, <1>5, <1>6, <1>7, <1>8, OverlappedMoves
<1> QED BY <1>9, OverlappedCausesKept DEF OverlappedReasons, Goal

(* The kernel moves bytes of an operation in progress, which are the first   *)
(* of a read.                                                                *)
LEMMA KernelRefines ==
  ASSUME Typed, NEW c \in Callers, part[c] <= len[c], Phase(pc[c]) = "busy",
         Pending(c) /\ c \in Readers => moved[c] = 0, Kernel(c)
  PROVE  KeepsPromise
<1> USE StreamAssumption, OperationAssumption
<1>t. /\ part \in [Callers -> Nat] /\ len \in [Callers -> 0..MaxLen]
      /\ space \in Nat /\ avail \in Nat /\ moved \in [Callers -> Nat] /\ MaxLen \in Nat
  BY DEF Typed, OperationTypeOK, StreamTypeOK, StreamAssumption,
       OperationAssumption
<1>1. CASE Fill(c)
  <2>1. PICK k \in 1..Least(len[c], avail) : moved' = [moved EXCEPT ![c] = k]
    BY <1>1 DEF Fill
  <2>2. moved[c] = 0 /\ UNCHANGED <<pc, cause, out>>
    BY <1>1 DEF Fill
  <2>3. k \in 0..MaxLen /\ moved[c] + k = k
    BY <1>t, <2>2 DEF Least
  <2> QED BY <2>1, <2>2, <2>3, Transfers
<1>2. CASE Flush(c)
  <2>1. PICK k \in 0..Least(len[c] - part[c], space) :
          moved' = [moved EXCEPT ![c] = moved[c] + k]
    BY <1>2 DEF Flush
  <2>2. UNCHANGED <<pc, cause, out>>
    BY <1>2 DEF Flush
  <2>3. k \in 0..MaxLen
    BY <1>t DEF Least
  <2> QED BY <2>1, <2>2, <2>3, Transfers
<1>3. CASE Break(c)
  BY <1>3, Stutters DEF Break, opVars
<1> QED BY <1>1, <1>2, <1>3 DEF Kernel

(* The overlapped backend may forget the count of any operation: when it     *)
(* drains a request, and when Close has closed the event it waits for.       *)
Promised == [PromiseOfAll!ContextNext]_PromiseOfAll!contextVars

MayForget == Forgotten = {"canceled", "error"}

LEMMA PromiseOfOne ==
  ASSUME MayForget, KeepsPromise
  PROVE  Promised
<1>1. CASE UNCHANGED Promise!contextVars
  BY <1>1 DEF Promised, Promise!contextVars, PromiseOfAll!contextVars
<1>2. CASE Promise!Disturb
  <2>1. PromiseOfAll!Disturb
    BY <1>2 DEF Promise!Disturb, PromiseOfAll!Disturb
  <2> QED BY <2>1 DEF Promised, PromiseOfAll!ContextNext
<1>3. ASSUME NEW c \in Callers, Promise!Call(c) \/ Promise!Finish(c) PROVE Promised
  <2>1. PromiseOfAll!Call(c) \/ PromiseOfAll!Finish(c)
    BY <1>3 DEF Promise!Call, PromiseOfAll!Call, Promise!NoResult,
       PromiseOfAll!NoResult, Promise!Finish, PromiseOfAll!Finish
  <2> QED BY <2>1 DEF Promised, PromiseOfAll!ContextNext
<1>4. ASSUME NEW c \in Callers, NEW k \in 0..MaxLen, Promise!Transfer(c, k)
      PROVE  Promised
  <2>1. PromiseOfAll!Transfer(c, k)
    BY <1>4 DEF Promise!Transfer, PromiseOfAll!Transfer
  <2> QED BY <2>1 DEF Promised, PromiseOfAll!ContextNext
<1>5. ASSUME NEW c \in Callers, NEW k \in 0..MaxLen, NEW err \in Promise!Errors,
             Promise!Settle(c, k, err)
      PROVE  Promised
  <2>1. PromiseOfAll!Settle(c, k, err)
    BY <1>5 DEF Promise!Settle, PromiseOfAll!Settle
  <2> QED BY <2>1 DEF Promised, PromiseOfAll!ContextNext, Promise!Errors,
         PromiseOfAll!Errors
<1> QED BY <1>1, <1>2, <1>3, <1>4, <1>5 DEF KeepsPromise, Promise!ContextNext

LEMMA Forgets ==
  ASSUME MayForget, Typed, NEW c \in Callers, Phase(pc[c]) = "busy",
         NEW e \in {"canceled", "error"}, e = "canceled" => cause[c],
         Settled(c, e, 0), UNCHANGED <<moved, cause>>
  PROVE  Promised
<1>1. /\ 0 \in 0..MaxLen /\ moved[c] + 0 = moved[c]
      /\ moved' = [moved EXCEPT ![c] = moved[c] + 0]
  BY OperationAssumption DEF OperationAssumption, Typed, OperationTypeOK
<1>2. PromiseOfAll!Settle(c, 0, e)
  BY <1>1 DEF MayForget, PromiseOfAll!Settle, Settled, Phase, Typed,
     OperationTypeOK
<1> QED BY <1>1, <1>2 DEF Promised, PromiseOfAll!ContextNext,
       PromiseOfAll!Errors

(* On a file a read takes its bytes when it returns, and the only counts     *)
(* that are forgotten are those of canceled and failed writes.               *)
LEMMA FileWorksRefine ==
  ASSUME MayForget, isFile, OverlappedInv, OverlappedReasons, NEW c \in Callers,
         OverlappedWorks(c)
  PROVE  KeepsPromise
<1>0. /\ Typed /\ RequestTypeOK /\ EventInv(Callers) /\ RequestReason(c)
      /\ OverlappedAccount(c)
  BY DEF OverlappedInv, OverlappedReasons
<1>t. /\ moved \in [Callers -> Nat] /\ MaxLen \in Nat
      /\ req \in [Callers -> [st : {"none", "pending", "done"},
                              err : {"nil", "error", "aborted"}, n : 0..MaxLen]]
  BY <1>0, OperationAssumption
     DEF Typed, OperationTypeOK, RequestTypeOK, OperationAssumption
<1>r. c \in Readers => ReadsFile(c)
  BY DEF ReadsFile
<1>f. \/ c \in Writers /\ "canceled" \in Forgotten /\ "error" \in Forgotten
      \/ c \in Readers /\ (pc[c] \in Waiting => moved[c] = 0)
  <2>1. pc[c] \in Waiting /\ c \in Readers => moved[c] = 0
    BY <1>0, <1>r DEF OverlappedAccount, InRequest
  <2>2. c \in Readers \/ c \in Writers
    BY DEF Callers
  <2>3. "canceled" \in Forgotten /\ "error" \in Forgotten
    BY DEF MayForget
  <2> QED BY <2>1, <2>2, <2>3
<1>1. CASE O!Issue(c)
  <2>1. /\ Phase(pc[c]) = "busy" /\ "wait" \in States
        /\ pc' = [pc EXCEPT ![c] = "wait"] /\ UNCHANGED <<cause, moved, out>>
    BY <1>1 DEF O!Issue, Phase, States
  <2> QED BY <1>0, <2>1, GoesOn
<1>2. CASE O!Wake(c)
  <2>1. /\ Phase(pc[c]) = "busy" /\ "woken" \in States /\ pc[c] \in Waiting
        /\ UNCHANGED <<cause, moved>>
    BY <1>2 DEF O!Wake, Phase, States, Waiting
  <2>2. \/ pc' = [pc EXCEPT ![c] = "woken"] /\ UNCHANGED out
        \/ Settled(c, "error", 0)
    BY <1>2 DEF O!Wake, O!Settled, Settled
  <2> QED BY <1>0, <1>f, <2>1, <2>2, GoesOn, Settles
<1>3. CASE O!Drain(c)
  <2>1. /\ Phase(pc[c]) = "busy" /\ UNCHANGED <<cause, moved>> /\ pc[c] \in Waiting
        /\ Settled(c, "canceled", 0) /\ cause[c]
    BY <1>0, <1>3 DEF O!Drain, O!Settled, Settled, Phase, RequestReason, Waiting
  <2> QED BY <1>0, <1>f, <2>1, Settles
<1>4. CASE O!Complete(c)
  <2>1. /\ pc[c] = "wait" /\ req[c].st = "done" /\ SettledAs(c, req[c])
        /\ cause' = cause /\ Phase(pc[c]) = "busy"
        /\ IF req[c].err = "nil" /\ c \in Readers
           THEN moved' = [moved EXCEPT ![c] = req[c].n] ELSE moved' = moved
    BY <1>4, OperationAssumption DEF O!Complete, O!Ended, O!SettledAs,
         SettledAs, O!Settled, Settled, O!Advances, Phase, OperationAssumption
  <2>2. pc[c] \in Waiting /\ InRequest(c)
    BY <1>0, <2>1 DEF OverlappedAccount, Waiting
  <2>3. CASE req[c].err = "aborted"
    <3>1. Settled(c, "canceled", 0) /\ cause[c] /\ moved' = moved
      BY <1>0, <2>1, <2>3 DEF SettledAs, RequestReason, Ended
    <3> QED BY <1>0, <1>f, <2>1, <2>2, <3>1, Settles
  <2>4. CASE req[c].err # "aborted" /\ ~ (req[c].err = "nil" /\ c \in Readers)
    <3>1. Settled(c, req[c].err, moved[c]) /\ moved' = moved
      BY <2>1, <2>2, <2>4 DEF SettledAs, InRequest, ReadsFile
    <3>2. req[c].err \in {"nil", "error"}
      BY <1>t, <2>4
    <3> QED BY <1>0, <2>1, <3>1, <3>2, Settles
  <2>5. CASE req[c].err = "nil" /\ c \in Readers
    <3>1. Settled(c, "nil", req[c].n) /\ moved' = [moved EXCEPT ![c] = req[c].n]
      BY <2>1, <2>5 DEF SettledAs
    <3>2. moved[c] + req[c].n = req[c].n /\ req[c].n \in 0..MaxLen
      BY <1>t, <2>2, <2>5 DEF InRequest, ReadsFile
    <3> QED BY <1>0, <2>1, <3>1, <3>2, SettlesWith
  <2> QED BY <2>3, <2>4, <2>5
<1>5. CASE O!Serve(c)
  <2>1. PICK k \in 0..MaxLen :
          /\ Pending(c) /\ UNCHANGED <<pc, cause, out>>
          /\ moved' = IF c \in Readers THEN moved ELSE [moved EXCEPT ![c] = k]
    BY <1>5, FileServes
  <2>2. CASE c \in Readers
    BY <2>1, <2>2, Stutters
  <2>3. CASE c \notin Readers
    <3>1. Phase(pc[c]) = "busy" /\ moved[c] = 0
      BY <1>0, <1>5, <2>1, ServeSteps
         DEF Phase, Waiting, OverlappedAccount, InRequest, Pending
    <3>2. moved' = [moved EXCEPT ![c] = moved[c] + k]
      BY <1>t, <2>1, <2>3, <3>1
    <3> QED BY <2>1, <3>1, <3>2, Transfers
  <2> QED BY <2>2, <2>3
<1> QED BY <1>1, <1>2, <1>3, <1>4, <1>5 DEF OverlappedWorks

LEMMA OverlappedWorksRefine ==
  ASSUME MayForget, OverlappedInv, OverlappedReasons, NEW c \in Callers, OverlappedWorks(c)
  PROVE  Promised
<1> SUFFICES ASSUME ~ isFile PROVE Promised
  BY FileWorksRefine, PromiseOfOne
<1>0. /\ Typed /\ RequestTypeOK /\ EventInv(Callers) /\ RequestReason(c)
      /\ OverlappedAccount(c)
  BY DEF OverlappedInv, OverlappedReasons
<1>t. /\ moved \in [Callers -> Nat]
      /\ req \in [Callers -> [st : {"none", "pending", "done"},
                              err : {"nil", "error", "aborted"}, n : 0..MaxLen]]
  BY <1>0 DEF Typed, OperationTypeOK, RequestTypeOK
<1>1. CASE O!Issue(c)
  <2>1. /\ Phase(pc[c]) = "busy" /\ "wait" \in States
        /\ pc' = [pc EXCEPT ![c] = "wait"] /\ UNCHANGED <<cause, moved, out>>
    BY <1>1 DEF O!Issue, Phase, States
  <2> QED BY <1>0, <2>1, GoesOn, PromiseOfOne
<1>2. CASE O!Wake(c)
  <2>1. Phase(pc[c]) = "busy" /\ "woken" \in States /\ UNCHANGED <<cause, moved>>
    BY <1>2 DEF O!Wake, Phase, States
  <2>2. \/ pc' = [pc EXCEPT ![c] = "woken"] /\ UNCHANGED out
        \/ Settled(c, "error", 0)
    BY <1>2 DEF O!Wake, O!Settled, Settled
  <2> QED BY <1>0, <2>1, <2>2, GoesOn, PromiseOfOne, Forgets
<1>3. CASE O!Drain(c)
  <2>1. /\ Phase(pc[c]) = "busy" /\ UNCHANGED <<cause, moved>>
        /\ Settled(c, "canceled", 0) /\ cause[c]
    BY <1>0, <1>3 DEF O!Drain, O!Settled, Settled, Phase, RequestReason
  <2> QED BY <1>0, <2>1, Forgets
<1>4. CASE O!Complete(c)
  <2>1. /\ pc[c] = "wait" /\ req[c].st = "done" /\ SettledAs(c, req[c])
        /\ cause' = cause /\ moved' = moved /\ Phase(pc[c]) = "busy"
    BY <1>4 DEF O!Complete, O!Ended, O!SettledAs, SettledAs, O!Settled, Settled,
         Phase
  <2>2. CASE req[c].err = "aborted"
    <3>1. Settled(c, "canceled", 0) /\ cause[c]
      BY <1>0, <2>1, <2>2 DEF SettledAs, RequestReason, Ended
    <3> QED BY <1>0, <2>1, <3>1, Forgets
  <2>3. CASE req[c].err # "aborted"
    <3>1. Settled(c, req[c].err, moved[c])
      BY <1>0, <2>1, <2>3 DEF SettledAs, OverlappedAccount, Waiting, InRequest,
           ReadsFile
    <3>2. req[c].err \in {"nil", "error"}
      BY <1>t, <2>3
    <3> QED BY <1>0, <2>1, <3>1, <3>2, Settles, PromiseOfOne
  <2> QED BY <2>2, <2>3
<1>5. CASE O!Serve(c)
  <2>1. Kernel(c) /\ Phase(pc[c]) = "busy" /\ part[c] <= len[c] /\ Pending(c)
    BY <1>0, <1>5, ServeSteps DEF Phase, Waiting, OverlappedAccount
  <2>2. c \in Readers => moved[c] = 0
    BY <1>0, <1>5, <2>1, ServeSteps DEF OverlappedAccount, InRequest, Pending
  <2> QED BY <1>0, <2>1, <2>2, KernelRefines, PromiseOfOne
<1> QED BY <1>1, <1>2, <1>3, <1>4, <1>5 DEF OverlappedWorks

LEMMA FileRefines ==
  ASSUME MayForget, isFile, OverlappedInv, OverlappedReasons, [O!Next]_(O!vars)
  PROVE  KeepsPromise
<1>1. Typed /\ CauseInv(Testing) /\ Testing \in SUBSET Testing
  BY DEF OverlappedInv, OverlappedReasons
<1>2. UNCHANGED <<opVars, job, streamVars, canceled, req, event, isFile>>
        => UNCHANGED opVars
  OBVIOUS
<1>3. \A c \in Callers : pc[c] = "check" => moved[c] = 0
  BY DEF OverlappedInv, OverlappedAccount, Early, Fresh
<1> QED BY <1>1, <1>2, <1>3, OverlappedMoves, FileWorksRefine, TestsRefine,
           CallsRefine, OthersRefine

LEMMA OverlappedRefines ==
  ASSUME MayForget, OverlappedInv, OverlappedReasons, [O!Next]_(O!vars)
  PROVE  Promised
<1>1. Typed /\ CauseInv(Testing) /\ Testing \in SUBSET Testing
  BY DEF OverlappedInv, OverlappedReasons
<1>2. UNCHANGED <<opVars, job, streamVars, canceled, req, event, isFile>>
        => UNCHANGED opVars
  OBVIOUS
<1>3. \A c \in Callers : pc[c] = "check" => moved[c] = 0
  BY DEF OverlappedInv, OverlappedAccount, Early, Fresh
<1> QED BY <1>1, <1>2, <1>3, OverlappedMoves, OverlappedWorksRefine,
           TestsRefine, CallsRefine, OthersRefine, PromiseOfOne

-----------------------------------------------------------------------------
(* The console: a read that takes the cancel event has a reason to end.      *)
ConsoleReasons ==
  WatchInv /\ ResetInv /\ CauseInv(Testing) /\ EventInv(Readers)

ConsoleReading(c) == K!Wait(c) \/ K!Issue(c) \/ K!Read(c)

ConsoleEnters(c) ==
  /\ pc[c] = "enter"
  /\ Goes(c, IF c \in Readers THEN "wait" ELSE "io") \/ Ends(c, "error", 0)

LEMMA ConsoleTestSteps ==
  ASSUME NEW c \in Callers, K!Operate(c), ConsoleInv
  PROVE  \/ ConsoleReading(c)
         \/ event' = event /\ ConsoleEnters(c)
         \/ event' = event /\ pc[c] = "io" /\ CallsObject(c) /\ c \in Writers
         \/ /\ FlagTests(c)
            /\ \A e \in Readers : event'[Dir(e)] = "set" => event[Dir(e)] = "set"
            /\ ContextUndo(c) /\ c \in Readers => event'[Dir(c)] # "set"
<1> USE DEF FlagTests, K!consoleVars, K!streamVars, streamVars, K!Dir, Dir, K!Settled,
        Settled, ConsoleInv, ConsoleTyped
<1>1. CASE (K!Check(c) \/ K!ContextStore(c)) /\ UNCHANGED <<req, K!consoleVars>>
  BY <1>1 DEF K!Check, Check, K!Proceed, Proceed, K!ContextStore, ContextStore,
       ContextUndo
<1>2. CASE K!ContextResetEvent(c)
  <2>1. ContextUndo(c)
    BY <1>2 DEF K!ContextResetEvent, K!ContextUndo, ContextUndo, K!Proceed,
         Proceed
  <2>2. CASE c \in Readers
    <3>1. event' = [event EXCEPT !["read"] = IF @ = "closed" THEN @ ELSE "clear"]
      BY <1>2, <2>2 DEF K!ContextResetEvent, K!ResetReadEvent
    <3>2. event'["read"] # "set"
      BY <3>1 DEF Directions
    <3> QED BY <2>1, <3>2
  <2>3. CASE c \notin Readers
    BY <1>2, <2>1, <2>3 DEF K!ContextResetEvent
  <2> QED BY <2>2, <2>3
<1>3. CASE K!Enter(c)
  BY <1>3 DEF K!Enter, ConsoleEnters, Goes, Ends
<1>4. CASE K!WriteSome(c) \/ K!WriteReturn(c)
  BY <1>4 DEF CallsObject, Ends, K!WriteSome, K!RwWriteSome, RwWriteSome,
       K!Least, Least, K!WriteReturn, K!WroteAll, WroteAll, K!WriteFails,
       WriteFails
<1>5. CASE K!Return(c) /\ UNCHANGED <<canceled, req, K!consoleVars>>
  BY <1>5 DEF K!Return, Return, ContextUndo
<1> QED BY <1>1, <1>2, <1>3, <1>4, <1>5 DEF K!Operate, ConsoleReading

LEMMA ConsoleMoves ==
  ASSUME ConsoleInv, [K!Next]_(K!vars)
  PROVE  \/ \E c \in Callers : ConsoleReading(c) \/ K!Serve(c)
         \/ \E c \in Callers : event' = event /\ ConsoleEnters(c)
         \/ \E c \in Callers :
              event' = event /\ pc[c] = "io" /\ CallsObject(c) /\ c \in Writers
         \/ \E c \in Callers :
              /\ FlagTests(c)
              /\ \A e \in Readers : event'[Dir(e)] = "set" => event[Dir(e)] = "set"
              /\ ContextUndo(c) /\ c \in Readers => event'[Dir(c)] # "set"
         \/ \E c \in Callers : K!BeginOperation(c) /\ Calls(c)
         \/ \E c \in Callers : K!Watch(c) /\ WatcherMoves(c)
         \/ \E x \in Cancelers : K!Manage(x) /\ MethodMoves(x, ConsoleSteps)
         \/ event' = event /\ OthersMove(ConsoleSteps)
         \/ UNCHANGED <<opVars, job, streamVars, canceled, event>>
<1>1. K!Callers = Callers
  BY DEF K!Callers, Callers
<1>2. UNCHANGED K!vars => UNCHANGED <<opVars, job, streamVars, canceled, event>>
  BY DEF K!vars, K!opVars, opVars, K!streamVars, streamVars, K!consoleVars
<1>3. ASSUME K!Environment
      PROVE  \/ \E c \in Callers : K!BeginOperation(c) /\ Calls(c)
             \/ event' = event /\ OthersMove(ConsoleSteps)
             \/ UNCHANGED <<opVars, job, streamVars, canceled, event>>
  BY <1>3, ConsoleUsed
<1> QED BY <1>1, <1>2, <1>3, ConsoleTestSteps, ConsoleWatches, ConsoleManages
        DEF K!Next, K!System

LEMMA ConsoleBeyond ==
  ASSUME ConsoleInv, NEW c \in Callers,
         ConsoleReading(c) \/ K!Serve(c) \/ ConsoleEnters(c)
  PROVE  Beyond(c) \/ UNCHANGED <<pc, job, ctx, watch, cause, canceled>>
<1> USE DEF Beyond, States
<1>1. CASE K!Wait(c)
  BY <1>1 DEF K!Wait, K!Settled
<1>2. CASE K!Issue(c)
  BY <1>2 DEF K!Issue, K!Settled
<1>3. CASE K!Read(c)
  BY <1>3 DEF K!Read, K!SettledAs, K!Settled
<1>4. CASE K!Serve(c)
  BY <1>4 DEF K!Serve, K!Swallow, K!Kernel, K!Fill, K!Flush, K!Break, K!opVars
<1>5. CASE ConsoleEnters(c)
  BY <1>5 DEF ConsoleEnters, Goes, Ends, Settled
<1> QED BY <1>1, <1>2, <1>3, <1>4, <1>5 DEF ConsoleReading

LEMMA ConsoleReasoned ==
  ASSUME OneEach, ConsoleInv, WatchInv, CauseInv(Testing),
         \/ \E c \in Callers : ConsoleReading(c) \/ K!Serve(c)
         \/ \E c \in Callers : K!Watch(c)
         \/ \E x \in Cancelers : K!Manage(x)
         \/ UNCHANGED event
  PROVE  Reasoned(Readers)
<1>0. /\ event \in [Directions -> {"clear", "set", "closed"}]
      /\ \A c \in Readers : c \in Callers /\ Dir(c) = "read"
      /\ "read" \in Directions
  BY DEF ConsoleInv, ConsoleTyped, Callers, Dir, Directions
<1> USE <1>0 DEF Reasoned
<1>1. event' = event => Reasoned(Readers)
  OBVIOUS
<1>2. K!ResetReadEvent => Reasoned(Readers)
  BY DEF K!ResetReadEvent
<1>3. ASSUME NEW c \in Callers, ConsoleReading(c) \/ K!Serve(c) PROVE Reasoned(Readers)
  BY <1>1, <1>2, <1>3 DEF ConsoleReading, K!Wait, K!Issue, K!Read, K!Serve,
       K!Swallow, K!consoleVars
<1>4. ASSUME NEW c \in Readers, watch[c] = "signaling", K!SetReadEvent, WatcherMoves(c)
      PROVE  Reasoned(Readers)
  <2>1. cause[c] /\ \A e \in Readers : e = c
    BY <1>4 DEF WatchInv, CauseInv, OneEach
  <2>2. cause'[c]
    BY <1>4, <2>1 DEF WatcherMoves, CausesGiven, GiveCause, GiveCauseToAll
  <2> QED BY <1>4, <2>1, <2>2
<1>5. ASSUME K!SetReadEvent, GiveCause("read"), pc' = pc PROVE Reasoned(Readers)
  BY <1>5 DEF GiveCause, InProgress
<1>6. ASSUME NEW d \in Directions, event' = [event EXCEPT ![d] = "closed"]
      PROVE  Reasoned(Readers)
  BY <1>6
<1>7. ASSUME NEW c \in Callers, K!Watch(c) PROVE Reasoned(Readers)
  BY <1>1, <1>4, <1>7, ConsoleWatches
<1>8. ASSUME NEW x \in Cancelers, K!Manage(x) PROVE Reasoned(Readers)
  <2>1. pc' = pc
    BY <1>8, ConsoleManages DEF MethodMoves
  <2> QED BY <1>1, <1>2, <1>5, <1>6, <1>8, <2>1, ConsoleManages
<1> QED BY <1>1, <1>3, <1>7, <1>8

LEMMA ConsoleReasonsKept ==
  ASSUME OneEach, ConsoleInv, ConsoleReasons, [K!Next]_(K!vars)
  PROVE  ConsoleReasons'
<1>1. /\ Typed /\ Jobs(ConsoleSteps) /\ WatchInv /\ ResetInv /\ CauseInv(Testing)
      /\ EventInv(Readers) /\ Readers \in SUBSET Callers
  BY DEF ConsoleInv, ConsoleReasons, Callers
<1> USE DEF ConsoleReasons
<1>2. CASE Around(ConsoleSteps) /\ Reasoned(Readers)
  BY <1>1, <1>2, WatchKept, ResetKept, CauseAround, EventAround
<1>3. ASSUME NEW c \in Callers, FlagTests(c),
             \A e \in Readers : event'[Dir(e)] = "set" => event[Dir(e)] = "set",
             ContextUndo(c) /\ c \in Readers => event'[Dir(c)] # "set"
      PROVE  ConsoleReasons'
  BY <1>1, <1>3, WatchKept, ResetKept, CauseTests, EventTests DEF Tests
<1>4. ASSUME NEW c \in Callers, K!BeginOperation(c), Calls(c)
      PROVE  ConsoleReasons'
  <2>1. PICK k \in {"none", "live"}, l \in K!Lengths(c) :
          K!Begin(c, k, l, \/ k = "none" /\ canceled[Dir(c)]
                           \/ c \in Readers /\ K!LeftOver)
    BY <1>4 DEF K!BeginOperation, K!Dir, Dir
  <2> DEFINE b == (k = "none" /\ canceled[Dir(c)]) \/ (c \in Readers /\ K!LeftOver)
  <2>2. Begin(c, k, l, b)
    BY <2>1 DEF K!Begin, Begin, K!ResetPending, ResetPending, K!Resets, Resets,
         K!Dir, Dir, K!NoResult, NoResult, K!streamVars, streamVars
  <2>3. event' = event /\ canceled' = canceled
    BY <1>4 DEF K!BeginOperation, K!consoleVars
  <2>4. c \in Readers /\ event[Dir(c)] = "set" => b \/ (k = "live" /\ canceled[Dir(c)])
    BY DEF K!LeftOver, Dir
  <2> HIDE DEF b
  <2>5. EventInv(Readers)'
    BY <1>1, <2>2, <2>3, <2>4, EventCalls
  <2> QED BY <1>1, <1>4, <2>5, WatchKept, ResetKept, CauseCalls
<1>5. \/ Around(ConsoleSteps) /\ Reasoned(Readers)
      \/ \E c \in Callers :
              /\ FlagTests(c)
              /\ \A e \in Readers : event'[Dir(e)] = "set" => event[Dir(e)] = "set"
              /\ ContextUndo(c) /\ c \in Readers => event'[Dir(c)] # "set"
      \/ \E c \in Callers : K!BeginOperation(c) /\ Calls(c)
  BY <1>1, ConsoleMoves, ConsoleBeyond, CallsObjectBeyond, ConsoleReasoned
     DEF Around, opVars
<1> QED BY <1>2, <1>3, <1>4, <1>5

ConsoleKeeps == KeepsCounts /\ (ConsoleReasons => KeepsPromise)

LEMMA ConsoleReadingRefines ==
  ASSUME ConsoleInv, NEW c \in Callers, ConsoleReading(c)
  PROVE  ConsoleKeeps
<1>0. Typed /\ RequestTypeOK /\ ConsoleAccount(c)
  BY DEF ConsoleInv
<1>k. KeepsPromise => ConsoleKeeps
  BY PromiseKeepsCounts DEF ConsoleKeeps
<1>1. pc[c] \in {"wait", "woken", "io"} /\ UNCHANGED <<moved, cause>>
  BY DEF ConsoleReading, K!Wait, K!Issue, K!Read
<1>2. Phase(pc[c]) = "busy" /\ {"wait", "woken", "io"} \in SUBSET States
  BY <1>1 DEF Phase, States
<1>3. ASSUME NEW q \in {"wait", "woken", "io"}, pc' = [pc EXCEPT ![c] = q], UNCHANGED out
      PROVE  ConsoleKeeps
  <2>1. q \in States /\ q \notin {"idle", "join"}
    BY <1>2
  <2>2. KeepsPromise
    BY <1>0, <1>1, <1>2, <1>3, <2>1, GoesOn
  <2> QED BY <1>k, <2>2
<1>4. ASSUME Settled(c, "canceled", 0), moved[c] = 0, ConsoleReasons => cause[c]
      PROVE  ConsoleKeeps
  BY <1>0, <1>1, <1>2, <1>4, SettlesCanceled DEF ConsoleKeeps
<1>5. ASSUME NEW e \in {"nil", "error"}, Settled(c, e, moved[c])
      PROVE  ConsoleKeeps
  <2>1. KeepsPromise
    BY <1>0, <1>1, <1>2, <1>5, Settles
  <2> QED BY <1>k, <2>1
<1>6. CASE K!Wait(c)
  <2>1. c \in Readers /\ pc[c] = "wait" /\ moved[c] = 0
    BY <1>0, <1>6 DEF K!Wait, ConsoleAccount
  <2>2. CASE event["read"] = "set" /\ Settled(c, "canceled", 0)
    <3>1. ConsoleReasons => cause[c]
      BY <2>1, <2>2 DEF ConsoleReasons, EventInv, Dir
    <3> QED BY <1>4, <2>1, <2>2, <3>1
  <2>3. CASE Settled(c, "error", 0)
    BY <1>5, <2>1, <2>3
  <2> QED BY <1>3, <1>6, <2>2, <2>3 DEF K!Wait, K!Settled, Settled
<1>7. CASE K!Issue(c)
  <2>1. pc[c] = "woken" /\ Dir(c) = "read" /\ moved[c] = 0
    BY <1>0, <1>7 DEF K!Issue, ConsoleAccount, Dir
  <2>2. CASE canceled["read"] /\ Settled(c, "canceled", 0)
    <3>1. ConsoleReasons => cause[c]
      BY <2>1, <2>2 DEF ConsoleReasons, CauseInv, Testing
    <3> QED BY <1>4, <2>1, <2>2, <3>1
  <2> QED BY <1>3, <1>7, <2>2 DEF K!Issue, K!Settled, Settled
<1>8. CASE K!Read(c)
  <2>1. pc[c] = "io" /\ req[c].st = "done"
    BY <1>8 DEF K!Read, K!Ended
  <2>2. c \in Readers /\ RequestCounted(c) /\ Dir(c) = "read"
    BY <1>0, <2>1 DEF ConsoleAccount, Dir
  <2>3. CASE req[c].err = "aborted" /\ canceled["read"] /\ Settled(c, "canceled", 0)
    <3>1. ConsoleReasons => cause[c]
      BY <2>1, <2>2, <2>3 DEF ConsoleReasons, CauseInv, Testing
    <3> QED BY <1>4, <2>2, <2>3, <3>1 DEF RequestCounted
  <2>4. CASE req[c].err # "aborted" /\ Settled(c, req[c].err, req[c].n)
    <3>1. req[c].n = moved[c] /\ req[c].err \in {"nil", "error"}
      BY <1>0, <2>1, <2>2, <2>4 DEF RequestCounted, RequestTypeOK
    <3> QED BY <1>5, <2>4, <3>1
  <2> QED BY <1>3, <1>8, <2>3, <2>4 DEF K!Read, K!SettledAs, K!Settled, Settled
<1> QED BY <1>6, <1>7, <1>8 DEF ConsoleReading

LEMMA ConsoleServeRefines ==
  ASSUME ConsoleInv, NEW c \in Callers, K!Serve(c)
  PROVE  KeepsPromise
<1>0. Typed /\ ConsoleAccount(c)
  BY DEF ConsoleInv
<1>1. CASE K!Kernel(c)
  <2>1. Kernel(c) /\ Pending(c)
    BY <1>1 DEF K!Kernel, Kernel, K!Fill, Fill, K!Flush, Flush, K!Break, Break,
         K!Pending, Pending, K!Done, Done, K!Least, Least, K!opVars, opVars,
         K!streamVars, streamVars
  <2>2. /\ Phase(pc[c]) = "busy" /\ part[c] <= len[c] /\ moved[c] = 0
    BY <1>0, <2>1 DEF ConsoleAccount, RequestCounted, Pending, Phase
  <2> QED BY <1>0, <2>1, <2>2, KernelRefines
<1>2. CASE K!Swallow(c)
  BY <1>2, Stutters DEF K!Swallow, K!opVars
<1> QED BY <1>1, <1>2 DEF K!Serve

LEMMA ConsoleRefines ==
  ASSUME ConsoleInv, [K!Next]_(K!vars)
  PROVE  ConsoleKeeps
<1>1. /\ Typed /\ Testing \in SUBSET Testing
      /\ ConsoleReasons => CauseInv(Testing)
  BY DEF ConsoleInv, ConsoleReasons
<1>2. UNCHANGED <<opVars, job, streamVars, canceled, event>> => UNCHANGED opVars
  OBVIOUS
<1>3. ASSUME NEW c \in Callers, ConsoleEnters(c) PROVE KeepsPromise
  <2>1. /\ Phase(pc[c]) = "busy" /\ {"wait", "io"} \in SUBSET States
        /\ moved[c] = 0
    BY <1>3 DEF ConsoleEnters, Phase, States, ConsoleInv, ConsoleAccount,
       Account, Early, Fresh
  <2>2. CASE Ends(c, "error", 0)
    BY <1>1, <2>1, <2>2, Settles DEF Ends
  <2>3. ASSUME NEW q \in {"wait", "io"}, Goes(c, q) PROVE KeepsPromise
    BY <1>1, <2>1, <2>3, GoesOn DEF Goes
  <2> QED BY <1>3, <2>2, <2>3 DEF ConsoleEnters
<1>4. ASSUME NEW c \in Writers, pc[c] = "io", CallsObject(c)
      PROVE  ConsoleKeeps
  <2>1. ConsoleAccount(c) /\ c \in Callers /\ c \notin Readers
    BY <1>4, OperationAssumption DEF ConsoleInv, OperationAssumption, Callers
  <2>2. Account(c)
    BY <2>1 DEF ConsoleAccount
  <2> QED BY <1>1, <1>4, <2>1, <2>2, CallsObjectRefines
          DEF ConsoleKeeps
<1>5. ASSUME NEW c \in Callers, FlagTests(c)
      PROVE  ConsoleKeeps
  <2>1. pc[c] = "check" => moved[c] = 0
    BY DEF ConsoleInv, ConsoleAccount, Account, Early, Fresh
  <2> QED BY <1>1, <1>5, <2>1, TestsRefine DEF ConsoleKeeps
<1>6. CASE KeepsPromise
  BY <1>6, PromiseKeepsCounts DEF ConsoleKeeps
<1> QED BY <1>1, <1>2, <1>3, <1>4, <1>5, <1>6, ConsoleMoves,
       ConsoleReadingRefines, ConsoleServeRefines, CallsRefine, OthersRefine

-----------------------------------------------------------------------------
(* Each backend by its own specification: any number of callers in both      *)
(* directions, of cancelers, and of bytes, where the run has one caller that *)
(* is in use and few lengths.                                                *)
LEMMA StartsReasoned ==
  ASSUME OperationInit
  PROVE  /\ WatchInv /\ CauseInv(Testing) /\ CauseInv({})
         /\ OverlappedReasons /\ ConsoleReasons
<1>1. WatchInv /\ CauseInv(Testing) /\ CauseInv({})
  BY DEF OperationInit, WatchInv, CauseInv
<1>2. ResetInv /\ EventInv(Callers) /\ EventInv(Readers)
  BY RestResets DEF OperationInit, ResetInv, EventInv, Callers
<1>3. \A c \in Callers : RequestReason(c)
  BY DEF OperationInit, RequestReason
<1> QED BY <1>1, <1>2, <1>3 DEF OverlappedReasons, ConsoleReasons

LEMMA StartsPromised ==
  ASSUME OperationInit
  PROVE  /\ Promise!ContextInit /\ Counts!ContextInit
         /\ PromiseOfAll!ContextInit
BY DEF OperationInit, NoResult, Promise!ContextInit, Promise!NoResult,
   Counts!ContextInit, Counts!NoResult, PromiseOfAll!ContextInit,
   PromiseOfAll!NoResult

LEMMA BackendsStart ==
  /\ D!Init => OperationInit
  /\ C!Init => OperationInit
  /\ O!Init => OperationInit
  /\ K!Init => OperationInit
BY DEF OperationInit, Callers, NoResult,
   D!Init, D!OperationInit, D!Callers, D!NoResult,
   C!Init, C!OperationInit, C!Callers, C!NoResult,
   O!Init, O!OperationInit, O!Callers, O!NoResult,
   K!Init, K!OperationInit, K!Callers, K!NoResult

(***************************************************************************)
(* The deadline backend keeps the promise of ContextIO (ctxio.go:21-72),   *)
(* with one caller in each direction: ErrCanceled has a reason, and the    *)
(* only count that is dropped is that of a canceled write                  *)
(* (ctxio_deadline.go:113-122).                                            *)
(***************************************************************************)
THEOREM DeadlineImplements ==
  ASSUME OneEach, "canceled" \in Forgotten
  PROVE  D!Spec => ImplementsContextIO
<1> DEFINE IInv == DeadlineInv /\ WatchInv /\ CauseInv(Testing)
<1>1. D!Init => Promise!ContextInit /\ IInv
  BY BackendsStart, StartsPromised, StartsReasoned, DeadlineInit
<1>2. IInv /\ [D!Next]_(D!vars) => IInv'
  BY DeadlineStep, DeadlineReasons
<1>3. IInv /\ [D!Next]_(D!vars) => [Promise!ContextNext]_Promise!contextVars
  BY DeadlineRefines DEF KeepsPromise
<1> QED BY <1>1, <1>2, <1>3, PTL
        DEF D!Spec, ImplementsContextIO, Promise!ContextSpec

(***************************************************************************)
(* With any number of overlapping operations of either direction, those of *)
(* the deadline backend return the bytes they moved, also when a deadline  *)
(* or an error ends them, but for a canceled write, which returns 0        *)
(* (ctxio_deadline.go:113-122).                                            *)
(***************************************************************************)
THEOREM DeadlineCounts ==
  ASSUME "canceled" \in Forgotten
  PROVE  D!Spec => CountsExact
<1>1. D!Init => Counts!ContextInit /\ DeadlineInv
  BY BackendsStart, StartsPromised, DeadlineInit
<1>2. DeadlineInv /\ [D!Next]_(D!vars) => DeadlineInv'
  BY DeadlineStep
<1>3. DeadlineInv /\ [D!Next]_(D!vars) => [Counts!ContextNext]_Counts!contextVars
  BY DeadlineRefines DEF KeepsCounts
<1> QED BY <1>1, <1>2, <1>3, PTL DEF D!Spec, CountsExact, Counts!ContextSpec

(***************************************************************************)
(* The closable backend keeps the promise of ContextIO with one caller in  *)
(* each direction, however cancels, Close and watchers race to close the   *)
(* object (ctxio_closable.go:140-177); a canceled write may report 0.      *)
(***************************************************************************)
THEOREM ClosableImplements ==
  ASSUME OneEach, "canceled" \in Forgotten
  PROVE  C!Spec => ImplementsContextIO
<1> DEFINE IInv == CloseInv /\ WatchInv /\ CauseInv({})
<1>1. C!Init => Promise!ContextInit /\ IInv
  BY BackendsStart, StartsPromised, StartsReasoned, CloseInit
<1>2. IInv /\ [C!Next]_(C!vars) => IInv'
  BY CloseStep, CloseReasons
<1>3. IInv /\ [C!Next]_(C!vars) => [Promise!ContextNext]_Promise!contextVars
  BY CloseRefines DEF KeepsPromise
<1> QED BY <1>1, <1>2, <1>3, PTL
        DEF C!Spec, ImplementsContextIO, Promise!ContextSpec

(***************************************************************************)
(* The same of the closable backend, whose operations may be ended by the  *)
(* closing of the object under them (ctxio_closable.go:140-177).           *)
(***************************************************************************)
THEOREM ClosableCounts ==
  ASSUME "canceled" \in Forgotten
  PROVE  C!Spec => CountsExact
<1>1. C!Init => Counts!ContextInit /\ CloseInv
  BY BackendsStart, StartsPromised, CloseInit
<1>2. CloseInv /\ [C!Next]_(C!vars) => CloseInv'
  BY CloseStep
<1>3. CloseInv /\ [C!Next]_(C!vars) => [Counts!ContextNext]_Counts!contextVars
  BY CloseRefines DEF KeepsCounts
<1> QED BY <1>1, <1>2, <1>3, PTL DEF C!Spec, CountsExact, Counts!ContextSpec

(***************************************************************************)
(* The console backend keeps the promise of ContextIO with one caller in   *)
(* each direction (ctxio_windows_console.go:235-301): a ReadConsole that   *)
(* is aborted, comes back empty or swallows a record is issued again, and  *)
(* every count is exact, whatever Forgotten is.                            *)
(***************************************************************************)
THEOREM ConsoleImplements ==
  ASSUME OneEach
  PROVE  K!Spec => ImplementsContextIO
<1> DEFINE IInv == ConsoleInv /\ ConsoleReasons
<1>1. K!Init => Promise!ContextInit /\ IInv
  BY BackendsStart, StartsPromised, StartsReasoned, ConsoleInit
<1>2. IInv /\ [K!Next]_(K!vars) => IInv'
  BY ConsoleStep, ConsoleReasonsKept
<1>3. IInv /\ [K!Next]_(K!vars) => [Promise!ContextNext]_Promise!contextVars
  BY ConsoleRefines DEF ConsoleKeeps, KeepsPromise
<1> QED BY <1>1, <1>2, <1>3, PTL
        DEF K!Spec, ImplementsContextIO, Promise!ContextSpec

(***************************************************************************)
(* The same of the console backend with no exception: a ReadFile that is   *)
(* aborted took nothing, and one that comes back with data is returned     *)
(* (ctxio_windows_console.go:235-301).                                     *)
(***************************************************************************)
THEOREM ConsoleCounts == K!Spec => CountsExact
<1>1. K!Init => Counts!ContextInit /\ ConsoleInv
  BY BackendsStart, StartsPromised, ConsoleInit
<1>2. ConsoleInv /\ [K!Next]_(K!vars) => ConsoleInv'
  BY ConsoleStep
<1>3. ConsoleInv /\ [K!Next]_(K!vars) => [Counts!ContextNext]_Counts!contextVars
  BY ConsoleRefines DEF ConsoleKeeps, KeepsCounts
<1> QED BY <1>1, <1>2, <1>3, PTL DEF K!Spec, CountsExact, Counts!ContextSpec

(***************************************************************************)
(* The overlapped backend on a file or a named pipe keeps the promise of   *)
(* ContextIO with one caller in each direction: an operation that drains   *)
(* or finds its request aborted was canceled                               *)
(* (ctxio_windows_overlapped.go:165-222), and only canceled and failed     *)
(* operations may drop their count.                                        *)
(***************************************************************************)
THEOREM OverlappedImplements ==
  ASSUME OneEach, Forgotten = {"canceled", "error"}
  PROVE  O!Spec => AllImplementContextIO
<1> DEFINE IInv == OverlappedInv /\ OverlappedReasons
<1>1. O!Init => PromiseOfAll!ContextInit /\ IInv
  BY BackendsStart, StartsPromised, StartsReasoned, OverlappedInit
<1>2. IInv /\ [O!Next]_(O!vars) => IInv'
  BY OverlappedStep, OverlappedReasonsKept
<1>3. IInv /\ [O!Next]_(O!vars)
        => [PromiseOfAll!ContextNext]_PromiseOfAll!contextVars
  BY OverlappedRefines DEF Promised, MayForget
<1> QED BY <1>1, <1>2, <1>3, PTL
        DEF O!Spec, AllImplementContextIO, PromiseOfAll!ContextSpec

LEMMA FileStays ==
  ASSUME OverlappedInv, [O!Next]_(O!vars)
  PROVE  isFile' = isFile
<1>1. ASSUME NEW c \in Callers, OverlappedWorks(c) PROVE isFile' = isFile
  BY <1>1, ServeSteps DEF OverlappedWorks, O!Issue, O!Complete, O!Wake, O!Drain,
       O!eventVars
<1>2. ASSUME NEW c \in Callers, O!BeginOperation(c) PROVE isFile' = isFile
  BY <1>2 DEF O!BeginOperation, O!eventVars
<1> QED BY <1>1, <1>2, OverlappedMoves, OverlappedWatches, OverlappedManages

(* An overlapped object that is a file stays one.                            *)
FileInv == isFile /\ OverlappedInv /\ OverlappedReasons

LEMMA FileInvStep ==
  ASSUME OneEach
  PROVE  FileInv /\ [O!Next]_(O!vars) => FileInv'
<1> SUFFICES ASSUME FileInv, [O!Next]_(O!vars) PROVE FileInv'
  OBVIOUS
<1>1. OverlappedInv' /\ OverlappedReasons'
  BY OverlappedStep, OverlappedReasonsKept DEF FileInv
<1>2. isFile' = isFile
  BY FileStays DEF FileInv
<1>3. isFile \in BOOLEAN /\ isFile' \in BOOLEAN
  BY <1>1 DEF FileInv, OverlappedInv, OverlappedTyped
<1>4. isFile
  BY DEF FileInv
<1>5. isFile'
  BY <1>2, <1>3, <1>4, SMT
<1> QED BY <1>1, <1>5 DEF FileInv

(***************************************************************************)
(* On a file the overlapped backend keeps the promise with one exception:  *)
(* a canceled or failed write may report 0 although its bytes are on the   *)
(* disk (ctxio_windows_overlapped.go:211-221).  The counts of all reads    *)
(* are exact: an aborted or abandoned one advances no offset (lines        *)
(* 114-134).                                                               *)
(***************************************************************************)
THEOREM OverlappedFileImplements ==
  ASSUME OneEach, Forgotten = {"canceled", "error"}
  PROVE  O!Spec /\ isFile => ImplementsContextIO
<1>1. O!Init /\ isFile => Promise!ContextInit /\ FileInv
  BY BackendsStart, StartsPromised, StartsReasoned, OverlappedInit DEF FileInv
<1>2. FileInv /\ [O!Next]_(O!vars) => FileInv'
  BY FileInvStep
<1>3. FileInv /\ [O!Next]_(O!vars) => [Promise!ContextNext]_Promise!contextVars
  BY FileRefines DEF KeepsPromise, FileInv, MayForget
<1> QED BY <1>1, <1>2, <1>3, PTL
        DEF O!Spec, ImplementsContextIO, Promise!ContextSpec

(***************************************************************************)
(* The object of the closable backend is closed once                       *)
(* (ctxio_closable.go:165-177), with any number of callers and cancelers.  *)
(***************************************************************************)
THEOREM ClosableClosesOnce == C!Spec => []C!ClosedOnce
<1>1. OnceInv => C!ClosedOnce
  BY DEF OnceInv, C!ClosedOnce
<1> QED BY <1>1, OnceInit, OnceStep, PTL DEF C!Spec

(***************************************************************************)
(* The kernel holds the buffer of no operation that has returned           *)
(* (ctxio_windows_overlapped.go:211-218), with any number of callers and   *)
(* cancelers in both directions, unless Close closed the cancel event.     *)
(***************************************************************************)
THEOREM OverlappedOwnsRequests == O!Spec => []O!RequestsOwned
<1>1. OwnInv => O!RequestsOwned
  BY DEF OwnInv
<1> QED BY <1>1, OwnInit, OwnStep, PTL DEF O!Spec

-----------------------------------------------------------------------------
(* The specification of the run: a step of it is one of the backend of this  *)
(* behaviour.                                                                *)
FlagInv ==
  /\ kind = "closable"   => OnceInv
  /\ kind = "overlapped" => OwnInv
  /\ kind = "console"    => ConsoleInv

LEMMA KindStays == [MCNext]_mcVars => kind' = kind
BY DEF MCNext, Bounds, mcVars, kept

LEMMA BackendStep ==
  ASSUME [MCNext]_mcVars
  PROVE  /\ kind = "deadline"   => [D!Next]_(D!vars)
         /\ kind = "closable"   => [C!Next]_(C!vars)
         /\ kind = "overlapped" => [O!Next]_(O!vars)
         /\ kind = "console"    => [K!Next]_(K!vars)
<1>1. CASE MCNext
  BY <1>1 DEF MCNext
<1>2. CASE UNCHANGED mcVars
  <2>1. UNCHANGED D!vars
    BY <1>2 DEF mcVars, opVars, streamVars, D!vars, D!opVars, D!streamVars,
         D!deadlineVars
  <2>2. UNCHANGED C!vars
    BY <1>2 DEF mcVars, opVars, streamVars, C!vars, C!opVars, C!streamVars,
         C!closeVars, C!guardVars
  <2>3. UNCHANGED O!vars
    BY <1>2 DEF mcVars, opVars, streamVars, O!vars, O!opVars, O!streamVars,
         O!eventVars
  <2>4. UNCHANGED K!vars
    BY <1>2 DEF mcVars, opVars, streamVars, K!vars, K!opVars, K!streamVars,
         K!consoleVars
  <2> QED BY <2>1, <2>2, <2>3, <2>4
<1> QED BY <1>1, <1>2

LEMMA FlagInvInit == MCInit => FlagInv
BY OnceInit, OwnInit, ConsoleInit DEF MCInit, FlagInv

LEMMA FlagInvStep == FlagInv /\ [MCNext]_mcVars => FlagInv'
BY KindStays, BackendStep, OnceStep, OwnStep, ConsoleStep DEF FlagInv

LEMMA FlagInvAlways == MCSpec => []FlagInv
BY FlagInvInit, FlagInvStep, PTL DEF MCSpec

(***************************************************************************)
(* Watchers, cancelers and Close race to close the object, and it is       *)
(* closed once (ctxio_closable.go:165-177), whoever comes first.           *)
(***************************************************************************)
THEOREM FlagClosesOnce == MCSpec => []ClosedOnce
<1>1. FlagInv => ClosedOnce
  BY DEF FlagInv, OnceInv, C!ClosedOnce, ClosedOnce
<1> QED BY <1>1, FlagInvAlways, PTL

(***************************************************************************)
(* The kernel holds the buffer of no operation that has returned, however  *)
(* cancels, resets, Close and the kernel interleave: on the overlapped     *)
(* backend unless Close closed the event of its direction                  *)
(* (ctxio_windows_overlapped.go:211-218), on the console without           *)
(* exception, where a request is pending only while overlappedRead waits   *)
(* for it (ctxio_windows_console.go:388-413).                              *)
(***************************************************************************)
THEOREM FlagOwnsRequests == MCSpec => []RequestsOwned
<1>1. ConsoleInv => \A c \in Callers : Pending(c) => pc[c] = "io"
  BY DEF ConsoleInv, ConsoleAccount, Pending
<1>2. FlagInv => RequestsOwned
  BY <1>1 DEF FlagInv, OwnInv, RequestsOwned
<1> QED BY <1>2, FlagInvAlways, PTL

(* The offset of a direction of a file belongs to one operation.             *)
FilesOneEach == isFile => OneEach

(* The types and the count: each backend by its own invariant.               *)
BackendInv ==
  /\ kind \in {"deadline", "closable", "overlapped", "console"}
  /\ kind = "deadline"   => DeadlineInv
  /\ kind = "closable"   => CloseInv
  /\ kind = "overlapped" => OverlappedInv /\ FilesOneEach
  /\ kind = "console"    => ConsoleInv

LEMMA BackendInvAlways == MCSpec /\ FilesOneEach => []BackendInv
<1>1. MCInit /\ FilesOneEach => BackendInv
  BY DeadlineInit, CloseInit, OverlappedInit, ConsoleInit
     DEF MCInit, BackendInv, FilesOneEach
<1>2. BackendInv /\ [MCNext]_mcVars => BackendInv'
  <2> SUFFICES ASSUME BackendInv, [MCNext]_mcVars PROVE BackendInv'
    OBVIOUS
  <2>1. CASE kind = "overlapped"
    <3>1. OverlappedInv' /\ isFile' = isFile
      BY <2>1, BackendStep, OverlappedStep, FileStays DEF BackendInv,
           FilesOneEach
    <3> QED BY <2>1, <3>1, KindStays DEF BackendInv, FilesOneEach, OneEach
  <2>2. CASE kind # "overlapped"
    BY <2>2, KindStays, BackendStep, DeadlineStep, CloseStep, ConsoleStep
       DEF BackendInv
  <2> QED BY <2>1, <2>2
<1> QED BY <1>1, <1>2, PTL DEF MCSpec

LEMMA BackendsTyped == BackendInv => TypeOK
<1> USE JobsTyped DEF Directions, Callers, Typed, OperationTypeOK, StreamTypeOK,
                      RequestTypeOK, JobTypeOK
<1>1. DeadlineInv => D!TypeOK
  BY DEF DeadlineInv, D!TypeOK, D!OperationTypeOK, D!StreamTypeOK, D!JobTypeOK,
     DeadlineSteps, D!Directions, D!Callers
<1>2. CloseInv => C!TypeOK
  <2>1. CloseInv => closed \in BOOLEAN
    BY DEF CloseInv, OnceInv
  <2>2. CloseInv => closes \in Nat
    BY DEF CloseInv, OnceInv
  <2> QED BY <2>1, <2>2 DEF CloseInv, C!TypeOK, C!OperationTypeOK,
         C!StreamTypeOK, C!JobTypeOK, CloseSteps, C!Directions, C!Callers
<1>3. OverlappedInv => O!TypeOK
  BY DEF OverlappedInv, OverlappedTyped, O!TypeOK, O!OperationTypeOK,
       O!StreamTypeOK, O!JobTypeOK, O!RequestTypeOK, OverlappedSteps,
       O!Directions, O!Callers
<1>4. ConsoleInv => K!TypeOK
  BY DEF ConsoleInv, ConsoleTyped, K!TypeOK, K!OperationTypeOK, K!StreamTypeOK,
     K!JobTypeOK, K!RequestTypeOK, ConsoleSteps, K!Directions, K!Callers
<1> QED BY <1>1, <1>2, <1>3, <1>4 DEF BackendInv, TypeOK

(***************************************************************************)
(* Type correctness of the backends with a flag, with any number of        *)
(* callers; where the object is a file, with one caller in each direction, *)
(* so that its offset is advanced by one operation.                        *)
(***************************************************************************)
THEOREM FlagTypeCorrect == MCSpec /\ FilesOneEach => []TypeOK
BY BackendInvAlways, BackendsTyped, PTL

(***************************************************************************)
(* A read that returns ErrCanceled has taken nothing, and an operation     *)
(* that ends in any other way reports what it moved (README.md:34-36), on  *)
(* all four, for buffers of any length and any number of callers, with one *)
(* caller in each direction on a file.  The exceptions are those that the  *)
(* property names: a read on a named pipe that was woken, and a wait that  *)
(* failed on a closed event, but that of a read on a file                  *)
(* (ctxio_windows_overlapped.go:211-221).                                  *)
(***************************************************************************)
THEOREM FlagLosesNothing == MCSpec /\ FilesOneEach => []NothingLost
<1>1. ASSUME Typed, NEW c \in Callers, Account(c), pc[c] = "join"
      PROVE  /\ out[c].err = "canceled" /\ c \in Readers => moved[c] = 0
             /\ out[c].err # "canceled" => out[c].n = moved[c]
  <2>1. out[c].err \in {"nil", "canceled", "eof", "error"}
    BY <1>1 DEF Typed, OperationTypeOK
  <2> QED BY <1>1, <2>1 DEF Account, Counted
<1>2. DeadlineInv \/ CloseInv => NothingLost
  BY <1>1 DEF DeadlineInv, CloseInv, NothingLost
<1>3. ConsoleInv => NothingLost
  BY <1>1 DEF ConsoleInv, ConsoleAccount, NothingLost
<1>4. kind = "overlapped" /\ OverlappedInv => NothingLost
  <2> SUFFICES ASSUME kind = "overlapped", OverlappedInv, NEW c \in Callers, pc[c] = "join"
               PROVE  /\ out[c].err = "canceled" /\ c \in Readers => moved[c] = 0 \/ Drains
                      /\ out[c].err # "canceled" => out[c].n = moved[c] \/ WaitFailed(c)
    BY DEF NothingLost
  <2>1. Reported(c) /\ (c \in Readers \/ c \in Writers)
    BY DEF OverlappedInv, OverlappedAccount, Callers
  <2> QED BY <2>1 DEF Reported, ReadsFile, Drains, WaitFailed
<1>5. BackendInv => NothingLost
  BY <1>2, <1>3, <1>4 DEF BackendInv
<1> QED BY <1>5, BackendInvAlways, PTL

(* Why each backend has a reason for its ErrCanceled.                        *)
ReasonInv ==
  /\ kind = "deadline"   => WatchInv /\ CauseInv(Testing)
  /\ kind = "closable"   => WatchInv /\ CauseInv({})
  /\ kind = "overlapped" => OverlappedReasons
  /\ kind = "console"    => ConsoleReasons

LEMMA ReasonInvInit == MCInit => ReasonInv
<1> SUFFICES ASSUME MCInit PROVE ReasonInv
  OBVIOUS
<1>1. OperationInit
  BY DEF MCInit, D!Init, D!OperationInit, OperationInit, D!Callers, Callers,
     D!NoResult, NoResult
<1> QED BY <1>1, StartsReasoned DEF ReasonInv

LEMMA ReasonInvStep ==
  ASSUME OneEach, BackendInv, ReasonInv, [MCNext]_mcVars
  PROVE  ReasonInv'
BY KindStays, BackendStep, DeadlineReasons, CloseReasons, OverlappedReasonsKept,
   ConsoleReasonsKept
   DEF BackendInv, ReasonInv

LEMMA FlagRefines ==
  ASSUME MayForget, BackendInv, ReasonInv, [MCNext]_mcVars
  PROVE  Promised
<1>1. ReasonInv /\ kind = "overlapped" => OverlappedReasons
  BY DEF ReasonInv
<1>2. "canceled" \in Forgotten
  BY DEF MayForget
<1> QED BY <1>1, <1>2, BackendStep, DeadlineRefines, CloseRefines,
       OverlappedRefines, ConsoleRefines, PromiseOfOne
        DEF BackendInv, ReasonInv, ConsoleKeeps

(***************************************************************************)
(* The four backends with a flag keep the promise of ContextIO             *)
(* (ctxio.go:21-72), for buffers of any length and any number of           *)
(* goroutines that cancel, reset and close: ErrCanceled has a reason, and  *)
(* the counts are exact but those of operations that were canceled or that *)
(* failed, with one caller in each direction.                              *)
(***************************************************************************)
THEOREM FlagImplements ==
  ASSUME OneEach, Forgotten = {"canceled", "error"}
  PROVE  MCSpec => AllImplementContextIO
<1>1. MayForget
  BY DEF MayForget
<1>2. MCInit => PromiseOfAll!ContextInit
  BY StartsPromised DEF MCInit, D!Init, D!OperationInit, OperationInit,
     D!Callers, Callers, D!NoResult, NoResult
<1>3. BackendInv /\ ReasonInv /\ [MCNext]_mcVars => ReasonInv'
  BY ReasonInvStep
<1>4. BackendInv /\ ReasonInv /\ [MCNext]_mcVars
        => [PromiseOfAll!ContextNext]_PromiseOfAll!contextVars
  BY <1>1, FlagRefines DEF Promised
<1>5. MCSpec => []BackendInv
  BY BackendInvAlways DEF FilesOneEach
<1> QED BY <1>2, <1>3, <1>4, <1>5, ReasonInvInit, PTL
        DEF MCSpec, AllImplementContextIO, PromiseOfAll!ContextSpec

=============================================================================
