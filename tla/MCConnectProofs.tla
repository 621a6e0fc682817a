---------------------------- MODULE MCConnectProofs ----------------------------
(***************************************************************************)
(* Proofs about Connect and ConnectAndClose, for chunks and sources of any *)
(* size: which error they return, that both objects are closed once, that  *)
(* no error means everything was delivered, and that Connect leaves nothing*)
(* running.  C! names the definitions of Connect, A! those of              *)
(* ConnectAndClose; the last section is about the specification that the   *)
(* run of both checks.                                                     *)
(***************************************************************************)
EXTENDS MCConnect, TLAPS

-----------------------------------------------------------------------------
(* What both do with the bytes: a copy holds those it has read and not yet   *)
(* written, and only an error makes it stop while it holds any.              *)
BytesTyped ==
  /\ cpc \in [Copies -> {"callRead", "reading", "callWrite", "writing",
                         "ended", "failed", "done"}]
  /\ err \in [Copies -> {"nil", "fault", "canceled", "closed"}]
  /\ chunk \in [Copies -> 0..MaxChunk]
  /\ taken \in [Copies -> 0..MaxBytes]
  /\ given \in [Copies -> 0..MaxBytes]

BytesHeld(i) ==
  /\ taken[i] = given[i] + chunk[i]
  /\ cpc[i] \in {"callRead", "reading", "ended"} => chunk[i] = 0
  /\ cpc[i] = "failed" => err[i] # "nil"
  /\ cpc[i] = "done" => err[i] # "nil" \/ chunk[i] = 0

BytesInv == BytesTyped /\ \A i \in Copies : BytesHeld(i)

(* A call of the copy that fails without having moved a byte.                *)
CallFails(i) ==
  /\ cpc[i] \in {"callRead", "reading", "callWrite"}
  /\ \E e \in {"fault", "canceled", "closed"} : Fails(i, e)
  /\ UNCHANGED <<chunk, taken, given>>

CopyMoves(i) ==
  \/ EnterRead(i) \/ ReadData(i) \/ ReadEOF(i) \/ EnterWrite(i) \/ WriteData(i)
  \/ CallFails(i)
  \/ \E e \in {"fault", "canceled", "closed"} : WriteFails(i, e)
  \/ \E e : Report(i, e)

LEMMA BytesInitial == CopyInit => BytesInv
<1> SUFFICES ASSUME CopyInit PROVE BytesInv
  OBVIOUS
<1>1. BytesTyped
  <2>1. 0 \in 0..MaxChunk /\ 0 \in 0..MaxBytes
    BY CopyAssumption DEF CopyAssumption
  <2> QED BY <2>1 DEF CopyInit, BytesTyped
<1>2. ASSUME NEW i \in Copies PROVE BytesHeld(i)
  <2>1. taken[i] = 0 /\ given[i] = 0 /\ chunk[i] = 0 /\ cpc[i] = "callRead"
    BY DEF CopyInit
  <2> QED BY <2>1 DEF BytesHeld
<1> QED BY <1>1, <1>2 DEF BytesInv

LEMMA BytesStay ==
  ASSUME BytesInv, UNCHANGED <<cpc, chunk, err, taken, given>>
  PROVE  BytesInv'
BY DEF BytesInv, BytesTyped, BytesHeld

(* One copy moves, and the other keeps what it has.                          *)
LEMMA BytesOfOne ==
  ASSUME BytesInv, NEW i \in Copies, BytesTyped', BytesHeld(i)',
         \A j \in Copies \ {i} : /\ cpc'[j] = cpc[j] /\ err'[j] = err[j]
                                 /\ chunk'[j] = chunk[j] /\ taken'[j] = taken[j]
                                 /\ given'[j] = given[j]
  PROVE  BytesInv'
BY DEF BytesInv, BytesHeld

LEMMA BytesMove ==
  ASSUME BytesInv, NEW i \in Copies, CopyMoves(i)
  PROVE  BytesInv'
<1> USE CopyAssumption DEF CopyAssumption, BytesInv, BytesTyped, BytesHeld
<1>1. CASE EnterRead(i) \/ EnterWrite(i) \/ ReadEOF(i)
  BY <1>1, BytesOfOne DEF EnterRead, EnterWrite, ReadEOF
<1>2. CASE ReadData(i)
  <2> PICK k \in 1..MaxChunk : /\ taken[i] + k <= MaxBytes
                               /\ taken' = [taken EXCEPT ![i] = @ + k]
                               /\ chunk' = [chunk EXCEPT ![i] = k]
    BY <1>2 DEF ReadData
  <2>1. taken[i] + k \in 0..MaxBytes /\ k \in 0..MaxChunk
    <3>1. taken[i] \in 0..MaxBytes
      OBVIOUS
    <3> QED BY <3>1
  <2>2. cpc' = [cpc EXCEPT ![i] = "callWrite"] /\ UNCHANGED <<err, given>>
    BY <1>2 DEF ReadData
  <2>3. BytesTyped'
    BY <2>1, <2>2
  <2>4. BytesHeld(i)'
    BY <1>2, <2>1, <2>2 DEF ReadData
  <2> QED BY <2>2, <2>3, <2>4, BytesOfOne
<1>3. CASE WriteData(i)
  <2>1. given[i] + chunk[i] \in 0..MaxBytes /\ 0 \in 0..MaxChunk
    OBVIOUS
  <2>2. BytesTyped'
    BY <1>3, <2>1 DEF WriteData
  <2>3. BytesHeld(i)'
    BY <1>3, <2>1 DEF WriteData
  <2> QED BY <1>3, <2>2, <2>3, BytesOfOne DEF WriteData
<1>4. CASE CallFails(i)
  BY <1>4, BytesOfOne DEF CallFails, Fails
<1>5. ASSUME NEW e \in {"fault", "canceled", "closed"}, WriteFails(i, e)
      PROVE  BytesInv'
  <2> PICK k \in 0..chunk[i] : /\ k < chunk[i]
                               /\ given' = [given EXCEPT ![i] = @ + k]
                               /\ chunk' = [chunk EXCEPT ![i] = @ - k]
    BY <1>5 DEF WriteFails
  <2>1. given[i] + k \in 0..MaxBytes /\ chunk[i] - k \in 0..MaxChunk
    OBVIOUS
  <2>2. /\ cpc' = [cpc EXCEPT ![i] = "failed"]
        /\ err' = [err EXCEPT ![i] = e]
        /\ taken' = taken
    BY <1>5 DEF WriteFails, Fails
  <2>3. BytesTyped'
    BY <2>1, <2>2
  <2>4. BytesHeld(i)'
    BY <2>1, <2>2
  <2> QED BY <2>2, <2>3, <2>4, BytesOfOne
<1>6. ASSUME NEW e, Report(i, e) PROVE BytesInv'
  BY <1>6, BytesOfOne DEF Report
<1> QED BY <1>1, <1>2, <1>3, <1>4, <1>5, <1>6 DEF CopyMoves

-----------------------------------------------------------------------------
(* Connect.                                                                  *)
ConnectTypes ==
  /\ DOMAIN cpc = C!Copies
  /\ err \in [C!Copies -> {"nil", "fault", "canceled"}]
  /\ first \in {"nil", "fault", "canceled"}
  /\ parent \in {"live", "done"}

(* A copy that has an error is over, and one that is over has reported it;   *)
(* the main goroutine goes on when both are.                                 *)
ConnectCopies ==
  /\ \A i \in C!Copies : err[i] # "nil" => cpc[i] \in {"failed", "done"}
  /\ \A i \in C!Copies : cpc[i] = "done" /\ err[i] # "nil" => first # "nil"
  /\ first = "fault" => \E i \in C!Copies : err[i] = "fault"
  /\ main # "wait" => C!CopiesDone
  /\ main = "returned" => result = first

(* There is a reason to end ...                                              *)
ConnectReason == first # "nil" \/ parent = "done"

(* ... whenever somebody was canceled while a copy was still running.        *)
ConnectReasons ==
  /\ main = "wait" /\ group = "done" => ConnectReason
  /\ \A j \in 1..4 : monitor = C!Calls[j] => group = "done"
  /\ canceled # {} => group = "done"
  /\ \A i \in C!Copies : err[i] = "canceled" => ConnectReason
  /\ parent = "live" => first # "canceled"

ConnectInv == ConnectTypes /\ ConnectCopies /\ ConnectReasons

-----------------------------------------------------------------------------
LEMMA ConnectInitial == C!Init => ConnectInv
<1> SUFFICES ASSUME C!Init PROVE ConnectInv
  OBVIOUS
<1>1. ConnectTypes
  BY DEF C!Init, C!CopyInit, ConnectTypes
<1>2. ConnectCopies
  BY DEF C!Init, C!CopyInit, ConnectCopies
<1>3. ConnectReasons
  <2>1. \A j \in 1..4 : "select" # C!Calls[j]
    BY DEF C!Calls
  <2> QED BY <2>1 DEF C!Init, C!CopyInit, ConnectReasons
<1> QED BY <1>1, <1>2, <1>3 DEF ConnectInv

(* A step of a copy that is still running and gets no error.                 *)
LEMMA ConnectRunning ==
  ASSUME ConnectInv, NEW i \in C!Copies,
         NEW s \in {"callRead", "reading", "callWrite", "writing", "ended"},
         cpc[i] \notin {"failed", "done"}, cpc' = [cpc EXCEPT ![i] = s],
         UNCHANGED <<err, first, parent, group, C!connectVars>>
  PROVE  ConnectInv'
BY DEF ConnectInv, ConnectTypes, ConnectCopies, ConnectReasons, ConnectReason,
     C!CopiesDone, C!connectVars

(* An error of a copy that is still running, which has a reason if it is a   *)
(* cancellation.                                                             *)
LEMMA ConnectFailure ==
  ASSUME ConnectInv, NEW i \in C!Copies, NEW e \in {"fault", "canceled"},
         cpc[i] \notin {"failed", "done"}, C!Fails(i, e),
         e = "canceled" => canceled # {},
         UNCHANGED <<first, parent, group, C!connectVars>>
  PROVE  ConnectInv'
<1>1. main = "wait"
  BY DEF ConnectInv, ConnectCopies, C!CopiesDone
<1>2. e = "canceled" => ConnectReason
  BY <1>1 DEF ConnectInv, ConnectReasons
<1>3. ConnectTypes'
  BY DEF ConnectInv, ConnectTypes, C!Fails
<1>4. ConnectCopies'
  BY <1>1 DEF ConnectInv, ConnectTypes, ConnectCopies, C!Fails, C!connectVars
<1>5. ConnectReasons'
  BY <1>2 DEF ConnectInv, ConnectTypes, ConnectReasons, ConnectReason, C!Fails,
       C!connectVars
<1> QED BY <1>3, <1>4, <1>5 DEF ConnectInv

LEMMA ConnectReport ==
  ASSUME ConnectInv, NEW i \in C!Copies, C!CopyReturns(i)
  PROVE  ConnectInv'
<1>1. main = "wait"
  BY DEF C!CopyReturns, C!Report, ConnectInv, ConnectCopies, C!CopiesDone
<1>2. ConnectTypes'
  BY DEF C!CopyReturns, C!Report, ConnectInv, ConnectTypes
<1>3. ConnectCopies'
  BY <1>1 DEF C!CopyReturns, C!Report, ConnectInv, ConnectTypes, ConnectCopies,
       C!connectVars
<1>4. ConnectReasons'
  BY <1>1 DEF C!CopyReturns, C!Report, ConnectInv, ConnectTypes, ConnectReasons,
       ConnectReason, C!connectVars
<1> QED BY <1>2, <1>3, <1>4 DEF ConnectInv

LEMMA ConnectCopier ==
  ASSUME ConnectInv, NEW i \in C!Copies, C!Copier(i)
  PROVE  ConnectInv'
<1>1. CASE C!CallRead(i)
  BY <1>1, ConnectRunning, ConnectFailure DEF C!CallRead, C!EnterRead
<1>2. CASE C!ReadCanceled(i)
  BY <1>2, ConnectFailure DEF C!ReadCanceled
<1>3. CASE C!CallWrite(i)
  BY <1>3, ConnectRunning, ConnectFailure DEF C!CallWrite, C!EnterWrite
<1>4. CASE C!WriteCanceled(i)
  BY <1>4, ConnectFailure DEF C!WriteCanceled, C!WriteFails
<1> QED BY <1>1, <1>2, <1>3, <1>4, ConnectReport DEF C!Copier

LEMMA ConnectObject ==
  ASSUME ConnectInv, NEW i \in C!Copies, C!Object(i), UNCHANGED C!connectVars
  PROVE  ConnectInv'
<1>1. CASE C!ReadData(i)
  BY <1>1, ConnectRunning DEF C!ReadData
<1>2. CASE C!ReadEOF(i)
  BY <1>2, ConnectRunning DEF C!ReadEOF
<1>3. CASE C!ReadFault(i)
  BY <1>3, ConnectFailure DEF C!ReadFault
<1>4. CASE C!WriteData(i)
  BY <1>4, ConnectRunning DEF C!WriteData
<1>5. CASE C!WriteFails(i, "fault")
  BY <1>5, ConnectFailure DEF C!WriteFails
<1> QED BY <1>1, <1>2, <1>3, <1>4, <1>5 DEF C!Object

(* The monitor cancels only when the group's context is done.                *)
LEMMA ConnectMonitor == ConnectInv /\ C!Monitor => ConnectInv'
<1> SUFFICES ASSUME ConnectInv, C!Monitor PROVE ConnectInv'
  OBVIOUS
<1>1. UNCHANGED <<C!copyVars, main, copyDone, result>>
  BY DEF C!Monitor, C!MonitorSelect, C!MonitorCancel
<1>2. ConnectTypes' /\ ConnectCopies'
  BY <1>1 DEF ConnectInv, ConnectTypes, ConnectCopies, C!CopiesDone, C!copyVars
<1>3. (\A j \in 1..4 : monitor' = C!Calls[j] => group = "done")
        /\ (canceled' # {} => group = "done")
  BY DEF C!Monitor, C!MonitorSelect, C!MonitorCancel, C!Calls, ConnectInv,
       ConnectReasons
<1>4. ConnectReasons'
  BY <1>1, <1>3 DEF ConnectInv, ConnectReasons, ConnectReason, C!Calls,
       C!copyVars
<1> QED BY <1>2, <1>4 DEF ConnectInv

LEMMA ConnectMain == ConnectInv /\ C!Main => ConnectInv'
<1> SUFFICES ASSUME ConnectInv, C!Main PROVE ConnectInv'
  OBVIOUS
<1>1. CASE C!MainWait
  BY <1>1 DEF C!MainWait, ConnectInv, ConnectTypes, ConnectCopies,
       ConnectReasons, ConnectReason, C!CopiesDone
<1>2. CASE C!MainClose
  BY <1>2 DEF C!MainClose, ConnectInv, ConnectTypes, ConnectCopies,
       ConnectReasons, ConnectReason, C!CopiesDone, C!copyVars
<1>3. CASE C!MainReturn
  BY <1>3 DEF C!MainReturn, ConnectInv, ConnectTypes, ConnectCopies,
       ConnectReasons, ConnectReason, C!CopiesDone, C!copyVars
<1> QED BY <1>1, <1>2, <1>3 DEF C!Main

LEMMA ConnectStep == ConnectInv /\ [C!Next]_(C!vars) => ConnectInv'
<1> SUFFICES ASSUME ConnectInv, [C!Next]_(C!vars) PROVE ConnectInv'
  OBVIOUS
<1>1. CASE C!Expire /\ UNCHANGED C!connectVars
  BY <1>1 DEF C!Expire, C!connectVars, ConnectInv, ConnectTypes, ConnectCopies,
       ConnectReasons, ConnectReason, C!CopiesDone
<1>2. CASE UNCHANGED C!vars
  BY <1>2 DEF C!vars, C!copyVars, C!connectVars, ConnectInv, ConnectTypes,
       ConnectCopies, ConnectReasons, ConnectReason, C!CopiesDone
<1> QED BY <1>1, <1>2, ConnectCopier, ConnectObject, ConnectMonitor, ConnectMain
        DEF C!Next, C!Environment

-----------------------------------------------------------------------------
(* ConnectAndClose.                                                          *)

(* How far whoever is inside the sync.Once has come.                         *)
OnceInv ==
  /\ closes \in [A!Sides -> {0, 1}]
  /\ once \in {"new", "running", "done"}
  /\ once = "new" => closes["a"] = 0
  /\ once # "done" => closes["b"] = 0
  /\ once = "done" => closes["a"] = 1 /\ closes["b"] = 1
  /\ main = "returned" => once = "done"

LEMMA OnceInit == A!Init => OnceInv
<1> SUFFICES ASSUME A!Init PROVE OnceInv
  OBVIOUS
<1>1. closes \in [A!Sides -> {0, 1}] /\ closes["a"] = 0 /\ closes["b"] = 0
  BY DEF A!Init, A!Sides
<1>2. once = "new" /\ main = "wait"
  BY DEF A!Init
<1> QED BY <1>1, <1>2 DEF OnceInv

(* Whoever runs closeOnce.Do.                                                *)
LEMMA DoKeeps ==
  ASSUME OnceInv, NEW p, A!EnterOnce(p) \/ A!OnceStep(p), UNCHANGED main
  PROVE  OnceInv'
<1>1. CASE A!EnterOnce(p)
  <2>1. once = "new" /\ once' = "running" /\ closes' = closes
    BY <1>1 DEF A!EnterOnce
  <2>2. main' # "returned"
    BY <2>1 DEF OnceInv
  <2> QED BY <2>1, <2>2 DEF OnceInv
<1>2. CASE A!OnceStep(p)
  BY <1>2 DEF A!OnceStep, OnceInv, A!Sides
<1> QED BY <1>1, <1>2

LEMMA OthersKeep ==
  ASSUME OnceInv, UNCHANGED <<once, closes>>,
         main' = "returned" => main = "returned" \/ once = "done"
  PROVE  OnceInv'
BY DEF OnceInv

LEMMA OnceMoves == OnceInv /\ [A!Next]_(A!vars) => OnceInv'
<1> SUFFICES ASSUME OnceInv, [A!Next]_(A!vars) PROVE OnceInv'
  OBVIOUS
<1>1. ASSUME NEW i \in A!Copies, A!Copier(i) PROVE OnceInv'
  BY <1>1, OthersKeep DEF A!Copier, A!CallRead, A!ReadClosed, A!CallWrite,
       A!WriteClosed, A!CopyReturns, A!closeVars
<1>2. CASE A!After
  BY <1>2, DoKeeps, OthersKeep DEF A!After, A!AfterStart, A!AfterClose
<1>3. CASE A!Main
  BY <1>3, DoKeeps, OthersKeep DEF A!Main, A!MainWait, A!MainStop, A!MainClose
<1>4. CASE A!Environment
  BY <1>4, OthersKeep DEF A!Environment, A!closeVars
<1>5. CASE UNCHANGED A!vars
  BY <1>5, OthersKeep DEF A!vars, A!closeVars
<1> QED BY <1>1, <1>2, <1>3, <1>4, <1>5 DEF A!Next

-----------------------------------------------------------------------------
(* What is closed was closed after the flag was set.                         *)
SomeClosed == \E s \in A!Sides : A!IsClosed(s)

FlagInv ==
  /\ once = "new" => ~ closedByUs
  /\ SomeClosed => closedByUs

LEMMA FlagInit == A!Init => FlagInv
<1> SUFFICES ASSUME A!Init PROVE FlagInv
  OBVIOUS
<1>1. ~ SomeClosed
  BY DEF A!Init, SomeClosed, A!IsClosed, A!Sides
<1>2. ~ closedByUs
  BY Zenon DEF A!Init
<1> QED BY <1>1, <1>2, Zenon DEF FlagInv

LEMMA FlagStays ==
  ASSUME FlagInv, once' = once, closedByUs' = closedByUs, closes' = closes
  PROVE  FlagInv'
BY Zenon DEF FlagInv, SomeClosed, A!IsClosed

LEMMA DoKeepsFlag ==
  ASSUME FlagInv, NEW p, A!EnterOnce(p) \/ A!OnceStep(p)
  PROVE  FlagInv'
<1>1. once' # "new"
  BY Zenon DEF A!EnterOnce, A!OnceStep
<1>2. closes["a"] > 0 => closedByUs
  BY Zenon DEF FlagInv, SomeClosed, A!IsClosed, A!Sides
<1>3. closedByUs' \/ closes' = closes
  <2>1. ASSUME closedByUs, closedByUs' = closedByUs PROVE closedByUs'
    BY <2>1
  <2>2. \/ closes' = closes
        \/ closedByUs' = TRUE
        \/ closedByUs /\ closedByUs' = closedByUs
    BY <1>2, Zenon DEF A!EnterOnce, A!OnceStep
  <2> QED BY <2>1, <2>2, Zenon
<1>4. closedByUs' = closedByUs \/ closedByUs'
  BY Zenon DEF A!EnterOnce, A!OnceStep
<1> QED BY <1>1, <1>3, <1>4, Zenon DEF FlagInv, SomeClosed, A!IsClosed

LEMMA FlagMoves == FlagInv /\ [A!Next]_(A!vars) => FlagInv'
<1> SUFFICES ASSUME FlagInv, [A!Next]_(A!vars) PROVE FlagInv'
  OBVIOUS
<1> DEFINE Stays == once' = once /\ closedByUs' = closedByUs /\ closes' = closes
<1>1. ASSUME NEW i \in A!Copies, A!Copier(i) PROVE Stays
  BY <1>1, Zenon DEF A!Copier, A!CallRead, A!ReadClosed, A!CallWrite,
       A!WriteClosed, A!CopyReturns, A!closeVars
<1>2. CASE A!After
  BY <1>2, DoKeepsFlag, FlagStays, Zenon DEF A!After, A!AfterStart, A!AfterClose
<1>3. CASE A!Main
  BY <1>3, DoKeepsFlag, FlagStays, Zenon DEF A!Main, A!MainWait, A!MainStop,
       A!MainClose
<1>4. A!Environment \/ UNCHANGED A!vars => Stays
  BY Zenon DEF A!Environment, A!vars, A!closeVars
<1> QED BY <1>1, <1>2, <1>3, <1>4, FlagStays, Zenon DEF A!Next

-----------------------------------------------------------------------------
CloseReason == first # "nil" \/ parent = "done"

CloseTypes ==
  /\ DOMAIN cpc = A!Copies
  /\ err \in [A!Copies -> {"nil", "fault", "closed"}]
  /\ first \in {"nil", "fault", "context"}
  /\ parent \in {"live", "done"}

CloseCopies ==
  /\ \A i \in A!Copies : err[i] # "nil" => cpc[i] \in {"failed", "done"}
  /\ \A i \in A!Copies : cpc[i] = "done" /\ err[i] = "fault" => CloseReason
  /\ first = "fault" => \E i \in A!Copies : err[i] = "fault"
  /\ first = "context" => parent = "done"
  /\ main # "wait" => A!CopiesDone

(* Nobody begins to close without a reason while a copy is running.          *)
CloseReasons ==
  /\ main = "wait" /\ group = "done" => CloseReason
  /\ main = "wait" /\ after # "waiting" => group = "done"
  /\ main = "wait" /\ once # "new" => group = "done"

CloseResult ==
  /\ main = "wait" => result = "none"
  /\ A!GenuineError

(* An error of a closed object comes after the flag.                         *)
ClosedInv == \A i \in A!Copies : err[i] = "closed" => closedByUs

CloseErrors == CloseTypes /\ CloseCopies /\ CloseReasons /\ CloseResult

GenuineInv == CloseErrors /\ ClosedInv /\ FlagInv

LEMMA GenuineInit == A!Init => GenuineInv
<1> SUFFICES ASSUME A!Init PROVE GenuineInv
  OBVIOUS
<1>1. CloseTypes /\ CloseCopies /\ CloseReasons
  BY DEF A!Init, A!CopyInit, CloseTypes, CloseCopies, CloseReasons
<1>2. CloseResult
  BY DEF A!Init, CloseResult, A!GenuineError
<1>3. ClosedInv
  BY DEF A!Init, A!CopyInit, ClosedInv
<1> QED BY <1>1, <1>2, <1>3, FlagInit DEF GenuineInv, CloseErrors

(* A copy that still runs is waited for.                                     *)
LEMMA StillRunning ==
  ASSUME CloseErrors, NEW i \in A!Copies, cpc[i] # "done"
  PROVE  main = "wait" /\ result = "none"
BY DEF CloseErrors, CloseCopies, CloseResult, A!CopiesDone

LEMMA CloseRunning ==
  ASSUME CloseErrors, NEW i \in A!Copies,
         NEW s \in {"callRead", "reading", "callWrite", "writing", "ended"},
         cpc[i] \notin {"failed", "done"}, cpc' = [cpc EXCEPT ![i] = s],
         UNCHANGED <<err, first, parent, group, A!closeVars>>
  PROVE  CloseErrors'
<1>1. main = "wait" /\ result = "none"
  BY StillRunning
<1>2. CloseTypes' /\ CloseCopies'
  BY <1>1 DEF CloseErrors, CloseTypes, CloseCopies, CloseReason, A!closeVars
<1>3. CloseReasons' /\ CloseResult'
  BY <1>1 DEF CloseErrors, CloseReasons, CloseReason, CloseResult,
       A!GenuineError, A!closeVars
<1> QED BY <1>2, <1>3 DEF CloseErrors

LEMMA CloseFailure ==
  ASSUME CloseErrors, NEW i \in A!Copies, NEW e \in {"fault", "closed"},
         cpc[i] \notin {"failed", "done"}, A!Fails(i, e),
         UNCHANGED <<first, parent, group, A!closeVars>>
  PROVE  CloseErrors'
<1>1. main = "wait" /\ result = "none"
  BY StillRunning
<1>2. CloseTypes' /\ CloseCopies'
  BY <1>1 DEF CloseErrors, CloseTypes, CloseCopies, CloseReason, A!Fails,
       A!closeVars
<1>3. CloseReasons' /\ CloseResult'
  BY <1>1 DEF CloseErrors, CloseReasons, CloseReason, CloseResult,
       A!GenuineError, A!closeVars
<1> QED BY <1>2, <1>3 DEF CloseErrors

(* What a copy reports: nothing that closing caused, and every fault, unless *)
(* there is a reason already.                                                *)
LEMMA Reported ==
  ASSUME GenuineInv, NEW i \in A!Copies, main = "wait", NEW e,
         e = IF err[i] # "nil" /\ closedByUs THEN A!ContextErr ELSE err[i]
  PROVE  /\ e \in {"nil", "fault", "context"}
         /\ e = "context" => parent = "done"
         /\ e = "fault" => err[i] = "fault"
         /\ err[i] = "fault" => e # "nil" \/ CloseReason
<1>1. err[i] \in {"nil", "fault", "closed"}
  BY DEF GenuineInv, CloseErrors, CloseTypes
<1>2. CASE closedByUs
  <2>1. CloseReason
    <3>1. once # "new"
      BY <1>2, Zenon DEF GenuineInv, FlagInv
    <3> QED BY <3>1 DEF GenuineInv, CloseErrors, CloseReasons
  <2>2. e = "nil" \/ e = A!ContextErr
    BY <1>2, Zenon
  <2> QED BY <2>1, <2>2 DEF A!ContextErr
<1>3. CASE ~ closedByUs
  <2>1. e = err[i]
    BY <1>3, Zenon
  <2>2. err[i] # "closed"
    BY <1>3, Zenon DEF GenuineInv, ClosedInv
  <2> QED BY <1>1, <2>1, <2>2
<1> QED BY <1>2, <1>3

LEMMA CloseReport ==
  ASSUME GenuineInv, NEW i \in A!Copies, A!CopyReturns(i)
  PROVE  CloseErrors'
<1> DEFINE e == IF err[i] # "nil" /\ closedByUs THEN A!ContextErr ELSE err[i]
<1>1. CloseErrors
  BY DEF GenuineInv
<1>2. A!Report(i, e) /\ UNCHANGED A!closeVars
  BY DEF A!CopyReturns
<1>3. main = "wait" /\ result = "none"
  BY <1>1, StillRunning DEF A!CopyReturns, A!Report
<1>4. /\ e \in {"nil", "fault", "context"}
      /\ e = "context" => parent = "done"
      /\ e = "fault" => err[i] = "fault"
      /\ err[i] = "fault" => e # "nil" \/ CloseReason
  BY <1>3, Reported
<1> HIDE DEF e
<1>5. CloseTypes' /\ CloseCopies'
  BY <1>1, <1>2, <1>3, <1>4 DEF A!Report, CloseErrors, CloseTypes, CloseCopies,
       CloseReason, A!closeVars
<1>6. CloseReasons' /\ CloseResult'
  BY <1>1, <1>2, <1>3, <1>4 DEF A!Report, CloseErrors, CloseTypes, CloseReasons,
       CloseReason, CloseResult, A!GenuineError, A!closeVars
<1> QED BY <1>5, <1>6 DEF CloseErrors

LEMMA CloseCopier ==
  ASSUME GenuineInv, NEW i \in A!Copies, A!Copier(i)
  PROVE  CloseErrors'
<1> USE DEF GenuineInv
<1>1. CASE A!CallRead(i)
  BY <1>1, CloseRunning DEF A!CallRead, A!EnterRead
<1>2. CASE A!ReadClosed(i)
  BY <1>2, CloseFailure DEF A!ReadClosed
<1>3. CASE A!CallWrite(i)
  BY <1>3, CloseRunning DEF A!CallWrite, A!EnterWrite
<1>4. CASE A!WriteClosed(i)
  BY <1>4, CloseFailure DEF A!WriteClosed, A!WriteFails
<1> QED BY <1>1, <1>2, <1>3, <1>4, CloseReport DEF A!Copier

LEMMA CloseObject ==
  ASSUME CloseErrors, NEW i \in A!Copies, A!Object(i), UNCHANGED A!closeVars
  PROVE  CloseErrors'
<1>1. CASE A!ReadData(i)
  BY <1>1, CloseRunning DEF A!ReadData
<1>2. CASE A!ReadEOF(i)
  BY <1>2, CloseRunning DEF A!ReadEOF
<1>3. CASE A!ReadFault(i)
  BY <1>3, CloseFailure DEF A!ReadFault
<1>4. CASE A!WriteData(i)
  BY <1>4, CloseRunning DEF A!WriteData
<1>5. CASE A!WriteFails(i, "fault")
  BY <1>5, CloseFailure DEF A!WriteFails
<1> QED BY <1>1, <1>2, <1>3, <1>4, <1>5 DEF A!Object

LEMMA CloseAfter == CloseErrors /\ A!After => CloseErrors'
<1> SUFFICES ASSUME CloseErrors, A!After PROVE CloseErrors'
  OBVIOUS
<1>1. UNCHANGED <<A!copyVars, main, result>>
  BY DEF A!After, A!AfterStart, A!AfterClose
<1>2. CloseTypes' /\ CloseCopies' /\ CloseResult'
  BY <1>1 DEF CloseErrors, CloseTypes, CloseCopies, CloseReason, A!CopiesDone,
       CloseResult, A!GenuineError, A!copyVars
<1>3. main = "wait" /\ (after' # "waiting" \/ once' # "new") => group = "done"
  BY DEF A!After, A!AfterStart, A!AfterClose, A!EnterOnce, A!OnceStep,
       CloseErrors, CloseReasons
<1>4. CloseReasons'
  BY <1>1, <1>3 DEF CloseErrors, CloseReasons, CloseReason, A!copyVars
<1> QED BY <1>2, <1>4 DEF CloseErrors

(* eg.Wait() has the first error, and a copy with a fault has reported it.   *)
LEMMA CloseWait == CloseErrors /\ A!MainWait => CloseErrors'
<1> SUFFICES ASSUME CloseErrors, A!MainWait PROVE CloseErrors'
  OBVIOUS
<1>1. CloseTypes' /\ CloseCopies' /\ CloseReasons'
  BY DEF A!MainWait, CloseErrors, CloseTypes, CloseCopies, CloseReasons,
       CloseReason, A!CopiesDone
<1>2. first \in {"nil", "fault", "context"} /\ parent \in {"live", "done"}
  BY DEF CloseErrors, CloseTypes
<1>3. result' \in {"closed", "joined"} => \E i \in A!Copies : err[i] = "fault"
  BY <1>2 DEF A!MainWait, A!ContextErr, CloseErrors, CloseCopies
<1>4. parent = "live" /\ (\E i \in A!Copies : err[i] = "fault")
        => result' = "fault"
  BY <1>2 DEF A!MainWait, CloseErrors, CloseCopies, CloseReason, A!CopiesDone
<1>5. CloseResult'
  BY <1>3, <1>4 DEF A!MainWait, CloseResult, A!GenuineError
<1> QED BY <1>1, <1>5 DEF CloseErrors

LEMMA CloseMain == CloseErrors /\ A!Main => CloseErrors'
<1> SUFFICES ASSUME CloseErrors, A!MainStop \/ A!MainClose PROVE CloseErrors'
  BY CloseWait DEF A!Main
<1>1. UNCHANGED <<A!copyVars, result>> /\ main # "wait" /\ main' # "wait"
  BY DEF A!MainStop, A!MainClose
<1>2. CloseTypes' /\ CloseCopies' /\ CloseReasons' /\ CloseResult'
  BY <1>1 DEF CloseErrors, CloseTypes, CloseCopies, CloseReasons, CloseReason,
       A!CopiesDone, CloseResult, A!GenuineError, A!copyVars
<1> QED BY <1>2 DEF CloseErrors

LEMMA ErrorMoves == GenuineInv /\ [A!Next]_(A!vars) => CloseErrors'
<1> SUFFICES ASSUME GenuineInv, [A!Next]_(A!vars) PROVE CloseErrors'
  OBVIOUS
<1>1. CloseErrors
  BY DEF GenuineInv
<1>2. CASE A!Expire /\ UNCHANGED A!closeVars
  BY <1>1, <1>2 DEF A!Expire, A!closeVars, CloseErrors, CloseTypes, CloseCopies,
       CloseReasons, CloseReason, A!CopiesDone, CloseResult, A!GenuineError
<1>3. CASE UNCHANGED A!vars
  BY <1>1, <1>3 DEF A!vars, A!copyVars, A!closeVars, CloseErrors, CloseTypes,
       CloseCopies, CloseReasons, CloseReason, A!CopiesDone, CloseResult,
       A!GenuineError
<1> QED BY <1>1, <1>2, <1>3, CloseCopier, CloseObject, CloseAfter, CloseMain
        DEF A!Next, A!Environment

(* The flag is never cleared, and an object that is closed was closed after  *)
(* it was set.                                                               *)
LEMMA FlagLasts == [A!Next]_(A!vars) /\ closedByUs => closedByUs'
<1> SUFFICES ASSUME [A!Next]_(A!vars), closedByUs PROVE closedByUs'
  OBVIOUS
<1>1. closedByUs' = TRUE \/ closedByUs' = closedByUs
  BY Zenon DEF A!Next, A!Copier, A!CallRead, A!ReadClosed, A!CallWrite,
       A!WriteClosed, A!CopyReturns, A!After, A!AfterStart, A!AfterClose,
       A!Main, A!MainWait, A!MainStop, A!MainClose, A!EnterOnce, A!OnceStep,
       A!Environment, A!vars, A!closeVars
<1> QED BY <1>1

LEMMA ClosedMoves == GenuineInv /\ [A!Next]_(A!vars) => ClosedInv'
<1> SUFFICES ASSUME GenuineInv, [A!Next]_(A!vars),
                    NEW i \in A!Copies, err'[i] = "closed"
             PROVE  closedByUs'
  BY Zenon DEF ClosedInv
<1>1. CASE err[i] = "closed"
  BY <1>1, FlagLasts, Zenon DEF GenuineInv, ClosedInv
<1>2. CASE err[i] # "closed"
  <2>1. \E s \in A!Sides : A!IsClosed(s)
    <3>1. err \in [A!Copies -> {"nil", "fault", "closed"}]
      BY DEF GenuineInv, CloseErrors, CloseTypes
    <3>2. \A j \in A!Copies : A!Src(j) \in A!Sides /\ A!Dst(j) \in A!Sides
      BY DEF A!Src, A!Dst, A!Sides
    <3>3. ASSUME NEW j \in A!Copies, A!Copier(j)
          PROVE  \E s \in A!Sides : A!IsClosed(s)
      BY <1>2, <3>1, <3>2, <3>3 DEF A!Copier, A!CallRead, A!EnterRead,
           A!ReadClosed, A!CallWrite, A!EnterWrite, A!WriteClosed, A!WriteFails,
           A!CopyReturns, A!Report, A!Fails
    <3>4. ASSUME NEW j \in A!Copies, A!Object(j) PROVE FALSE
      BY <1>2, <3>1, <3>4 DEF A!Object, A!ReadData, A!ReadEOF, A!ReadFault,
           A!WriteData, A!WriteFails, A!Fails
    <3>5. ~ (UNCHANGED err)
      BY <1>2
    <3> QED BY <3>3, <3>4, <3>5 DEF A!Next, A!After, A!AfterStart, A!AfterClose,
           A!Main, A!MainWait, A!MainStop, A!MainClose, A!Environment, A!Expire,
           A!vars, A!copyVars
  <2> QED BY <2>1, FlagLasts, Zenon DEF GenuineInv, FlagInv, SomeClosed
<1> QED BY <1>1, <1>2

-----------------------------------------------------------------------------
(* The rest of the state of Connect, of which the end is that the main       *)
(* goroutine returns only after the monitor.                                 *)
ConnectRest ==
  /\ group \in {"live", "done"}
  /\ canceled \subseteq {C!Half(s, d) : s \in C!Sides, d \in {"read", "write"}}
  /\ monitor \in {"select", "a.CancelReads", "a.CancelWrites", "b.CancelReads",
                  "b.CancelWrites", "done"}
  /\ main \in {"wait", "close", "join", "returned"}
  /\ copyDone \in BOOLEAN
  /\ result \in {"none", "nil", "fault", "canceled"}
  /\ result = "none" <=> main # "returned"
  /\ main = "returned" => monitor = "done"

LEMMA ConnectRestInitial == C!Init => ConnectRest
<1>1. C!Init => copyDone \in BOOLEAN
  BY DEF C!Init
<1>2. C!Init => /\ group = "live" /\ canceled = {} /\ monitor = "select"
                /\ main = "wait" /\ result = "none"
  BY Zenon DEF C!Init, C!CopyInit
<1> QED BY <1>1, <1>2 DEF ConnectRest

LEMMA ConnectRestStays ==
  ASSUME ConnectRest, UNCHANGED C!connectVars,
         group' \in {"live", "done"}
  PROVE  ConnectRest'
BY DEF ConnectRest, C!connectVars

LEMMA ConnectRestStep ==
  ASSUME ConnectInv, ConnectRest, [C!Next]_(C!vars)
  PROVE  ConnectRest'
<1>1. CASE C!Monitor
  <2>1. UNCHANGED <<group, main, copyDone, result>>
    BY <1>1 DEF C!Monitor, C!MonitorSelect, C!MonitorCancel, C!copyVars
  <2>2. monitor # "done" /\ monitor' \in {"a.CancelReads", "a.CancelWrites",
                                "b.CancelReads", "b.CancelWrites", "done"}
    BY <1>1 DEF C!Monitor, C!MonitorSelect, C!MonitorCancel, C!Calls
  <2>3. canceled'
          \subseteq {C!Half(s, d) : s \in C!Sides, d \in {"read", "write"}}
    BY <1>1 DEF C!Monitor, C!MonitorSelect, C!MonitorCancel, C!Halves, C!Half,
         C!Sides, ConnectRest
  <2> QED BY <2>1, <2>2, <2>3 DEF ConnectRest
<1>2. CASE C!Main
  <2>1. copyDone' \in BOOLEAN
    <3>1. copyDone' = TRUE \/ copyDone' = copyDone
      BY <1>2, Zenon DEF C!Main, C!MainWait, C!MainClose, C!MainReturn
    <3>2. copyDone \in BOOLEAN
      BY DEF ConnectRest
    <3> QED BY <3>1, <3>2
  <2>2. first \in {"nil", "fault", "canceled"}
    BY DEF ConnectInv, ConnectTypes
  <2>3. /\ UNCHANGED <<canceled, monitor>>
        /\ group' \in {group, "done"}
        /\ \/ /\ main # "returned" /\ main' \in {"close", "join"}
              /\ result' = result
           \/ main' = "returned" /\ monitor = "done" /\ result' = first
    BY <1>2, Zenon DEF C!Main, C!MainWait, C!MainClose, C!MainReturn, C!copyVars
  <2> QED BY <2>1, <2>2, <2>3 DEF ConnectRest
<1>3. ASSUME NEW i \in C!Copies, C!Copier(i) PROVE ConnectRest'
  <2>1. group' \in {"live", "done"}
    BY <1>3 DEF C!Copier, C!CallRead, C!EnterRead, C!ReadCanceled, C!CallWrite,
         C!EnterWrite, C!WriteCanceled, C!WriteFails, C!CopyReturns, C!Report,
         ConnectRest
  <2>2. UNCHANGED C!connectVars
    BY <1>3 DEF C!Copier, C!CallRead, C!ReadCanceled, C!CallWrite,
         C!WriteCanceled, C!CopyReturns
  <2> QED BY <2>1, <2>2, ConnectRestStays
<1>4. CASE C!Environment \/ UNCHANGED C!vars
  <2>1. group' \in {"live", "done"}
    BY <1>4 DEF C!Environment, C!Object, C!ReadData, C!ReadEOF, C!ReadFault,
         C!WriteData, C!WriteFails, C!Expire, C!vars, C!copyVars, ConnectRest
  <2>2. UNCHANGED C!connectVars
    BY <1>4 DEF C!Environment, C!vars
  <2> QED BY <2>1, <2>2, ConnectRestStays
<1> QED BY <1>1, <1>2, <1>3, <1>4 DEF C!Next

(* A copy of Connect moves its bytes as any does.                            *)
LEMMA ConnectBytes ==
  ASSUME BytesInv, [C!Next]_(C!vars)
  PROVE  BytesInv'
<1> DEFINE Still == UNCHANGED <<cpc, chunk, err, taken, given>>
<1>1. ASSUME NEW i \in C!Copies, C!Copier(i) PROVE CopyMoves(i)
  <2>1. CASE C!CallRead(i) \/ C!ReadCanceled(i) \/ C!CallWrite(i)
    BY <2>1 DEF C!CallRead, C!EnterRead, C!ReadCanceled, C!CallWrite,
         C!EnterWrite, C!Fails, CopyMoves, EnterRead, EnterWrite, CallFails,
         Fails
  <2>2. CASE C!WriteCanceled(i)
    BY <2>2 DEF C!WriteCanceled, C!WriteFails, C!Fails, CopyMoves, WriteFails,
         Fails
  <2>3. CASE C!CopyReturns(i)
    <3>1. Report(i, err[i])
      BY <2>3 DEF C!CopyReturns, C!Report, Report
    <3> QED BY <3>1 DEF CopyMoves
  <2> QED BY <1>1, <2>1, <2>2, <2>3 DEF C!Copier
<1>2. ASSUME NEW i \in C!Copies, C!Object(i) PROVE CopyMoves(i)
  BY <1>2 DEF C!Object, C!ReadData, C!ReadEOF, C!ReadFault, C!WriteData,
       C!WriteFails, C!Fails, CopyMoves, ReadData, ReadEOF, CallFails,
       WriteData, WriteFails, Fails
<1>3. C!Monitor \/ C!Main \/ C!Expire \/ UNCHANGED C!vars => Still
  BY DEF C!Monitor, C!MonitorSelect, C!MonitorCancel, C!Main, C!MainWait,
     C!MainClose, C!MainReturn, C!Expire, C!vars, C!copyVars
<1>4. Copies = C!Copies
  BY DEF Copies, C!Copies
<1> QED BY <1>1, <1>2, <1>3, <1>4, BytesMove, BytesStay DEF C!Next,
       C!Environment

-----------------------------------------------------------------------------
(* The rest of the state of ConnectAndClose, and that nil is returned only   *)
(* when neither copy had an error.                                           *)
CloseRest ==
  /\ group \in {"live", "done"}
  /\ closedByUs \in BOOLEAN
  /\ owner \in {"after", "main", "none"}
  /\ after \in {"waiting", "running", "done"}
  /\ main \in {"wait", "stop", "close", "returned"}
  /\ result \in {"none", "nil", "fault", "closed", "context", "joined"}
  /\ result = "none" <=> main = "wait"
  /\ result = "nil" => \A i \in A!Copies : err[i] = "nil"

LEMMA CloseRestInitial == A!Init => CloseRest
<1>1. A!Init => /\ group = "live" /\ owner = "none" /\ after = "waiting"
                /\ main = "wait" /\ result = "none"
  BY Zenon DEF A!Init, A!CopyInit
<1>2. A!Init => closedByUs \in BOOLEAN
  BY DEF A!Init
<1> QED BY <1>1, <1>2 DEF CloseRest

(* The flag is set or left alone.                                            *)
LEMMA FlagBoolean ==
  ASSUME CloseRest, [A!Next]_(A!vars)
  PROVE  closedByUs' \in BOOLEAN
<1>1. closedByUs' = TRUE \/ closedByUs' = closedByUs
  BY Zenon DEF A!Next, A!Copier, A!CallRead, A!ReadClosed, A!CallWrite,
       A!WriteClosed, A!CopyReturns, A!After, A!AfterStart, A!AfterClose,
       A!Main, A!MainWait, A!MainStop, A!MainClose, A!EnterOnce, A!OnceStep,
       A!Environment, A!vars, A!closeVars
<1> QED BY <1>1 DEF CloseRest

LEMMA CloseRestStays ==
  ASSUME CloseRest, UNCHANGED <<owner, after, main, result>>,
         closedByUs' \in BOOLEAN, group' \in {"live", "done"},
         main = "wait" \/ UNCHANGED err
  PROVE  CloseRest'
BY DEF CloseRest

(* eg.Wait() with no error to return means that no copy had one: that of an  *)
(* object which was closed would have had a reason.                          *)
LEMMA NilOfWait ==
  ASSUME GenuineInv, A!MainWait, result' = "nil", NEW i \in A!Copies
  PROVE  err[i] = "nil"
<1>1. first = "nil" /\ parent # "done" /\ main = "wait" /\ cpc[i] = "done"
  BY DEF A!MainWait, A!ContextErr, A!CopiesDone
<1>2. err[i] # "fault"
  BY <1>1 DEF GenuineInv, CloseErrors, CloseCopies, CloseReason
<1>3. err[i] # "closed"
  <2>1. once = "new"
    BY <1>1 DEF GenuineInv, CloseErrors, CloseReasons, CloseReason
  <2> QED BY <2>1, Zenon DEF GenuineInv, ClosedInv, FlagInv
<1> QED BY <1>2, <1>3 DEF GenuineInv, CloseErrors, CloseTypes

LEMMA CloseRestStep ==
  ASSUME GenuineInv, CloseRest, [A!Next]_(A!vars)
  PROVE  CloseRest'
<1>0. closedByUs' \in BOOLEAN
  BY FlagBoolean
<1>1. CASE A!After
  <2>1. UNCHANGED <<group, err, main, result>>
    BY <1>1, Zenon DEF A!After, A!AfterStart, A!AfterClose, A!copyVars
  <2>2. /\ owner' \in {owner, "after", "none"}
        /\ after' \in {after, "running", "done"}
    BY <1>1, Zenon DEF A!After, A!AfterStart, A!AfterClose, A!EnterOnce,
         A!OnceStep
  <2> QED BY <1>0, <2>1, <2>2 DEF CloseRest
<1>2. CASE A!MainWait
  <2>1. result' \in {"nil", "fault", "context", "joined"}
    BY <1>2 DEF A!MainWait, A!ContextErr, GenuineInv, CloseErrors, CloseTypes
  <2>2. main' = "stop" /\ group' = "done" /\ UNCHANGED <<err, owner, after>>
    BY <1>2, Zenon DEF A!MainWait
  <2>3. result' = "nil" => \A i \in A!Copies : err[i] = "nil"
    BY <1>2, NilOfWait
  <2> QED BY <1>0, <2>1, <2>2, <2>3 DEF CloseRest
<1>3. CASE A!MainStop \/ A!MainClose
  <2>1. UNCHANGED <<group, err, result>>
    BY <1>3, Zenon DEF A!MainStop, A!MainClose, A!copyVars
  <2>2. /\ owner' \in {owner, "main", "none"} /\ after' \in {after, "done"}
        /\ main # "wait" /\ main' \in {"close", "returned"}
    BY <1>3 DEF A!MainStop, A!MainClose, A!EnterOnce, A!OnceStep
  <2> QED BY <1>0, <2>1, <2>2 DEF CloseRest
<1>4. ASSUME NEW i \in A!Copies, A!Copier(i) PROVE CloseRest'
  <2>1. group' \in {group, "done"} /\ UNCHANGED <<owner, after, main, result>>
    BY <1>4, Zenon DEF A!Copier, A!CallRead, A!EnterRead, A!ReadClosed,
         A!CallWrite, A!EnterWrite, A!WriteClosed, A!WriteFails, A!CopyReturns,
         A!Report, A!closeVars
  <2>2. cpc[i] # "done"
    BY <1>4 DEF A!Copier, A!CallRead, A!EnterRead, A!ReadClosed, A!CallWrite,
         A!EnterWrite, A!WriteClosed, A!WriteFails, A!CopyReturns, A!Report
  <2>3. main = "wait"
    BY <2>2, StillRunning DEF GenuineInv
  <2> QED BY <2>1, <2>3, CloseRestStays, <1>0 DEF CloseRest
<1>5. ASSUME NEW i \in A!Copies, A!Object(i), UNCHANGED A!closeVars
      PROVE  CloseRest'
  <2>1. UNCHANGED <<group, owner, after, main, result>>
    BY <1>5, Zenon DEF A!Object, A!ReadData, A!ReadEOF, A!ReadFault,
         A!WriteData, A!WriteFails, A!closeVars
  <2>2. cpc[i] # "done"
    BY <1>5 DEF A!Object, A!ReadData, A!ReadEOF, A!ReadFault, A!WriteData,
         A!WriteFails
  <2>3. main = "wait"
    BY <2>2, StillRunning DEF GenuineInv
  <2> QED BY <2>1, <2>3, CloseRestStays, <1>0 DEF CloseRest
<1>6. CASE (A!Expire /\ UNCHANGED A!closeVars) \/ UNCHANGED A!vars
  <2>1. /\ group' \in {group, "done"}
        /\ UNCHANGED <<err, owner, after, main, result>>
    BY <1>6, Zenon DEF A!Expire, A!vars, A!copyVars, A!closeVars
  <2> QED BY <2>1, CloseRestStays, <1>0 DEF CloseRest
<1> QED BY <1>1, <1>2, <1>3, <1>4, <1>5, <1>6 DEF A!Next, A!Main, A!Environment

LEMMA CloseBytes ==
  ASSUME BytesInv, [A!Next]_(A!vars)
  PROVE  BytesInv'
<1> DEFINE Still == UNCHANGED <<cpc, chunk, err, taken, given>>
<1>1. ASSUME NEW i \in A!Copies, A!Copier(i) PROVE CopyMoves(i)
  <2>1. CASE A!CallRead(i) \/ A!ReadClosed(i) \/ A!CallWrite(i)
    BY <2>1 DEF A!CallRead, A!EnterRead, A!ReadClosed, A!CallWrite,
         A!EnterWrite, A!Fails, CopyMoves, EnterRead, EnterWrite, CallFails,
         Fails
  <2>2. CASE A!WriteClosed(i)
    BY <2>2 DEF A!WriteClosed, A!WriteFails, A!Fails, CopyMoves, WriteFails,
         Fails
  <2>3. CASE A!CopyReturns(i)
    <3>1. A!Report(i, IF err[i] # "nil" /\ closedByUs
                      THEN A!ContextErr ELSE err[i])
      BY <2>3, Zenon DEF A!CopyReturns
    <3>2. ASSUME NEW e, A!Report(i, e) PROVE Report(i, e)
      BY <3>2 DEF A!Report, Report
    <3> QED BY <3>1, <3>2, Zenon DEF CopyMoves
  <2> QED BY <1>1, <2>1, <2>2, <2>3 DEF A!Copier
<1>2. ASSUME NEW i \in A!Copies, A!Object(i) PROVE CopyMoves(i)
  BY <1>2 DEF A!Object, A!ReadData, A!ReadEOF, A!ReadFault, A!WriteData,
       A!WriteFails, A!Fails, CopyMoves, ReadData, ReadEOF, CallFails,
       WriteData, WriteFails, Fails
<1>3. A!After \/ A!Main \/ A!Expire \/ UNCHANGED A!vars => Still
  BY Zenon DEF A!After, A!AfterStart, A!AfterClose, A!Main, A!MainWait,
     A!MainStop, A!MainClose, A!Expire, A!vars, A!copyVars
<1>4. Copies = A!Copies
  BY DEF Copies, A!Copies
<1> QED BY <1>1, <1>2, <1>3, <1>4, BytesMove, BytesStay DEF A!Next,
       A!Environment

-----------------------------------------------------------------------------
(* The specification the run checks, in which one of the two is called.      *)
MCInv ==
  /\ which \in {"Connect", "ConnectAndClose"}
  /\ BytesInv
  /\ Connecting => ConnectInv /\ ConnectRest
  /\ ~ Connecting => OnceInv /\ GenuineInv /\ CloseRest

LEMMA MCInitial == MCInit => MCInv
<1> SUFFICES ASSUME MCInit PROVE MCInv
  OBVIOUS
<1>1. BytesInv
  BY BytesInitial DEF MCInit, C!Init, C!CopyInit, CopyInit, C!Copies, Copies
<1> QED BY <1>1, ConnectInitial, ConnectRestInitial, OnceInit, GenuineInit,
           CloseRestInitial DEF MCInit, MCInv

LEMMA MCStep == MCInv /\ [MCNext]_mcVars => MCInv'
<1> SUFFICES ASSUME MCInv, [MCNext]_mcVars PROVE MCInv'
  OBVIOUS
<1>1. /\ which' = which
      /\ Connecting => [C!Next]_(C!vars)
      /\ ~ Connecting => [A!Next]_(A!vars)
  BY DEF MCNext, mcVars, copyVars, connectOnly, closeOnly, C!vars, C!copyVars,
     C!connectVars, A!vars, A!copyVars, A!closeVars
<1>2. Connecting' <=> Connecting
  BY <1>1 DEF Connecting
<1>3. CASE Connecting
  BY <1>1, <1>2, <1>3, ConnectStep, ConnectRestStep, ConnectBytes DEF MCInv
<1>4. CASE ~ Connecting
  BY <1>1, <1>2, <1>4, OnceMoves, ErrorMoves, ClosedMoves, FlagMoves,
     CloseRestStep, CloseBytes DEF MCInv, GenuineInv
<1> QED BY <1>3, <1>4

LEMMA MCAlways == MCSpec => []MCInv
BY MCInitial, MCStep, PTL DEF MCSpec

(***************************************************************************)
(* Unless its caller's context expired, Connect returns the error that was *)
(* the reason to end, never the ErrCanceled its monitor causes in the other*)
(* copy (connect.go:26-58, README.md:116-118), however copies, monitor and *)
(* main goroutine interleave.                                              *)
(***************************************************************************)
THEOREM ConnectKeepsFirst == MCSpec => []FirstErrorKept
<1>1. ConnectInv => C!FirstErrorKept
  BY DEF ConnectInv, ConnectTypes, ConnectCopies, ConnectReasons, C!CopiesDone,
       C!FirstErrorKept
<1>2. MCInv => FirstErrorKept
  BY <1>1, Zenon DEF MCInv, FirstErrorKept
<1> QED BY <1>2, MCAlways, PTL

(***************************************************************************)
(* Both objects are closed when ConnectAndClose returns, and neither twice,*)
(* whichever of AfterFunc and the deferred call comes first                *)
(* (connect.go:70-85).                                                     *)
(***************************************************************************)
THEOREM CloseClosesBoth == MCSpec => []ClosedOnReturn
<1>1. OnceInv => A!ClosedOnReturn
  BY DEF OnceInv, A!ClosedOnReturn, A!Sides
<1>2. MCInv => ClosedOnReturn
  BY <1>1, Zenon DEF MCInv, ClosedOnReturn
<1> QED BY <1>2, MCAlways, PTL

(***************************************************************************)
(* The errors that its own closing of the objects causes are neither       *)
(* returned nor joined to that of the context, and an error of an object's *)
(* own is returned as long as the context had not expired                  *)
(* (connect.go:87-122), however the copies, AfterFunc and the deferred     *)
(* call interleave.                                                        *)
(***************************************************************************)
THEOREM CloseReturnsGenuine == MCSpec => []GenuineError
<1>1. GenuineInv => A!GenuineError
  BY DEF GenuineInv, CloseErrors, CloseResult
<1>2. MCInv => GenuineError
  BY <1>1, Zenon DEF MCInv, GenuineError
<1> QED BY <1>2, MCAlways, PTL

(***************************************************************************)
(* When either function returns no error, both sources were read to the    *)
(* end and every byte of both was written (connect.go:41-58 and 93-122).   *)
(***************************************************************************)
THEOREM NilMeansComplete == MCSpec => []NilIsComplete
<1> SUFFICES MCInv => NilIsComplete
  BY MCAlways, PTL
<1> SUFFICES ASSUME MCInv, result = "nil", NEW i \in Copies
             PROVE  err[i] = "nil" /\ given[i] = taken[i]
  BY DEF NilIsComplete
<1>1. i \in C!Copies /\ i \in A!Copies
  BY DEF Copies, C!Copies, A!Copies
<1>2. err[i] = "nil" /\ cpc[i] = "done"
  <2>1. CASE Connecting
    BY <1>1, <2>1 DEF MCInv, ConnectInv, ConnectTypes, ConnectCopies,
         ConnectRest, C!CopiesDone
  <2>2. CASE ~ Connecting
    BY <1>1, <2>2 DEF MCInv, GenuineInv, CloseErrors, CloseCopies, CloseRest,
         A!CopiesDone
  <2> QED BY <2>1, <2>2
<1>3. chunk[i] = 0 /\ taken[i] = given[i] + chunk[i]
  BY <1>2 DEF MCInv, BytesInv, BytesHeld
<1>4. given[i] \in Nat
  BY CopyAssumption DEF CopyAssumption, MCInv, BytesInv, BytesTyped
<1> QED BY <1>2, <1>3, <1>4

(***************************************************************************)
(* Once Connect has returned its monitor calls nothing any more, and its   *)
(* copies are over: the deferred receive from ctxMonitoringDone is enough  *)
(* (connect.go:21-34).                                                     *)
(***************************************************************************)
THEOREM ConnectLeavesNothing == MCSpec => NothingAfterReturn
<1>1. ASSUME MCInv, [MCNext]_mcVars, Connecting, main = "returned"
      PROVE  UNCHANGED <<canceled, monitor, cpc>>
  <2>1. [C!Next]_(C!vars)
    BY <1>1 DEF MCNext, mcVars, copyVars, connectOnly, C!vars, C!copyVars,
         C!connectVars
  <2>2. monitor = "done" /\ \A i \in C!Copies : cpc[i] = "done"
    BY <1>1 DEF MCInv, ConnectRest, ConnectInv, ConnectCopies, C!CopiesDone
  <2>3. ~ C!Monitor
    BY <2>2 DEF C!Monitor, C!MonitorSelect, C!MonitorCancel, C!Calls
  <2>4. ~ C!Main
    BY <1>1 DEF C!Main, C!MainWait, C!MainClose, C!MainReturn
  <2>5. ASSUME NEW i \in C!Copies PROVE ~ C!Copier(i) /\ ~ C!Object(i)
    BY <2>2 DEF C!Copier, C!CallRead, C!EnterRead, C!ReadCanceled, C!CallWrite,
         C!EnterWrite, C!WriteCanceled, C!WriteFails, C!CopyReturns, C!Report,
         C!Object, C!ReadData, C!ReadEOF, C!ReadFault, C!WriteData
  <2> QED BY <1>1, <2>1, <2>3, <2>4, <2>5
          DEF C!Next, C!Environment, C!vars, C!copyVars, C!connectVars
<1>2. MCInv /\ [MCNext]_mcVars
        => [Connecting /\ main = "returned"
              => UNCHANGED <<canceled, monitor, cpc>>]_mcVars
  BY <1>1
<1> QED BY <1>2, MCAlways, PTL DEF MCSpec, NothingAfterReturn

(***************************************************************************)
(* Every variable keeps its type, and with it the counters their bounds:   *)
(* no copy writes more than it has read (connect.go:12-123).               *)
(***************************************************************************)
THEOREM ConnectTypeCorrect == MCSpec => []TypeOK
<1>1. ASSUME BytesInv, ConnectInv, ConnectRest PROVE C!TypeOK
  <2>1. C!CopyTypeOK
    BY <1>1 DEF C!CopyTypeOK, BytesInv, BytesTyped, C!Copies, Copies,
         ConnectInv, ConnectTypes, ConnectRest
  <2> QED BY <1>1, <2>1 DEF C!TypeOK, ConnectRest
<1>2. ASSUME BytesInv, OnceInv, GenuineInv, CloseRest PROVE A!TypeOK
  <2>1. A!CopyTypeOK
    BY <1>2 DEF A!CopyTypeOK, BytesInv, BytesTyped, A!Copies, Copies,
         GenuineInv, CloseErrors, CloseTypes, CloseRest
  <2>2. closes \in [A!Sides -> Nat]
    BY <1>2 DEF OnceInv
  <2> QED BY <1>2, <2>1, <2>2 DEF A!TypeOK, CloseRest, OnceInv
<1>3. MCInv => TypeOK
  BY <1>1, <1>2, Zenon DEF MCInv, TypeOK
<1> QED BY <1>3, MCAlways, PTL

=============================================================================
