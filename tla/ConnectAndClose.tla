---------------------------- MODULE ConnectAndClose ----------------------------
(***************************************************************************)
(* ConnectAndClose (connect.go:61-123) between two plain objects: when the *)
(* group's context is done, context.AfterFunc runs forceCloseBoth, which   *)
(* closes both objects and so ends the blocked copies; the deferred        *)
(* function runs it as well.  A sync.Once lets one of them do it and holds *)
(* the other until it is done.                                             *)
(***************************************************************************)
EXTENDS CopyPair

VARIABLES once,        \* the sync.Once: "new", "running" or "done"
          owner,       \* who is inside it: "after", "main" or "none"
          closedByUs,  \* the atomicFlag
          closes,      \* closes[s]: how often s was closed
          after,       \* the function of AfterFunc
          main,        \* where ConnectAndClose is
          result       \* what it returned

closeVars == <<once, owner, closedByUs, closes, after, main, result>>

vars == <<copyVars, closeVars>>

Init ==
  /\ CopyInit
  /\ once = "new" /\ owner = "none"
  /\ closedByUs = FALSE
  /\ closes = [s \in Sides |-> 0]
  /\ after = "waiting"
  /\ main = "wait"
  /\ result = "none"

IsClosed(s) == closes[s] > 0

-----------------------------------------------------------------------------
(* io.Copy on plain objects: a call on a closed object fails, whether it was *)
(* closed before or during the call.                                         *)
CallRead(i) == EnterRead(i) /\ UNCHANGED closeVars

CallWrite(i) == EnterWrite(i) /\ UNCHANGED closeVars

ReadClosed(i) ==
  /\ cpc[i] = "reading" /\ IsClosed(Src(i))
  /\ Fails(i, "closed")
  /\ UNCHANGED <<chunk, taken, given, first, parent, group, closeVars>>

WriteClosed(i) ==
  /\ IsClosed(Dst(i))
  /\ WriteFails(i, "closed")
  /\ UNCHANGED closeVars

(* The functions given to eg.Go: an error after closedByUs is ctx.Err().     *)
ContextErr == IF parent = "done" THEN "context" ELSE "nil"

(* Mutant: the flag is not looked at.                                        *)
AnyErrorReturns(i) == Report(i, err[i]) /\ UNCHANGED closeVars

CopyReturns(i) ==
  /\ Report(i, IF err[i] # "nil" /\ closedByUs THEN ContextErr ELSE err[i])
  /\ UNCHANGED closeVars

(* closeOnce.Do(...) by p: it enters, does the three statements, leaves.     *)
EnterOnce(p) ==
  /\ once = "new"
  /\ once' = "running" /\ owner' = p
  /\ UNCHANGED <<closedByUs, closes>>

OnceStep(p) ==
  /\ once = "running" /\ owner = p
  /\ \/ /\ ~ closedByUs
        /\ closedByUs' = TRUE
        /\ UNCHANGED <<once, owner, closes>>
     \/ /\ closedByUs /\ closes["a"] = 0
        /\ closes' = [closes EXCEPT !["a"] = @ + 1]
        /\ UNCHANGED <<once, owner, closedByUs>>
     \/ /\ closes["a"] > 0
        /\ closes' = [closes EXCEPT !["b"] = @ + 1]
        /\ once' = "done" /\ owner' = "none"
        /\ UNCHANGED closedByUs

(* Mutant: AfterFunc is given ctx instead of groupCtx.                       *)
AfterParent ==
  /\ after = "waiting" /\ parent = "done"
  /\ after' = "running"
  /\ UNCHANGED <<copyVars, once, owner, closedByUs, closes, main, result>>

(* AfterFunc starts forceCloseBoth in a goroutine when groupCtx is done.     *)
AfterStart ==
  /\ after = "waiting" /\ group = "done"
  /\ after' = "running"
  /\ UNCHANGED <<copyVars, once, owner, closedByUs, closes, main, result>>

AfterClose ==
  /\ after = "running"
  /\ \/ EnterOnce("after") /\ UNCHANGED after
     \/ OnceStep("after") /\ UNCHANGED after
     \/ once = "done" /\ after' = "done" /\ UNCHANGED <<once, owner, closedByUs, closes>>
  /\ UNCHANGED <<copyVars, main, result>>

(* Mutants: eg.Wait's error is dropped, or joined with a nil ctx.Err().      *)
WaitDropsError ==
  /\ main = "wait" /\ CopiesDone
  /\ main' = "stop"
  /\ group' = "done"
  /\ result' = ContextErr
  /\ UNCHANGED <<cpc, chunk, err, taken, given, first, parent,
                 once, owner, closedByUs, closes, after>>

WaitJoinsNil ==
  /\ main = "wait" /\ CopiesDone
  /\ main' = "stop"
  /\ group' = "done"
  /\ result' = IF first = "nil" THEN ContextErr
               ELSE IF parent = "done" THEN "joined" ELSE "joinedNil"
  /\ UNCHANGED <<cpc, chunk, err, taken, given, first, parent,
                 once, owner, closedByUs, closes, after>>

(* eg.Wait(), which cancels groupCtx, and the error that is returned.        *)
MainWait ==
  /\ main = "wait" /\ CopiesDone
  /\ main' = "stop"
  /\ group' = "done"
  /\ result' = IF first = "nil" THEN ContextErr
               ELSE IF parent = "done" /\ first # "context" THEN "joined" ELSE first
  /\ UNCHANGED <<cpc, chunk, err, taken, given, first, parent,
                 once, owner, closedByUs, closes, after>>

(* The deferred stopClosing(): a function that has not started never will.   *)
MainStop ==
  /\ main = "stop"
  /\ main' = "close"
  /\ after' = IF after = "waiting" THEN "done" ELSE after
  /\ UNCHANGED <<copyVars, once, owner, closedByUs, closes, result>>

(* Mutant: a flag instead of the sync.Once, so that the second does not wait. *)
MainCloseNoWait ==
  /\ main = "close"
  /\ \/ EnterOnce("main") /\ UNCHANGED main
     \/ OnceStep("main") /\ UNCHANGED main
     \/ /\ once # "new" /\ owner # "main"
        /\ main' = "returned"
        /\ UNCHANGED <<once, owner, closedByUs, closes>>
  /\ UNCHANGED <<copyVars, after, result>>

(* The deferred forceCloseBoth().                                            *)
MainClose ==
  /\ main = "close"
  /\ \/ EnterOnce("main") /\ UNCHANGED main
     \/ OnceStep("main") /\ UNCHANGED main
     \/ once = "done" /\ main' = "returned" /\ UNCHANGED <<once, owner, closedByUs, closes>>
  /\ UNCHANGED <<copyVars, after, result>>

-----------------------------------------------------------------------------
Copier(i) ==
  \/ CallRead(i) \/ ReadClosed(i) \/ CallWrite(i) \/ WriteClosed(i)
  \/ CopyReturns(i)

After == AfterStart \/ AfterClose

Main == MainWait \/ MainStop \/ MainClose

Environment ==
  \/ \E i \in Copies : Object(i) /\ UNCHANGED closeVars
  \/ main # "returned" /\ Expire /\ UNCHANGED closeVars

Next ==
  \/ \E i \in Copies : Copier(i)
  \/ After \/ Main
  \/ Environment

Spec == Init /\ [][Next]_vars

(* Goroutines run; the objects owe nothing and nobody has to cancel.         *)
FairSpec ==
  Spec /\ WF_vars(Main) /\ WF_vars(After) /\ \A i \in Copies : WF_vars(Copier(i))

-----------------------------------------------------------------------------
TypeOK ==
  /\ CopyTypeOK
  /\ once \in {"new", "running", "done"}
  /\ owner \in {"after", "main", "none"}
  /\ closedByUs \in BOOLEAN
  /\ closes \in [Sides -> Nat]
  /\ after \in {"waiting", "running", "done"}
  /\ main \in {"wait", "stop", "close", "returned"}
  /\ result \in {"none", "nil", "fault", "closed", "context", "joined"}

(***************************************************************************)
(* Both objects are closed when ConnectAndClose returns, and neither was   *)
(* closed twice, whoever of the two came first (lines 61-62, 70-85).       *)
(***************************************************************************)
ClosedOnReturn ==
  /\ \A s \in Sides : closes[s] <= 1
  /\ main = "returned" => \A s \in Sides : closes[s] = 1

(***************************************************************************)
(* The error of an object that was closed by ConnectAndClose itself is not *)
(* returned, nor joined to that of the context; an error of an object's    *)
(* own is, as long as the context had not expired (lines 87-122).          *)
(***************************************************************************)
GenuineError ==
  result # "none" =>
    /\ result \in {"closed", "joined"} => \E i \in Copies : err[i] = "fault"
    /\ parent = "live" /\ (\E i \in Copies : err[i] = "fault") => result = "fault"

=============================================================================
