-------------------------------- MODULE Connect --------------------------------
(***************************************************************************)
(* Connect (connect.go:12-59) between two ContextIO values that keep the   *)
(* promise of ContextIO: a goroutine monitors the group's context and      *)
(* cancels all four directions when it is done; the main goroutine waits   *)
(* for the copies, then for the monitor.                                   *)
(***************************************************************************)
EXTENDS CopyPair, Sequences

VARIABLES canceled,  \* the directions of the two values whose flag is set
          monitor,   \* the calls of the monitor that are left, or its state
          main,      \* where Connect is
          copyDone,  \* the channel copyDone is closed
          result     \* what Connect returned

connectVars == <<canceled, monitor, main, copyDone, result>>

vars == <<copyVars, connectVars>>

Half(s, d) == [side |-> s, dir |-> d]

Init ==
  /\ CopyInit
  /\ canceled = {}
  /\ monitor = "select"
  /\ main = "wait"
  /\ copyDone = FALSE
  /\ result = "none"

-----------------------------------------------------------------------------
(* io.Copy on a ContextIO: Read and Write return ErrCanceled at once when    *)
(* the flag is set, and when it is set while they wait.                      *)
CallRead(i) ==
  /\ IF Half(Src(i), "read") \in canceled
     THEN /\ cpc[i] = "callRead"
          /\ Fails(i, "canceled")
          /\ UNCHANGED <<chunk, taken, given, first, parent, group>>
     ELSE EnterRead(i)
  /\ UNCHANGED connectVars

ReadCanceled(i) ==
  /\ cpc[i] = "reading"
  /\ Half(Src(i), "read") \in canceled
  /\ Fails(i, "canceled")
  /\ UNCHANGED <<chunk, taken, given, first, parent, group, connectVars>>

CallWrite(i) ==
  /\ IF Half(Dst(i), "write") \in canceled
     THEN /\ cpc[i] = "callWrite"
          /\ Fails(i, "canceled")
          /\ UNCHANGED <<chunk, taken, given, first, parent, group>>
     ELSE EnterWrite(i)
  /\ UNCHANGED connectVars

WriteCanceled(i) ==
  /\ Half(Dst(i), "write") \in canceled
  /\ WriteFails(i, "canceled")
  /\ UNCHANGED connectVars

(* Mutant: a canceled copy is no error.                                      *)
CanceledIsNil(i) ==
  /\ Report(i, IF err[i] = "canceled" THEN "nil" ELSE err[i])
  /\ UNCHANGED connectVars

(* Both functions wrap the error of io.Copy and return it.                   *)
CopyReturns(i) == Report(i, err[i]) /\ UNCHANGED connectVars

(* The monitor: select on ctx.Done() and copyDone, then a.Cancel() and       *)
(* b.Cancel(), each of them CancelReads and CancelWrites.                    *)
MonitorSelect ==
  /\ monitor = "select"
  /\ \/ group = "done" /\ monitor' = "a.CancelReads"
     \/ copyDone /\ monitor' = "done"
  /\ UNCHANGED <<copyVars, canceled, main, copyDone, result>>

Calls == <<"a.CancelReads", "a.CancelWrites", "b.CancelReads", "b.CancelWrites",
           "done">>

Halves == <<Half("a", "read"), Half("a", "write"),
            Half("b", "read"), Half("b", "write")>>

(* Mutant: the monitor forgets b.                                            *)
CancelOneSide ==
  /\ \E j \in 1..2 :
       /\ monitor = Calls[j]
       /\ monitor' = IF j = 2 THEN "done" ELSE Calls[j + 1]
       /\ canceled' = canceled \cup {Halves[j]}
  /\ UNCHANGED <<copyVars, main, copyDone, result>>

MonitorCancel ==
  /\ \E j \in 1..4 :
       /\ monitor = Calls[j]
       /\ monitor' = Calls[j + 1]
       /\ canceled' = canceled \cup {Halves[j]}
  /\ UNCHANGED <<copyVars, main, copyDone, result>>

(* eg.Wait() returns the first error; it cancels the group's context first.  *)
MainWait ==
  /\ main = "wait" /\ CopiesDone
  /\ main' = "close"
  /\ group' = "done"
  /\ UNCHANGED <<cpc, chunk, err, taken, given, first, parent,
                 canceled, monitor, copyDone, result>>

MainClose ==
  /\ main = "close"
  /\ main' = "join"
  /\ copyDone' = TRUE
  /\ UNCHANGED <<copyVars, canceled, monitor, result>>

(* Mutants: the monitor is not waited for; the error of the context is added. *)
MainReturnEarly ==
  /\ main = "join"
  /\ main' = "returned"
  /\ result' = first
  /\ UNCHANGED <<copyVars, canceled, monitor, copyDone>>

MainReturnJoined ==
  /\ main = "join" /\ monitor = "done"
  /\ main' = "returned"
  /\ result' = IF first # "nil" /\ parent = "done" THEN "joined" ELSE first
  /\ UNCHANGED <<copyVars, canceled, monitor, copyDone>>

(* The deferred receive from ctxMonitoringDone.                              *)
MainReturn ==
  /\ main = "join" /\ monitor = "done"
  /\ main' = "returned"
  /\ result' = first
  /\ UNCHANGED <<copyVars, canceled, monitor, copyDone>>

-----------------------------------------------------------------------------
Copier(i) ==
  \/ CallRead(i) \/ ReadCanceled(i) \/ CallWrite(i) \/ WriteCanceled(i)
  \/ CopyReturns(i)

Monitor == MonitorSelect \/ MonitorCancel

Main == MainWait \/ MainClose \/ MainReturn

Environment ==
  \/ \E i \in Copies : Object(i) /\ UNCHANGED connectVars
  \/ main # "returned" /\ Expire /\ UNCHANGED connectVars

Next ==
  \/ \E i \in Copies : Copier(i)
  \/ Monitor \/ Main
  \/ Environment

Spec == Init /\ [][Next]_vars

(* Goroutines run; the objects owe nothing and nobody has to cancel.         *)
FairSpec ==
  Spec /\ WF_vars(Main) /\ WF_vars(Monitor) /\ \A i \in Copies : WF_vars(Copier(i))

-----------------------------------------------------------------------------
TypeOK ==
  /\ CopyTypeOK
  /\ canceled \subseteq {Half(s, d) : s \in Sides, d \in {"read", "write"}}
  /\ monitor \in {"select", "a.CancelReads", "a.CancelWrites", "b.CancelReads",
                  "b.CancelWrites", "done"}
  /\ main \in {"wait", "close", "join", "returned"}
  /\ copyDone \in BOOLEAN
  /\ result \in {"none", "nil", "fault", "canceled"}

(***************************************************************************)
(* Unless its caller's context expired, Connect does not return the        *)
(* ErrCanceled that its own cancellation of the other copy causes, but the *)
(* error that was the reason for it (README.md:116-118).                   *)
(***************************************************************************)
FirstErrorKept ==
  main = "returned" /\ parent = "live" =>
    /\ result # "canceled"
    /\ (\E i \in Copies : err[i] = "fault") <=> result = "fault"

(***************************************************************************)
(* No data is consumed from either side when the context expires           *)
(* (connect.go:13-14): what was read was also written.                     *)
(***************************************************************************)
NothingConsumed ==
  main = "returned" /\ (\A i \in Copies : err[i] # "fault") =>
    \A i \in Copies : given[i] = taken[i]

=============================================================================
