------------------------------ MODULE MCConnect ------------------------------
(* Connect and ConnectAndClose, one of them in each behaviour: the states of *)
(* the run are the sum of theirs.                                            *)
EXTENDS CopyPair

VARIABLES main, result,                      \* of both
          canceled, monitor, copyDone,       \* of Connect
          once, owner, closedByUs, closes, after,  \* of ConnectAndClose
          which   \* the function of this behaviour

C == INSTANCE Connect
A == INSTANCE ConnectAndClose

connectOnly == <<canceled, monitor, copyDone>>
closeOnly == <<once, owner, closedByUs, closes, after>>

mcVars == <<copyVars, main, result, connectOnly, closeOnly, which>>

Connecting == which = "Connect"

MCInit == C!Init /\ A!Init /\ which \in {"Connect", "ConnectAndClose"}

MCNext ==
  \/ Connecting /\ C!Next /\ UNCHANGED <<closeOnly, which>>
  \/ ~ Connecting /\ A!Next /\ UNCHANGED <<connectOnly, which>>

Main ==
  \/ Connecting /\ C!Main /\ UNCHANGED <<closeOnly, which>>
  \/ ~ Connecting /\ A!Main /\ UNCHANGED <<connectOnly, which>>

(* The goroutine that cancels, or closes.                                    *)
Ender ==
  \/ Connecting /\ C!Monitor /\ UNCHANGED <<closeOnly, which>>
  \/ ~ Connecting /\ A!After /\ UNCHANGED <<connectOnly, which>>

Copier(i) ==
  \/ Connecting /\ C!Copier(i) /\ UNCHANGED <<closeOnly, which>>
  \/ ~ Connecting /\ A!Copier(i) /\ UNCHANGED <<connectOnly, which>>

(* The fairness of both.                                                     *)
MCSpec ==
  /\ MCInit /\ [][MCNext]_mcVars
  /\ WF_mcVars(Main) /\ WF_mcVars(Ender)
  /\ \A i \in Copies : WF_mcVars(Copier(i))

-----------------------------------------------------------------------------
TypeOK == IF Connecting THEN C!TypeOK ELSE A!TypeOK

FirstErrorKept == Connecting => C!FirstErrorKept

ClosedOnReturn == ~ Connecting => A!ClosedOnReturn

GenuineError == ~ Connecting => A!GenuineError

(***************************************************************************)
(* No error means that both sources were read to the end and every byte    *)
(* was delivered (connect.go:41-58 and 93-122).                            *)
(***************************************************************************)
NilIsComplete ==
  result = "nil" => \A i \in Copies : err[i] = "nil" /\ given[i] = taken[i]

(***************************************************************************)
(* After Connect has returned nothing of it runs: no Cancel reaches a or b *)
(* behind the back of the caller, who may go on to use them (lines 21-34). *)
(***************************************************************************)
NothingAfterReturn ==
  [][Connecting /\ main = "returned" => UNCHANGED <<canceled, monitor, cpc>>]_mcVars

(***************************************************************************)
(* An expired context or an error in one direction ends both functions,    *)
(* though the other direction is blocked for good.                         *)
(***************************************************************************)
ConnectReturns == group = "done" ~> main = "returned"
=============================================================================
