----------------------------- MODULE MCWinPipeIO -----------------------------
(* One anonymous pipe, a canceler, and in each behaviour either the reader   *)
(* or the writer: both are in one run, and the states are the sum of the two *)
(* and not the product.  The canceler calls CancelReads, ResetReader and     *)
(* Close, and of the writer, whose code is the same, Close alone.  A read    *)
(* takes the one byte that is there, a write is longer than the room, and    *)
(* the peer stays; two workers, so that one may still be in its deferred     *)
(* function when the next begins.                                            *)
EXTENDS WinPipeIO

VARIABLE use   \* the direction that is in use in this behaviour

mcVars == <<vars, use>>

Absent == {c \in Callers : Dir(c) # use}

Called == {Close} \cup IF use = "read" THEN {CancelReads, ResetReader} ELSE {}

Longest(c) == IF c \in Readers THEN 1 ELSE MaxLen

MCInit == Init /\ use \in Directions

MCNext ==
  /\ Next
  /\ \A x \in Cancelers : job[x] = <<>> => job'[x] \in Called \cup {<<>>}
  /\ \A c \in Absent : pc'[c] = "idle"
  /\ \A c \in Callers \ Absent : pc'[c] # "idle" => len'[c] = Longest(c)
  /\ use = "read"  => space' = space
  /\ use = "write" => avail' = avail
  /\ UNCHANGED <<use, peer>>

(* Only one caller runs: fairness to somebody is fairness to it.             *)
MCSpec ==
  /\ MCInit /\ [][MCNext]_mcVars
  /\ WF_vars(\E c \in Callers : Operate(c))
  /\ WF_vars(\E c \in Callers : Watch(c))
  /\ \A t \in Threads : WF_vars(Run(t))
  /\ \A x \in Cancelers : WF_vars(Manage(x))

InUse == CHOOSE c \in Callers : c \notin Absent

(***************************************************************************)
(* An operation whose watcher found its thread handle and its channel      *)
(* returns: the watcher calls CancelSynchronousIo again until the call it  *)
(* aims at has begun and is aborted (lines 207-222).                       *)
(***************************************************************************)
FoundEnds == watch[InUse] = "aborting" ~> pc[InUse] = "idle"
=============================================================================
