------------------------------- MODULE MCFlagIO -------------------------------
(* The backends with a flag, one of them in each behaviour, with a canceler *)
(* and either the reader or the writer: they are in one run, and the states  *)
(* are the sum of theirs and not the product.                                *)
EXTENDS WinRequest

CONSTANT MaxNoise   \* of WinConsoleIO

ASSUME NoiseAssumption == MaxNoise \in Nat

VARIABLES deadline,                      \* of DeadlineIO
          closed, closes, failed,        \* of CloseIO
          halves,                        \* of CloseIO and WinConsoleIO
          event, isFile,                 \* of WinOverlappedIO (and WinConsoleIO)
          noise,                         \* of WinConsoleIO
          kind,   \* the backend of this behaviour
          use     \* the direction that is in use in this behaviour

D == INSTANCE DeadlineIO
C == INSTANCE CloseIO
O == INSTANCE WinOverlappedIO
K == INSTANCE WinConsoleIO

kept == <<kind, use>>

mcVars == <<opVars, job, streamVars, canceled, req, deadline, closed, closes, failed,
            halves, event, isFile, noise, kept>>

Unused == {c \in Callers : Dir(c) # use}

MCInit ==
  /\ D!Init /\ C!Init /\ O!Init /\ K!Init
  /\ kind \in {"deadline", "closable", "overlapped", "console"}
  /\ use \in Directions
  /\ kind # "closable" => halves = (IF kind = "console" THEN halves ELSE Directions)
  /\ kind # "overlapped" => isFile = FALSE

(* What the other backends use stays as it is.                               *)
Frozen ==
  /\ kind # "deadline" => UNCHANGED deadline
  /\ kind # "closable" => UNCHANGED <<closed, closes, failed>>
  /\ kind \notin {"overlapped", "console"} => UNCHANGED req
  /\ kind \notin {"overlapped", "console"} => UNCHANGED event
  /\ kind # "overlapped" => UNCHANGED isFile
  /\ kind # "console" => UNCHANGED noise
  /\ kind \notin {"closable", "console"} => UNCHANGED halves

(* The methods are those of the direction in use, and Close; where the       *)
(* directions meet, a cancel of the other one as well.  A read takes at most *)
(* the one byte that is there; a write is empty or longer than the room, but *)
(* to a file, where that is an error, of one byte.                           *)
Called ==
  {IF use = "read" THEN ResetReader ELSE ResetWriter}
    \cup (CASE kind = "closable"   -> {CancelReads, CancelWrites, Reset, C!Close}
            [] kind = "overlapped" -> {CancelReads, CancelWrites, O!Close}
            [] OTHER -> {IF use = "read" THEN CancelReads ELSE CancelWrites,
                         D!Close, K!Close})

Longest(c) == IF c \in Readers \/ isFile THEN 1 ELSE MaxLen

Bounds ==
  /\ \A x \in Cancelers : job[x] = <<>> => job'[x] \in Called \cup {<<>>}
  /\ \A c \in Callers : len'[c] \in {0, Longest(c)}
  /\ \A c \in Unused : pc'[c] = "idle"
  /\ use = "read"  => space' = space
  /\ use = "write" => avail' = avail
  /\ UNCHANGED kept

(* One caller and one canceler are in use: fairness to all is fairness to it. *)
Operate ==
  /\ \E c \in Callers :
       \/ kind = "deadline"   /\ D!Operate(c)
       \/ kind = "closable"   /\ C!Operate(c)
       \/ kind = "overlapped" /\ O!Operate(c)
       \/ kind = "console"    /\ K!Operate(c)
  /\ Frozen /\ UNCHANGED kept

Watch ==
  /\ \E c \in Callers :
       \/ kind = "deadline"   /\ D!Watch(c)
       \/ kind = "closable"   /\ C!Watch(c)
       \/ kind = "overlapped" /\ O!Watch(c)
       \/ kind = "console"    /\ K!Watch(c)
  /\ Frozen /\ UNCHANGED kept

Manage ==
  /\ \E x \in Cancelers :
       \/ kind = "deadline"   /\ D!Manage(x)
       \/ kind = "closable"   /\ C!Manage(x)
       \/ kind = "overlapped" /\ O!Manage(x)
       \/ kind = "console"    /\ K!Manage(x)
  /\ Frozen /\ UNCHANGED kept

MCNext ==
  /\ \/ kind = "deadline"   /\ D!Next
     \/ kind = "closable"   /\ C!Next
     \/ kind = "overlapped" /\ O!Next
     \/ kind = "console"    /\ K!Next
  /\ Frozen /\ Bounds

MCSpec ==
  /\ MCInit /\ [][MCNext]_mcVars
  /\ WF_mcVars(Operate) /\ WF_mcVars(Watch) /\ WF_mcVars(Manage)

InUse == CHOOSE c \in Callers : c \notin Unused

-----------------------------------------------------------------------------
TypeOK ==
  /\ kind = "deadline"   => D!TypeOK
  /\ kind = "closable"   => C!TypeOK
  /\ kind = "overlapped" => O!TypeOK
  /\ kind = "console"    => K!TypeOK

ClosedOnce == kind = "closable" => C!ClosedOnce

(***************************************************************************)
(* The kernel holds the buffer of no operation that has returned: on the   *)
(* overlapped backend unless Close closed the event the operation waits    *)
(* for (ctxio_windows_overlapped.go:211-218), and on the console always,   *)
(* where overlappedRead waits for its request to end                       *)
(* (ctxio_windows_console.go:408).                                         *)
(***************************************************************************)
RequestsOwned ==
  /\ kind = "overlapped" => O!RequestsOwned
  /\ kind = "console" => \A c \in Callers : Pending(c) => pc[c] = "io"

(***************************************************************************)
(* The promise of ContextIO (ctxio.go:21-72), kept by all four: the count  *)
(* that is returned is the count that was moved, except that a canceled or *)
(* failed operation may report 0, and ErrCanceled has a reason.            *)
(***************************************************************************)
PromiseOfAll == INSTANCE ContextIO WITH
  phase <- [c \in Callers |-> CASE pc[c] = "idle" -> "idle"
                                [] pc[c] = "join" -> "done"
                                [] OTHER -> "busy"],
  Forgets <- [c \in Callers |-> Forgotten],
  Steps <- 0..MaxLen

AllImplementContextIO == PromiseOfAll!ContextSpec

(***************************************************************************)
(* No data is lost (README.md:34-36): a read that returns ErrCanceled has  *)
(* taken nothing from the object, and an operation that ends in any other  *)
(* way reports what it moved.  The exceptions are two of the overlapped    *)
(* backend.  A read on a named pipe that was woken drops what its request  *)
(* was served before the abort (ctxio_windows_overlapped.go:211-218).  And *)
(* a wait that fails because Close closed its event returns 0, whatever    *)
(* the request has moved by then (lines 220-221): the bytes of a write,    *)
(* also those on a disk, and those of a read on a named pipe.  How much a  *)
(* canceled write has moved is not spoken of.                              *)
(***************************************************************************)
Drains == kind = "overlapped" /\ ~ isFile

WaitFailed(c) ==
  /\ kind = "overlapped" /\ (isFile => c \in Writers)
  /\ out[c].err = "error" /\ event[Dir(c)] = "closed"

NothingLost ==
  \A c \in Callers : pc[c] = "join" =>
    /\ out[c].err = "canceled" /\ c \in Readers => moved[c] = 0 \/ Drains
    /\ out[c].err # "canceled" => out[c].n = moved[c] \/ WaitFailed(c)

(***************************************************************************)
(* A deadline in the past that finds the operation inside d.Read ends it,  *)
(* and with the flag set it does so without showing the timeout            *)
(* (ctxio_deadline.go:79-88).                                              *)
(***************************************************************************)
DeadlineEndsReads ==
  (/\ kind = "deadline" /\ use = "read" /\ pc[InUse] = "io"
   /\ canceled["read"] /\ deadline["read"] = "past")
    ~> (pc[InUse] = "join" /\ out[InUse].err # "error") \/ ~ rwOpen

(***************************************************************************)
(* An operation whose context is done returns (ctxio.go:31 and 36) unless  *)
(* the object is closed, or its cancel came too early and is lost: the     *)
(* deadline was cleared, the console was about to read; and a write on the *)
(* console is not interrupted.  The closable backend has no exception, and *)
(* there CancelReads and CancelWrites end operations as surely: the close  *)
(* that follows the flag cannot be undone (ctxio_closable.go:140-153).     *)
(***************************************************************************)
CancelLost(c) ==
  /\ watch[c] = "off"
  /\ \/ kind = "deadline" /\ pc[c] = "io" /\ deadline[Dir(c)] = "none"
     \/ kind = "console" /\ pc[c] = "io"
        /\ (c \in Readers => Pending(c) /\ avail = 0)

CanceledEnds ==
  (/\ pc[InUse] # "idle"
   /\ ctx[InUse] = "done" \/ (kind = "closable" /\ canceled[use]))
    ~> (\/ pc[InUse] = "idle"
        \/ kind # "closable" /\ ~ rwOpen
        \/ CancelLost(InUse))
=============================================================================
