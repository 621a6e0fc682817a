----------------------------- MODULE CancelSignal -----------------------------
(***************************************************************************)
(* The cancel signal of the epoll, kqueue and select backends: for each    *)
(* direction of the I/O object an atomic flag and a pipe.  CancelReads     *)
(* sets the flag with a compare-and-swap and, when it was the one to set   *)
(* it, writes one byte to the pipe; ResetReader swaps the flag back and,   *)
(* when it found it set, reads one byte.  The wait of a blocked operation  *)
(* polls the pipe and never reads it.  Neither method takes a lock, so a   *)
(* goroutine may stop between the atomic operation and the system call,    *)
(* and any other goroutine may run there.                                  *)
(*                                                                         *)
(* Lines cited in comments are those of ctxio_linux.go; ctxio_bsd.go and   *)
(* ctxio_select.go have the same code.                                     *)
(***************************************************************************)
EXTENDS Naturals, FiniteSets

CONSTANTS Dirs,     \* the directions: the read half and the write half
          Procs,    \* the goroutines that may cancel or reset
          Capacity  \* the bytes the kernel buffers in a pipe

(***************************************************************************)
(* 64 KiB of pipe buffer against one byte per goroutine.                   *)
(***************************************************************************)
ASSUME SignalAssumption ==
  /\ IsFiniteSet(Procs)
  /\ Capacity \in Nat
  /\ Cardinality(Procs) < Capacity

VARIABLES canceled,   \* canceled[d]: readCanceled, writeCanceled
          pipe,       \* pipe[d]: unread bytes in the cancel pipe
          signaling,  \* signaling[d]: goroutines past the CAS, before the write
          draining,   \* draining[d]: goroutines past the Swap, before the read
          ends        \* ends[d]: the pipe's file descriptors that are open

signalVars == <<canceled, pipe, signaling, draining, ends>>

BothEnds == {"reader", "writer"}

SignalInit ==
  /\ canceled  = [d \in Dirs |-> FALSE]
  /\ pipe      = [d \in Dirs |-> 0]
  /\ signaling = [d \in Dirs |-> {}]
  /\ draining  = [d \in Dirs |-> {}]
  /\ ends      = [d \in Dirs |-> BothEnds]

-----------------------------------------------------------------------------
(* A goroutine between its atomic operation and its system call is nowhere   *)
(* else.                                                                     *)
Free(p) == \A d \in Dirs : p \notin signaling[d] \cup draining[d]

(* Mutant: Store(true) instead of the CompareAndSwap, and always a byte.     *)
StoreAndSignal(p, d) ==
  /\ Free(p)
  /\ canceled' = [canceled EXCEPT ![d] = TRUE]
  /\ signaling' = [signaling EXCEPT ![d] = @ \cup {p}]
  /\ UNCHANGED <<pipe, draining, ends>>

(* CancelReads, CancelWrites: CompareAndSwap(false, true).                   *)
CompareAndSwap(p, d) ==
  /\ Free(p)
  /\ canceled' = [canceled EXCEPT ![d] = TRUE]
  /\ signaling' = IF canceled[d] THEN signaling
                  ELSE [signaling EXCEPT ![d] = @ \cup {p}]
  /\ UNCHANGED <<pipe, draining, ends>>

(* Mutant: the byte goes to the pipe of the other direction.                 *)
SignalOtherPipe(p, d) ==
  /\ p \in signaling[d]
  /\ \E o \in Dirs \ {d} :
       /\ pipe[o] < Capacity
       /\ pipe' = [pipe EXCEPT ![o] = @ + 1]
  /\ signaling' = [signaling EXCEPT ![d] = @ \ {p}]
  /\ UNCHANGED <<canceled, draining, ends>>

(* The write that follows; it fails on a closed pipe and its error is        *)
(* dropped.                                                                  *)
WriteSignal(p, d) ==
  /\ p \in signaling[d]
  /\ \/ /\ ends[d] = BothEnds
        /\ pipe[d] < Capacity
        /\ pipe' = [pipe EXCEPT ![d] = @ + 1]
     \/ /\ ends[d] # BothEnds
        /\ UNCHANGED pipe
  /\ signaling' = [signaling EXCEPT ![d] = @ \ {p}]
  /\ UNCHANGED <<canceled, draining, ends>>

(* Mutants: the reset leaves the byte in the pipe, or reads one in any case. *)
SwapOnly(p, d) ==
  /\ Free(p)
  /\ canceled' = [canceled EXCEPT ![d] = FALSE]
  /\ UNCHANGED <<pipe, signaling, draining, ends>>

SwapAlwaysDrains(p, d) ==
  /\ Free(p)
  /\ canceled' = [canceled EXCEPT ![d] = FALSE]
  /\ draining' = [draining EXCEPT ![d] = @ \cup {p}]
  /\ UNCHANGED <<pipe, signaling, ends>>

(* ResetReader, ResetWriter: Swap(false).                                    *)
Swap(p, d) ==
  /\ Free(p)
  /\ canceled' = [canceled EXCEPT ![d] = FALSE]
  /\ draining' = IF canceled[d] THEN [draining EXCEPT ![d] = @ \cup {p}]
                 ELSE draining
  /\ UNCHANGED <<pipe, signaling, ends>>

(* Mutant: the reset counts on a byte that is not there yet.                 *)
ReadUnwritten(p, d) ==
  /\ p \in draining[d]
  /\ pipe' = [pipe EXCEPT ![d] = @ - 1]
  /\ draining' = [draining EXCEPT ![d] = @ \ {p}]
  /\ UNCHANGED <<canceled, signaling, ends>>

(* The read that follows blocks until there is a byte, the end of the file   *)
(* or a closed descriptor.                                                   *)
ReadSignal(p, d) ==
  /\ p \in draining[d]
  /\ \/ /\ "reader" \in ends[d]
        /\ pipe[d] > 0
        /\ pipe' = [pipe EXCEPT ![d] = @ - 1]
     \/ /\ \/ "reader" \notin ends[d]
           \/ "writer" \notin ends[d] /\ pipe[d] = 0
        /\ UNCHANGED pipe
  /\ draining' = [draining EXCEPT ![d] = @ \ {p}]
  /\ UNCHANGED <<canceled, signaling, ends>>

(* Close of one end, by the Close method of the backend.                     *)
CloseEnd(d, e) ==
  /\ ends' = [ends EXCEPT ![d] = @ \ {e}]
  /\ UNCHANGED <<canceled, pipe, signaling, draining>>

(* The event a wait on the pipe reports: a byte, or the hang-up of the       *)
(* writer.                                                                   *)
SignalReady(d) ==
  /\ "reader" \in ends[d]
  /\ pipe[d] > 0 \/ "writer" \notin ends[d]

SignalNext ==
  \E d \in Dirs :
    \/ \E p \in Procs : \/ CompareAndSwap(p, d)
                        \/ WriteSignal(p, d)
                        \/ Swap(p, d)
                        \/ ReadSignal(p, d)
    \/ \E e \in BothEnds : CloseEnd(d, e)

SignalSpec == SignalInit /\ [][SignalNext]_signalVars

-----------------------------------------------------------------------------
SignalTypeOK ==
  /\ canceled  \in [Dirs -> BOOLEAN]
  /\ pipe      \in [Dirs -> Nat]
  /\ signaling \in [Dirs -> SUBSET Procs]
  /\ draining  \in [Dirs -> SUBSET Procs]
  /\ ends      \in [Dirs -> SUBSET BothEnds]

Flag(d) == IF canceled[d] THEN 1 ELSE 0

(***************************************************************************)
(* Bytes written and bytes read balance: as long as the pipe is open, the  *)
(* bytes in the pipe and those about to be written are exactly one for a   *)
(* set flag plus one for every reset that is about to read its byte        *)
(* (CancelReads lines 287-291, ResetReader lines 304-308).                 *)
(***************************************************************************)
Conservation ==
  \A d \in Dirs :
    ends[d] = BothEnds =>
      pipe[d] + Cardinality(signaling[d])
        = Flag(d) + Cardinality(draining[d])

(***************************************************************************)
(* With no method half done, the flag and the pipe agree: a set flag has   *)
(* its one byte, so a wait cannot miss it, and after a reset no byte is    *)
(* left to end a later operation.                                          *)
(***************************************************************************)
FlagMatchesPipe ==
  \A d \in Dirs :
    ends[d] = BothEnds /\ signaling[d] = {} /\ draining[d] = {}
      => pipe[d] = Flag(d)

(***************************************************************************)
(* Neither system call can block for good: the write of a cancel finds     *)
(* room, and the read of a reset finds a byte or a cancel that is about to *)
(* write one.                                                              *)
(***************************************************************************)
SignalNeverStuck ==
  \A d \in Dirs :
    ends[d] = BothEnds =>
      /\ signaling[d] # {} => pipe[d] < Capacity
      /\ draining[d] # {} => pipe[d] > 0 \/ signaling[d] # {}

=============================================================================
