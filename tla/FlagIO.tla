-------------------------------- MODULE FlagIO --------------------------------
(***************************************************************************)
(* The backends without a wait of their own before the call (deadline,     *)
(* closable and those of Windows): an atomic flag per direction, which a   *)
(* cancel stores before it does something to the call in progress, and     *)
(* which a reset stores before it undoes that.  What follows the store is  *)
(* the backend's; an operation may find itself between the two.            *)
(*                                                                         *)
(* Lines cited are those of ctxio_windows_overlapped.go; the other files   *)
(* have the same code.                                                     *)
(***************************************************************************)
EXTENDS Operation

VARIABLE canceled  \* canceled[d]: readCanceled, writeCanceled

FlagInit == canceled = [d \in Directions |-> FALSE]

-----------------------------------------------------------------------------
(* CancelReads, CancelWrites: Store(true), with what is left to do.          *)
CancelStore(x, d, rest) ==
  /\ At(x, "cancel", d)
  /\ canceled' = [canceled EXCEPT ![d] = TRUE]
  /\ job' = [job EXCEPT ![x] = rest \o Tail(@)]
  /\ GiveCause(d)
  /\ UNCHANGED <<pc, ctx, watch, len, out, part, moved, streamVars>>

(* ResetReader, ResetWriter: Store(false), with what is left to do.          *)
ResetStore(x, d, rest) ==
  /\ At(x, "reset", d)
  /\ canceled' = [canceled EXCEPT ![d] = FALSE]
  /\ job' = [job EXCEPT ![x] = rest \o Tail(@)]
  /\ UNCHANGED <<opVars, streamVars>>

(* The tests of ctx.Err() and of the flag.                                   *)
Check(c) ==
  /\ pc[c] = "check"
  /\ \/ /\ \/ ctx[c] = "done"
           \/ ctx[c] = "none" /\ canceled[Dir(c)]
        /\ Settled(c, "canceled", 0)
        /\ UNCHANGED watch
     \/ /\ ctx[c] = "live" /\ canceled[Dir(c)]
        /\ pc' = [pc EXCEPT ![c] = "reset"]
        /\ UNCHANGED <<watch, out>>
     \/ /\ ctx[c] # "done" /\ ~ canceled[Dir(c)]
        /\ Proceed(c)
        /\ UNCHANGED out
  /\ UNCHANGED <<job, ctx, len, part, cause, moved, streamVars, canceled>>

(* ReadContext and WriteContext reset a canceled direction: the flag, and    *)
(* then what the backend does in ContextUndo.                                *)
ContextStore(c) ==
  /\ pc[c] = "reset"
  /\ pc' = [pc EXCEPT ![c] = "drain"]
  /\ canceled' = [canceled EXCEPT ![Dir(c)] = FALSE]
  /\ UNCHANGED <<job, ctx, watch, len, out, part, cause, moved, streamVars>>

ContextUndo(c) ==
  /\ pc[c] = "drain"
  /\ Proceed(c)
  /\ UNCHANGED <<job, ctx, len, out, part, cause, moved, streamVars, canceled>>

(* The watcher receives from ctx.Done() and calls CancelReads ...            *)
WatchStore(c) ==
  /\ watch[c] = "fired"
  /\ watch' = [watch EXCEPT ![c] = "signaling"]
  /\ canceled' = [canceled EXCEPT ![Dir(c)] = TRUE]
  /\ UNCHANGED <<job, pc, ctx, len, out, part, cause, moved, streamVars>>

(* ... which goes on with what the backend does.                             *)
WatchGoesOn(c, from, to) ==
  /\ watch[c] = from
  /\ watch' = [watch EXCEPT ![c] = to]
  /\ UNCHANGED <<job, pc, ctx, len, out, part, moved, canceled>>

=============================================================================
