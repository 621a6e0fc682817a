------------------------------- MODULE CopyPair -------------------------------
(***************************************************************************)
(* The two goroutines of an errgroup that Connect and ConnectAndClose      *)
(* start: each runs io.Copy in one direction between the objects a and b.  *)
(* io.Copy reads a chunk, writes it, and stops at the end of the source or *)
(* at an error; the errgroup keeps the first error and cancels the group's *)
(* context with it.  How a blocked read or write is interrupted is left to *)
(* the module that extends this one.                                       *)
(***************************************************************************)
EXTENDS Naturals

CONSTANTS MaxChunk,  \* bytes one read returns at most
          MaxBytes   \* bound on the bytes each source holds

ASSUME CopyAssumption == MaxChunk \in Nat /\ MaxBytes \in Nat

VARIABLES cpc,     \* cpc[i]: where copy i is
          chunk,   \* chunk[i]: bytes read and not yet written
          err,     \* err[i]: the error io.Copy stopped with
          taken,   \* taken[i]: bytes consumed from the source
          given,   \* given[i]: bytes that reached the destination
          first,   \* the error the errgroup keeps
          parent,  \* the context of the caller: "live" or "done"
          group    \* the context of the errgroup

copyVars == <<cpc, chunk, err, taken, given, first, parent, group>>

Sides  == {"a", "b"}
Copies == {"a->b", "b->a"}

Src(i) == IF i = "a->b" THEN "a" ELSE "b"
Dst(i) == IF i = "a->b" THEN "b" ELSE "a"

CopyInit ==
  /\ cpc   = [i \in Copies |-> "callRead"]
  /\ chunk = [i \in Copies |-> 0]
  /\ err   = [i \in Copies |-> "nil"]
  /\ taken = [i \in Copies |-> 0]
  /\ given = [i \in Copies |-> 0]
  /\ first = "nil"
  /\ parent = "live"
  /\ group = "live"

Fails(i, e) ==
  /\ cpc' = [cpc EXCEPT ![i] = "failed"]
  /\ err' = [err EXCEPT ![i] = e]

-----------------------------------------------------------------------------
(* src.Read is entered, and returns data, io.EOF or an error of its own.     *)
EnterRead(i) ==
  /\ cpc[i] = "callRead"
  /\ cpc' = [cpc EXCEPT ![i] = "reading"]
  /\ UNCHANGED <<chunk, err, taken, given, first, parent, group>>

ReadData(i) ==
  /\ cpc[i] = "reading"
  /\ \E k \in 1..MaxChunk :
       /\ taken[i] + k <= MaxBytes
       /\ taken' = [taken EXCEPT ![i] = @ + k]
       /\ chunk' = [chunk EXCEPT ![i] = k]
  /\ cpc' = [cpc EXCEPT ![i] = "callWrite"]
  /\ UNCHANGED <<err, given, first, parent, group>>

ReadEOF(i) ==
  /\ cpc[i] = "reading"
  /\ cpc' = [cpc EXCEPT ![i] = "ended"]
  /\ UNCHANGED <<chunk, err, taken, given, first, parent, group>>

ReadFault(i) ==
  /\ cpc[i] = "reading"
  /\ Fails(i, "fault")
  /\ UNCHANGED <<chunk, taken, given, first, parent, group>>

(* dst.Write is entered, and returns after all or, with an error, after some *)
(* of the chunk.                                                             *)
EnterWrite(i) ==
  /\ cpc[i] = "callWrite"
  /\ cpc' = [cpc EXCEPT ![i] = "writing"]
  /\ UNCHANGED <<chunk, err, taken, given, first, parent, group>>

WriteData(i) ==
  /\ cpc[i] = "writing"
  /\ given' = [given EXCEPT ![i] = @ + chunk[i]]
  /\ chunk' = [chunk EXCEPT ![i] = 0]
  /\ cpc' = [cpc EXCEPT ![i] = "callRead"]
  /\ UNCHANGED <<err, taken, first, parent, group>>

WriteFails(i, e) ==
  /\ cpc[i] = "writing"
  /\ \E k \in 0..chunk[i] :
       /\ k < chunk[i]
       /\ given' = [given EXCEPT ![i] = @ + k]
       /\ chunk' = [chunk EXCEPT ![i] = @ - k]
  /\ Fails(i, e)
  /\ UNCHANGED <<taken, first, parent, group>>

(* Mutant: the last error is kept.                                           *)
ReportLast(i, e) ==
  /\ cpc[i] \in {"ended", "failed"}
  /\ cpc' = [cpc EXCEPT ![i] = "done"]
  /\ IF e # "nil" THEN first' = e /\ group' = "done"
                   ELSE UNCHANGED <<first, group>>
  /\ UNCHANGED <<chunk, err, taken, given, parent>>

(* The function given to eg.Go returns e; errOnce keeps the first error and  *)
(* cancels the group's context.                                              *)
Report(i, e) ==
  /\ cpc[i] \in {"ended", "failed"}
  /\ cpc' = [cpc EXCEPT ![i] = "done"]
  /\ IF e # "nil" /\ first = "nil"
     THEN first' = e /\ group' = "done"
     ELSE UNCHANGED <<first, group>>
  /\ UNCHANGED <<chunk, err, taken, given, parent>>

CopiesDone == \A i \in Copies : cpc[i] = "done"

(* The caller's context expires, and the group's with it.                    *)
Expire ==
  /\ parent = "live"
  /\ parent' = "done"
  /\ group' = "done"
  /\ UNCHANGED <<cpc, chunk, err, taken, given, first>>

(* What the objects may do; nothing of it has to happen.                     *)
Object(i) == ReadData(i) \/ ReadEOF(i) \/ ReadFault(i)
               \/ WriteData(i) \/ WriteFails(i, "fault")

CopyTypeOK ==
  /\ cpc \in [Copies -> {"callRead", "reading", "callWrite", "writing",
                         "ended", "failed", "done"}]
  /\ chunk \in [Copies -> 0..MaxChunk]
  /\ err   \in [Copies -> {"nil", "fault", "canceled", "closed"}]
  /\ taken \in [Copies -> 0..MaxBytes]
  /\ given \in [Copies -> 0..MaxBytes]
  /\ first \in {"nil", "fault", "canceled", "closed", "context"}
  /\ parent \in {"live", "done"}
  /\ group \in {"live", "done"}

=============================================================================
