-------------------------------- MODULE Stream --------------------------------
(***************************************************************************)
(* The object a ContextIO wraps, with its peer: a duplex byte stream with  *)
(* bounded kernel buffers.  Bytes are counted, not named.  None of it is   *)
(* this repository's code; it is what the backends rely on in an *os.File  *)
(* or a connection of package net, whose Read returns bytes or an error,   *)
(* and never both.                                                         *)
(***************************************************************************)
EXTENDS Naturals

CONSTANTS BufSize,   \* bytes the kernel buffers in each direction
          LowWater   \* free bytes at which the kernel reports writability

ASSUME StreamAssumption ==
  /\ BufSize \in Nat
  /\ LowWater \in 1..BufSize

VARIABLES avail,   \* bytes in the receive buffer
          space,   \* free bytes in the send buffer
          peer,    \* "open" or "closed"
          rwOpen   \* the object is open on our side

streamVars == <<avail, space, peer, rwOpen>>

StreamInit ==
  /\ avail = 0
  /\ space = BufSize
  /\ peer = "open"
  /\ rwOpen = TRUE

Least(a, b) == IF a <= b THEN a ELSE b

Readable == avail > 0 \/ peer = "closed"
Writable == space >= LowWater \/ peer = "closed"

(* The peer sends a byte, consumes one of ours, or goes away.                *)
Arrive ==
  /\ peer = "open" /\ avail < BufSize
  /\ avail' = avail + 1
  /\ UNCHANGED <<space, peer, rwOpen>>

Leave ==
  /\ peer = "open" /\ space < BufSize
  /\ space' = space + 1
  /\ UNCHANGED <<avail, peer, rwOpen>>

HangUp ==
  /\ peer = "open"
  /\ peer' = "closed"
  /\ UNCHANGED <<avail, space, rwOpen>>

Peer == Arrive \/ Leave \/ HangUp

CloseStream ==
  /\ rwOpen' = FALSE
  /\ UNCHANGED <<avail, space, peer>>

StreamTypeOK ==
  /\ avail \in 0..BufSize
  /\ space \in 0..BufSize
  /\ peer \in {"open", "closed"}
  /\ rwOpen \in BOOLEAN

=============================================================================
