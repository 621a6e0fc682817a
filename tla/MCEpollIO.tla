----------------------------- MODULE MCEpollIO -----------------------------
(* One object with an epoll instance per direction, a canceler, and in each  *)
(* behaviour either the reader or the writer: both are in one run, and the   *)
(* states are the sum of the two and not the product.  A read is one rw.Read *)
(* whatever its length, so that one byte is enough for it; a write is empty  *)
(* or has a full chunk and a short one.                                      *)
EXTENDS EpollIO

VARIABLE use   \* the direction that is in use in this behaviour

mcVars == <<vars, use>>

Unused == {c \in Callers : Dir(c) # use}

Longest(c) == IF c \in Readers THEN 1 ELSE MaxLen

MCInit == Init /\ use \in Directions

MCNext ==
  /\ Next
  /\ \A c \in Unused : pc'[c] = "idle"
  /\ use = "read"  => space' = space
  /\ use = "write" => avail' = avail
  /\ \A c \in Callers : len'[c] \in {0, Longest(c)}
  /\ UNCHANGED use

MCSpec == MCInit /\ [][MCNext]_mcVars /\ Fairness
=============================================================================
