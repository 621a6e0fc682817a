----------------------------- MODULE MCSelectIO -----------------------------
(* One object that is waited for with select, a canceler, and in each        *)
(* behaviour either the reader or the writer: both are in one run, and the   *)
(* states are the sum of the two and not the product.                        *)
EXTENDS SelectIO

VARIABLE use   \* the direction that is in use in this behaviour

mcVars == <<vars, use>>

Unused == {c \in Callers : Dir(c) # use}

MCInit == Init /\ use \in Directions

MCNext ==
  /\ Next
  /\ \A c \in Unused : pc'[c] = "idle"
  /\ use = "read"  => space' = space
  /\ use = "write" => avail' = avail
  /\ UNCHANGED use

MCSpec == MCInit /\ [][MCNext]_mcVars /\ Fairness
=============================================================================
