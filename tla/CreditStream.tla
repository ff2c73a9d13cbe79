---------------------------- MODULE CreditStream ----------------------------
(***************************************************************************)
(* What the FPGA promises the host about its DATA stream, with unbounded   *)
(* counters and no clock: packets are sent one at a time, numbered from 0  *)
(* since START, and never beyond the absolute credit granted since START.  *)
(***************************************************************************)
EXTENDS Naturals

VARIABLES
  enabled,      \* between START and STOP
  granted,      \* absolute credit
  started,      \* packets begun since START
  done          \* packets completed since START

streamVars == <<enabled, granted, started, done>>

Init == enabled = FALSE /\ granted = 0 /\ started = 0 /\ done = 0

\* START opens a new session: numbering and credit begin at 0.
Restart == enabled' = TRUE /\ granted' = 0 /\ started' = 0 /\ done' = 0

\* Within a session the credit only grows, and at most one packet is begun or
\* completed per step; one is begun only if it is within the credit that the
\* step finds and its predecessor is complete.
Continue ==
  /\ enabled' \in BOOLEAN
  /\ enabled' => enabled
  /\ granted' \in Nat /\ granted' >= granted
  /\ \/ UNCHANGED <<started, done>>
     \/ /\ enabled /\ started < granted /\ done = started
        /\ started' = started + 1 /\ UNCHANGED done
     \/ /\ done < started
        /\ done' = done + 1 /\ UNCHANGED started

Next == Restart \/ Continue

Spec == Init /\ [][Next]_streamVars
=============================================================================
