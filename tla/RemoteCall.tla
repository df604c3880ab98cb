------------------------------ MODULE RemoteCall ------------------------------
(***************************************************************************)
(* What the CC3000 host driver promises to the sketch: a call is carried   *)
(* out once by the chip and comes back with its own answer, or is refused  *)
(* without having reached the chip.  Calls do not overlap.                 *)
(***************************************************************************)
EXTENDS Naturals

CONSTANTS Tags,      \* what tells one call from another
          Nobody     \* no call, no answer

VARIABLES
  asked,     \* the call in progress
  served,    \* how often the chip has carried it out
  answer     \* whose answer the caller has been given

callVars == <<asked, served, answer>>

Init == asked = Nobody /\ served = 0 /\ answer = Nobody

Ask == /\ asked = Nobody
       /\ \E t \in Tags : asked' = t
       /\ served' = 0 /\ answer' = Nobody

Serve == /\ asked # Nobody /\ served = 0
         /\ served' = 1
         /\ UNCHANGED <<asked, answer>>

Answer == /\ served = 1 /\ answer = Nobody
          /\ answer' = asked
          /\ UNCHANGED <<asked, served>>

Return == /\ asked # Nobody
          /\ \/ answer = asked
             \/ served = 0
          /\ asked' = Nobody /\ served' = 0 /\ answer' = Nobody

Next == Ask \/ Serve \/ Answer \/ Return

Spec == Init /\ [][Next]_callVars
===============================================================================
