------------------------------- MODULE Server -------------------------------
(***************************************************************************)
(* What the services of OtpAuth, Drivers, Ratings, Notices, Push and       *)
(* Listings have in common: the server runs several request handlers at a  *)
(* time, each one statement of the database after the other, and any       *)
(* statement may fail.  A handler whose statement fails stops, and the     *)
(* statements it has completed stay; a crash of the process is the same    *)
(* failure of every handler that runs.                                     *)
(*                                                                         *)
(* solo is a history variable: no two handlers have overlapped so far.     *)
(* Guarantees that a second handler can break are stated under it.         *)
(***************************************************************************)
EXTENDS Naturals, FiniteSets

CONSTANTS
  Workers,     \* handlers that may run at the same time
  MaxFaults    \* bound: statements that fail

ASSUME ServerAssumption == IsFiniteSet(Workers) /\ MaxFaults \in Nat

VARIABLES solo, faults

serverVars == <<solo, faults>>

(* job maps each worker to a record whose field pc is its next statement.  *)
Busy(job) == {w \in Workers : job[w].pc # "idle"}
Enter(job) == solo' = (solo /\ Busy(job) = {}) /\ UNCHANGED faults
Fault == faults < MaxFaults /\ faults' = faults + 1 /\ UNCHANGED solo

ServerInit == solo = TRUE /\ faults = 0
ServerTypeOK == solo \in BOOLEAN /\ faults \in 0 .. MaxFaults
=============================================================================
