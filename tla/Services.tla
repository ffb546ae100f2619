------------------------------ MODULE Services ------------------------------
(***************************************************************************)
(* The services beside bids and bookings, side by side.  They write        *)
(* different rows, and share the history: solo says that no two handlers   *)
(* of one service have overlapped, faults counts the failures of all.      *)
(*                                                                         *)
(* Together interleaves the steps of all of them; it is what the theorems  *)
(* are about.  Spec, which TLC checks, runs one service in each behaviour, *)
(* and one-time codes twice: with every code but one handler at a time,    *)
(* and with overlapping handlers but fewer codes.                          *)
(***************************************************************************)
EXTENDS OtpAuth, Drivers, Ratings, Push, Notices, Listings

CONSTANTS RaceCodes, RaceTries   \* bounds of the overlapping codes

RunCodes ==
  OtpNext /\ UNCHANGED <<driverVars, ratingVars, pushVars, noticeVars, listVars>>
RunDrivers ==
  DriversNext /\ UNCHANGED <<otpVars, ratingVars, pushVars, noticeVars, listVars>>
RunRatings ==
  RatingsNext /\ UNCHANGED <<otpVars, driverVars, pushVars, noticeVars, listVars>>
RunPush ==
  PushNext /\ UNCHANGED <<otpVars, driverVars, ratingVars, noticeVars, listVars>>
RunNotices ==
  NoticesNext /\ UNCHANGED <<otpVars, driverVars, ratingVars, pushVars, listVars>>
RunLists ==
  ListingsNext /\ UNCHANGED <<otpVars, driverVars, ratingVars, pushVars, noticeVars,
                             serverVars>>

Start ==
  /\ ServerInit
  /\ OtpInit /\ DriversInit /\ RatingsInit /\ PushInit /\ NoticesInit
  /\ ListingsInit

Step ==
  \/ RunCodes \/ RunDrivers \/ RunRatings \/ RunPush \/ RunNotices
  \/ RunLists

serviceVars ==
  <<otpVars, driverVars, ratingVars, pushVars, noticeVars, listVars, serverVars>>

Together == Start /\ [][Step]_serviceVars

-----------------------------------------------------------------------------
VARIABLE part   \* the service this behaviour runs

Parts == {"codes", "codes race", "drivers", "ratings", "push", "notices", "lists"}

Init == part \in Parts /\ Start

SerialCodes == part = "codes" /\ RunCodes /\ solo' /\ UNCHANGED part

RacingCodes ==
  /\ part = "codes race" /\ RunCodes
  /\ issued' <= RaceCodes
  /\ \A c \in Codes : otps'[c].tries <= RaceTries
  /\ UNCHANGED part

Next ==
  \/ SerialCodes \/ RacingCodes
  \/ part = "drivers" /\ RunDrivers /\ UNCHANGED part
  \/ part = "ratings" /\ RunRatings /\ UNCHANGED part
  \/ part = "push" /\ RunPush /\ UNCHANGED part
  \/ part = "notices" /\ RunNotices /\ UNCHANGED part
  \/ part = "lists" /\ RunLists /\ UNCHANGED part

vars == <<part, serviceVars>>

Spec == Init /\ [][Next]_vars

(* The rows, the handlers and the answers of every service have their      *)
(* types; the bounds on attempts and page lengths are part of them.        *)
TypeOK ==
  /\ part \in Parts /\ ServerTypeOK
  /\ OtpTypeOK /\ DriversTypeOK /\ RatingsTypeOK /\ PushTypeOK /\ NoticesTypeOK
  /\ ListingsTypeOK
=============================================================================
