------------------------------ MODULE OtpAuth -------------------------------
(***************************************************************************)
(* One-time codes: registration and login by AuthService, and the phone    *)
(* change of UsersService, which has its own copies of the same helpers.   *)
(* The rows are otp_tokens and users; the hourly cap is a Redis sorted set.*)
(*                                                                         *)
(* A step is one statement with the tests that precede the next one.  A    *)
(* code is a number in the order of expires_at, and a presented code is    *)
(* right or wrong.  A definition named Mut... is a defective variant of    *)
(* the one after it that no action uses.                                   *)
(***************************************************************************)
EXTENDS Server

CONSTANTS
  Phones, NoPhone,        \* phone numbers, and none
  Users, NoUser,          \* ids of user rows, and none
  FirstUser, FirstPhone,  \* who is registered when the model starts
  MaxAttempts,            \* OTP_MAX_ATTEMPTS
  HourlyCap,              \* HOURLY_CAP
  MaxCodes,               \* bound: codes issued, the first user's included
  MaxTries                \* bound: guesses at one code

ASSUME OtpAssumption ==
  /\ NoPhone \notin Phones /\ NoUser \notin Users
  /\ FirstUser \in Users /\ FirstPhone \in Phones
  /\ MaxAttempts \in Nat \ {0} /\ HourlyCap \in Nat \ {0} /\ MaxTries \in Nat
  /\ MaxCodes \in Nat \ {0}

VARIABLES
  otps,      \* codes issued: their otp_tokens row, and what came of them
  issued,    \* how many
  users,     \* the phone of each user, and whether it changed in 15 days
  window,    \* entries of the hour in each phone's sorted set
  otpJob     \* what each handler holds between two statements

otpVars == <<otps, issued, users, window, otpJob>>
rows    == <<otps, issued, users, window>>

-----------------------------------------------------------------------------
(* row: the otp_tokens row exists; age: within OTP_COOLDOWN_SECONDS of its *)
(* issue, within OTP_TTL_SECONDS, or later; tries, wins and bought count   *)
(* the guesses, the right ones, and the sessions or phone changes given.   *)
Codes == 1 .. MaxCodes

Otp == [phone : Phones \union {NoPhone}, row : BOOLEAN,
        attempts : 0 .. MaxAttempts, age : {"fresh", "live", "expired"},
        tries : Nat, wins : Nat, bought : Nat]

User == [phone : Phones \union {NoPhone}, moved : BOOLEAN]

Unissued == [phone |-> NoPhone, row |-> FALSE, attempts |-> 0,
             age |-> "expired", tries |-> 0, wins |-> 0, bought |-> 0]

OtpPcs == {"idle", "cap_read", "cap_add", "request_user", "taken_read",
           "otp_read", "otp_delete", "otp_insert", "code_read",
           "attempt_save", "code_delete", "account_read", "account_insert",
           "token_insert", "phone_update"}

(* code and attempts are of the otp_tokens row the handler loaded.         *)
OtpJob == [pc : OtpPcs, kind : {"register", "login", "change"},
           verify : BOOLEAN, phone : Phones, user : Users \union {NoUser},
           code : 0 .. MaxCodes, attempts : 0 .. MaxAttempts]

OtpIdle == [pc |-> "idle", kind |-> "login", verify |-> FALSE,
            phone |-> FirstPhone, user |-> NoUser, code |-> 0, attempts |-> 0]

OtpAt(w, pc)   == otpJob[w].pc = pc
OtpFinish(w)   == otpJob' = [otpJob EXCEPT ![w] = OtpIdle]
OtpGoto(w, pc) == otpJob' = [otpJob EXCEPT ![w].pc = pc]

OtpEnter(w, pc, kind, verify, p, u) ==
  /\ OtpAt(w, "idle")
  /\ otpJob' = [otpJob EXCEPT ![w] =
       [OtpIdle EXCEPT !.pc = pc, !.kind = kind, !.verify = verify,
                       !.phone = p, !.user = u]]
  /\ Enter(otpJob)
  /\ UNCHANGED rows

Holders(p)    == {u \in Users : users[u].phone = p}
Registered(p) == Holders(p) # {}

(* The row the queries for an unexpired code return, latest expiry first.  *)
Unexpired(p) ==
  {c \in Codes : otps[c].phone = p /\ otps[c].row /\ otps[c].age # "expired"}
Latest(p) == CHOOSE c \in Unexpired(p) : \A d \in Unexpired(p) : d <= c

-----------------------------------------------------------------------------
(* Asking for a code.  Registration and login count the call before they   *)
(* look at the phone and answer the same either way; a phone change looks  *)
(* at the account and the phone first.                                     *)

MutUnderCap(p) == window[p] <= HourlyCap
UnderCap(p) == window[p] < HourlyCap

requestOtp(w, kind, p) ==
  /\ UnderCap(p)
  /\ OtpEnter(w, "cap_add", kind, FALSE, p, NoUser)

requestPhoneChangeOtp(w, u, p) ==
  /\ users[u].phone \notin {NoPhone, p} /\ ~users[u].moved
  /\ OtpEnter(w, "taken_read", "change", FALSE, p, u)

MutTakenRead(w) ==
  /\ OtpAt(w, "taken_read")
  /\ OtpGoto(w, IF otpJob[w].verify THEN "code_read" ELSE "cap_read")
  /\ UNCHANGED <<rows, serverVars>>

TakenRead(w) ==
  /\ OtpAt(w, "taken_read")
  /\ IF Registered(otpJob[w].phone) THEN OtpFinish(w)
     ELSE OtpGoto(w, IF otpJob[w].verify THEN "code_read" ELSE "cap_read")
  /\ UNCHANGED <<rows, serverVars>>

CapRead(w) ==
  /\ OtpAt(w, "cap_read")
  /\ IF UnderCap(otpJob[w].phone) THEN OtpGoto(w, "cap_add") ELSE OtpFinish(w)
  /\ UNCHANGED <<rows, serverVars>>

CapAdd(w) ==
  /\ OtpAt(w, "cap_add")
  /\ window' = [window EXCEPT ![otpJob[w].phone] = @ + 1]
  /\ OtpGoto(w, IF otpJob[w].kind = "change" THEN "otp_read" ELSE "request_user")
  /\ UNCHANGED <<otps, issued, users, serverVars>>

RequestUser(w) ==
  /\ OtpAt(w, "request_user")
  /\ IF Registered(otpJob[w].phone) <=> otpJob[w].kind = "register"
     THEN OtpFinish(w)
     ELSE OtpGoto(w, "otp_read")
  /\ UNCHANGED <<rows, serverVars>>

-----------------------------------------------------------------------------
(* sendOtp: refuse within the cooldown of the last code, delete the rows   *)
(* of the phone, insert the new one.                                       *)

OtpRead(w) ==
  /\ OtpAt(w, "otp_read")
  /\ LET p == otpJob[w].phone IN
       IF Unexpired(p) # {} /\ otps[Latest(p)].age = "fresh"
       THEN OtpFinish(w)
       ELSE OtpGoto(w, "otp_delete")
  /\ UNCHANGED <<rows, serverVars>>

MutOtpDelete(w) ==
  /\ OtpAt(w, "otp_delete")
  /\ otps' = [c \in Codes |->
       IF otps[c].phone = otpJob[w].phone /\ otps[c].age = "expired"
       THEN [otps[c] EXCEPT !.row = FALSE] ELSE otps[c]]
  /\ OtpGoto(w, "otp_insert")
  /\ UNCHANGED <<issued, users, window, serverVars>>

OtpDelete(w) ==
  /\ OtpAt(w, "otp_delete")
  /\ otps' = [c \in Codes |->
       IF otps[c].phone = otpJob[w].phone
       THEN [otps[c] EXCEPT !.row = FALSE] ELSE otps[c]]
  /\ OtpGoto(w, "otp_insert")
  /\ UNCHANGED <<issued, users, window, serverVars>>

OtpInsert(w) ==
  /\ OtpAt(w, "otp_insert")
  /\ issued < MaxCodes                                          \* bound
  /\ issued' = issued + 1
  /\ otps' = [otps EXCEPT ![issued + 1] =
       [Unissued EXCEPT !.phone = otpJob[w].phone, !.row = TRUE,
                        !.age = "fresh"]]
  /\ OtpFinish(w)
  /\ UNCHANGED <<users, window, serverVars>>

-----------------------------------------------------------------------------
(* Presenting a code.  All three verifications read the row, count a wrong *)
(* guess by saving the row they read, and delete it by id on a right one.  *)

verifyRegisterOtp(w, p) ==
  ~Registered(p) /\ OtpEnter(w, "code_read", "register", TRUE, p, NoUser)

verifyLoginOtp(w, p) ==
  Registered(p) /\ OtpEnter(w, "code_read", "login", TRUE, p, NoUser)

verifyPhoneChangeOtp(w, u, p) ==
  /\ users[u].phone \notin {NoPhone, p} /\ ~users[u].moved
  /\ OtpEnter(w, "taken_read", "change", TRUE, p, u)

MutExhausted(c) == otps[c].attempts > MaxAttempts
Exhausted(c) == otps[c].attempts >= MaxAttempts

CodeRefused(w) ==
  /\ OtpAt(w, "code_read")
  /\ LET p == otpJob[w].phone IN
       Unexpired(p) # {} => Exhausted(Latest(p))
  /\ OtpFinish(w)
  /\ UNCHANGED <<rows, serverVars>>

Compare(w, right, pc) ==
  /\ OtpAt(w, "code_read")
  /\ Unexpired(otpJob[w].phone) # {}
  /\ LET c == Latest(otpJob[w].phone) IN
       /\ ~Exhausted(c)
       /\ otps[c].tries < MaxTries                              \* bound
       /\ otps' = [otps EXCEPT ![c].tries = @ + 1,
                               ![c].wins = IF right THEN @ + 1 ELSE @]
       /\ otpJob' = [otpJob EXCEPT ![w].pc = pc, ![w].code = c,
                                   ![w].attempts = otps[c].attempts]
  /\ UNCHANGED <<issued, users, window, serverVars>>

WrongCode(w) == Compare(w, FALSE, "attempt_save")
RightCode(w) == Compare(w, TRUE, "code_delete")

MutAttemptSave(w) ==
  /\ OtpAt(w, "attempt_save")
  /\ LET h == otpJob[w] IN
       otps' = [otps EXCEPT ![h.code].row = TRUE,
                            ![h.code].attempts = h.attempts + 1]
  /\ OtpGoto(w, "code_delete")
  /\ UNCHANGED <<issued, users, window, serverVars>>

(* save inserts the row again if it was deleted since it was read.         *)
AttemptSave(w) ==
  /\ OtpAt(w, "attempt_save")
  /\ LET h == otpJob[w] IN
       otps' = [otps EXCEPT ![h.code].row = TRUE,
                            ![h.code].attempts = h.attempts + 1]
  /\ OtpFinish(w)
  /\ UNCHANGED <<issued, users, window, serverVars>>

AfterCode(w) == IF otpJob[w].kind = "change" THEN "phone_update" ELSE "account_read"

MutCodeDelete(w) ==
  /\ OtpAt(w, "code_delete")
  /\ OtpGoto(w, AfterCode(w))
  /\ UNCHANGED <<rows, serverVars>>

CodeDelete(w) ==
  /\ OtpAt(w, "code_delete")
  /\ otps' = [otps EXCEPT ![otpJob[w].code].row = FALSE]
  /\ OtpGoto(w, AfterCode(w))
  /\ UNCHANGED <<issued, users, window, serverVars>>

-----------------------------------------------------------------------------
(* Registration and login both end by finding the account or making one,   *)
(* and a session; the phone change by writing the phone.                   *)

AccountRead(w) ==
  /\ OtpAt(w, "account_read")
  /\ \/ /\ ~Registered(otpJob[w].phone)
        /\ OtpGoto(w, "account_insert")
     \/ \E u \in Holders(otpJob[w].phone) :
          otpJob' = [otpJob EXCEPT ![w].pc = "token_insert", ![w].user = u]
  /\ UNCHANGED <<rows, serverVars>>

UniquePhone(p, u) == Holders(p) \subseteq {u}

AccountInsert(w) ==
  /\ OtpAt(w, "account_insert")
  /\ \/ /\ ~UniquePhone(otpJob[w].phone, NoUser)
        /\ OtpFinish(w)
        /\ UNCHANGED users
     \/ /\ UniquePhone(otpJob[w].phone, NoUser)
        /\ \E u \in Holders(NoPhone) :
             /\ users' = [users EXCEPT ![u].phone = otpJob[w].phone]
             /\ otpJob' = [otpJob EXCEPT ![w].pc = "token_insert", ![w].user = u]
  /\ UNCHANGED <<otps, issued, window, serverVars>>

Buy(w) == otps' = [otps EXCEPT ![otpJob[w].code].bought = @ + 1]

TokenInsert(w) ==
  /\ OtpAt(w, "token_insert")
  /\ Buy(w)
  /\ OtpFinish(w)
  /\ UNCHANGED <<issued, users, window, serverVars>>

PhoneUpdate(w) ==
  /\ OtpAt(w, "phone_update")
  /\ LET h == otpJob[w] IN
       IF UniquePhone(h.phone, h.user)
       THEN /\ users' = [users EXCEPT ![h.user] =
                           [phone |-> h.phone, moved |-> TRUE]]
            /\ Buy(w)
       ELSE UNCHANGED <<users, otps>>
  /\ OtpFinish(w)
  /\ UNCHANGED <<issued, window, serverVars>>

-----------------------------------------------------------------------------
(* The clock, and failing statements.  Older codes of a phone age first.   *)

OtpQuiet == \A w \in Workers : OtpAt(w, "idle")

Ages(c, from, to) ==
  /\ otps[c].age = from
  /\ \A d \in 1 .. (c - 1) : otps[d].phone = otps[c].phone => otps[d].age # from
  /\ otps' = [otps EXCEPT ![c].age = to]
  /\ UNCHANGED <<issued, users, window, otpJob, serverVars>>

CooldownEnds(c) == Ages(c, "fresh", "live")
Expires(c)      == Ages(c, "live", "expired")

WindowSlides(p) ==
  /\ window[p] > 0
  /\ window' = [window EXCEPT ![p] = @ - 1]
  /\ UNCHANGED <<otps, issued, users, otpJob, serverVars>>

FifteenDays ==
  /\ OtpQuiet
  /\ \A c \in Codes : otps[c].age = "expired"
  /\ \E u \in Users : users[u].moved
  /\ users' = [u \in Users |-> [users[u] EXCEPT !.moved = FALSE]]
  /\ window' = [p \in Phones |-> 0]
  /\ UNCHANGED <<otps, issued, otpJob, serverVars>>

OtpFails(w) ==
  /\ ~OtpAt(w, "idle")
  /\ Fault
  /\ OtpFinish(w)
  /\ UNCHANGED rows

-----------------------------------------------------------------------------
OtpInit ==
  /\ otps = [c \in Codes |-> IF c = 1
       THEN [Unissued EXCEPT !.phone = FirstPhone, !.tries = 1, !.wins = 1,
                             !.bought = 1]
       ELSE Unissued]
  /\ issued = 1
  /\ users = [u \in Users |-> [phone |-> IF u = FirstUser THEN FirstPhone
                                         ELSE NoPhone, moved |-> FALSE]]
  /\ window = [p \in Phones |-> 0]
  /\ otpJob = [w \in Workers |-> OtpIdle]

OtpStart(w) ==
  \E p \in Phones :
    \/ \E kind \in {"register", "login"} : requestOtp(w, kind, p)
    \/ verifyRegisterOtp(w, p) \/ verifyLoginOtp(w, p)
    \/ \E u \in Users :
         requestPhoneChangeOtp(w, u, p) \/ verifyPhoneChangeOtp(w, u, p)

OtpContinue(w) ==
  \/ TakenRead(w) \/ CapRead(w) \/ CapAdd(w) \/ RequestUser(w)
  \/ OtpRead(w) \/ OtpDelete(w) \/ OtpInsert(w)
  \/ CodeRefused(w) \/ WrongCode(w) \/ RightCode(w) \/ AttemptSave(w)
  \/ CodeDelete(w) \/ AccountRead(w) \/ AccountInsert(w)
  \/ TokenInsert(w) \/ PhoneUpdate(w)

Clock ==
  \/ \E c \in Codes : CooldownEnds(c) \/ Expires(c)
  \/ \E p \in Phones : WindowSlides(p)
  \/ FifteenDays

OtpNext ==
  \/ \E w \in Workers : OtpStart(w) \/ OtpContinue(w) \/ OtpFails(w)
  \/ Clock

OtpSpec == ServerInit /\ OtpInit /\ [][OtpNext]_<<otpVars, serverVars>>

-----------------------------------------------------------------------------
(* Properties.                                                             *)

(* Types of the rows and of what the handlers hold; a row never shows more *)
(* attempts than the maximum.                                              *)
OtpTypeOK ==
  /\ otps \in [Codes -> Otp]
  /\ issued \in Codes
  /\ users \in [Users -> User]
  /\ window \in [Phones -> Nat]
  /\ otpJob \in [Workers -> OtpJob]

(* Nobody has a phone for which no code was ever presented rightly.        *)
PhoneProved ==
  \A u \in Users : users[u].phone # NoPhone =>
    \E c \in Codes : otps[c].phone = users[u].phone /\ otps[c].wins > 0

(* The cap counts and records in two transactions: overlapping requests    *)
(* exceed it, but by no more than the handlers there are besides one.      *)
CapHolds ==
  \A p \in Phones : window[p] + 1 <= HourlyCap + Cardinality(Workers)

(* No more guesses at a code than the maximum, unless handlers overlap; a  *)
(* failed save lets one guess go uncounted.                                *)
GuessesBounded ==
  solo => \A c \in Codes : otps[c].tries <= MaxAttempts + faults

(* Every session or phone change had a right guess of its own: however     *)
(* handlers overlap on one row, delete and insert it again, or fail half   *)
(* way, a code gives no more than the times it was presented rightly.      *)
GivenForRightCode == \A c \in Codes : otps[c].bought <= otps[c].wins

(* A code gives one session or one phone change, unless handlers overlap.  *)
CodeUsedOnce == solo => \A c \in Codes : otps[c].bought <= 1

(* A code that was presented rightly gave something: no refusal after the  *)
(* row is deleted, unless handlers overlap or a statement fails.           *)
SpentCodeBuys ==
  solo /\ faults = 0 /\ OtpQuiet =>
    \A c \in Codes : otps[c].wins = otps[c].bought

(* A phone has one code, so that a new one ends the old one, unless        *)
(* handlers overlap.                                                       *)
OneCodePerPhone ==
  solo => \A c, d \in Codes :
    otps[c].row /\ otps[d].row /\ otps[c].phone = otps[d].phone => c = d
=============================================================================
