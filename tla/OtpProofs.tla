----------------------------- MODULE OtpProofs ------------------------------
(***************************************************************************)
(* The properties of OtpAuth, for any phones, users, codes, handlers and   *)
(* failures.  Facts is the part of the invariant that no overlap breaks;   *)
(* Serial is the part under solo, where the one handler that runs accounts *)
(* for what a code still owes: a guess to count, or a session to give.     *)
(***************************************************************************)
EXTENDS OtpAuth, TLAPS, FiniteSetTheorems, WellFoundedInduction

oVars == <<otpVars, serverVars>>

(* Next statement of a handler whose code was right.                       *)
Winners == {"code_delete", "account_read", "account_insert", "token_insert",
            "phone_update"}

(* What a handler holds, whatever the others do.                           *)
HeldOK(w) ==
  LET h == otpJob[w] IN
    /\ h.kind = "change" => h.user \in Users
    /\ h.pc = "phone_update" => h.kind = "change"
    /\ h.pc \in Winners \union {"attempt_save"} =>
         /\ h.code \in Codes /\ otps[h.code].phone = h.phone
         /\ h.attempts < MaxAttempts
    /\ h.pc \in Winners => otps[h.code].wins > 0

Future == \A c \in Codes : c > issued => otps[c] = Unissued

(* Handlers that saw room below the cap and have yet to count themselves.  *)
Adding(p) == {w \in Workers : OtpAt(w, "cap_add") /\ otpJob[w].phone = p}
CapInv ==
  \A p \in Phones :
    window[p] + Cardinality(Adding(p)) + 1 <= HourlyCap + Cardinality(Workers)

(* Handlers that were right about a code and have given nothing for it yet.*)
Paying(c) == {w \in Workers : otpJob[w].pc \in Winners /\ otpJob[w].code = c}
PaidInv ==
  \A c \in Codes : otps[c].bought + Cardinality(Paying(c)) <= otps[c].wins

Facts ==
  /\ Future /\ PhoneProved /\ CapInv
  /\ \A w \in Workers : HeldOK(w)

LEMMA OtpTyped ==
  ASSUME NEW o \in Otp
  PROVE  /\ o.phone \in Phones \union {NoPhone} /\ o.row \in BOOLEAN
         /\ o.attempts \in 0 .. MaxAttempts /\ o.age \in {"fresh", "live", "expired"}
         /\ o.tries \in Nat /\ o.wins \in Nat /\ o.bought \in Nat
  BY DEF Otp

LEMMA OtpJobTyped ==
  ASSUME NEW h \in OtpJob
  PROVE  /\ h.pc \in OtpPcs /\ h.kind \in {"register", "login", "change"}
         /\ h.phone \in Phones /\ h.user \in Users \union {NoUser}
         /\ h.code \in 0 .. MaxCodes /\ h.attempts \in 0 .. MaxAttempts
  BY DEF OtpJob

LEMMA OtpIdleTyped ==
  /\ OtpIdle \in OtpJob /\ OtpIdle.pc = "idle" /\ OtpIdle.kind = "login"
  /\ Unissued \in Otp /\ Unissued.phone = NoPhone /\ ~Unissued.row
  /\ Unissued.age = "expired" /\ Unissued.tries = 0 /\ Unissued.wins = 0
  /\ Unissued.bought = 0 /\ Unissued.attempts = 0
  BY OtpAssumption DEF OtpIdle, OtpJob, OtpPcs, Unissued, Otp

-----------------------------------------------------------------------------
(* Types.                                                                  *)

LEMMA OtpEnterTyped ==
  ASSUME OtpTypeOK, ServerTypeOK, NEW w \in Workers, NEW pc \in OtpPcs,
         NEW kind \in {"register", "login", "change"}, NEW verify \in BOOLEAN,
         NEW p \in Phones, NEW u \in Users \union {NoUser},
         OtpEnter(w, pc, kind, verify, p, u)
  PROVE  OtpTypeOK' /\ ServerTypeOK'
<1>1. PICK h : h = [OtpIdle EXCEPT !.pc = pc, !.kind = kind, !.verify = verify,
                                   !.phone = p, !.user = u]
  OBVIOUS
<1>2. h \in OtpJob
  <2>1. OtpIdle \in OtpJob  BY OtpIdleTyped
  <2> QED  BY <1>1, <2>1 DEF OtpJob
<1>3. otpJob' = [otpJob EXCEPT ![w] = h]  BY <1>1 DEF OtpEnter
<1>4. UNCHANGED rows /\ solo' \in BOOLEAN /\ UNCHANGED faults
  BY DEF OtpEnter, Enter, ServerTypeOK
<1> QED  BY <1>2, <1>3, <1>4 DEF OtpTypeOK, ServerTypeOK, rows

LEMMA OtpStartTyped ==
  ASSUME OtpTypeOK, ServerTypeOK, NEW w \in Workers, OtpStart(w)
  PROVE  OtpTypeOK' /\ ServerTypeOK'
<1> USE DEF OtpPcs
<1>1. PICK p \in Phones :
        \/ \E kind \in {"register", "login"} : requestOtp(w, kind, p)
        \/ verifyRegisterOtp(w, p) \/ verifyLoginOtp(w, p)
        \/ \E u \in Users :
             requestPhoneChangeOtp(w, u, p) \/ verifyPhoneChangeOtp(w, u, p)
  BY DEF OtpStart
<1>2. ASSUME NEW kind \in {"register", "login"}, requestOtp(w, kind, p)
      PROVE  OtpTypeOK' /\ ServerTypeOK'
  BY <1>2, OtpEnterTyped DEF requestOtp
<1>3. CASE verifyRegisterOtp(w, p)  BY <1>3, OtpEnterTyped DEF verifyRegisterOtp
<1>4. CASE verifyLoginOtp(w, p)  BY <1>4, OtpEnterTyped DEF verifyLoginOtp
<1>5. ASSUME NEW u \in Users, requestPhoneChangeOtp(w, u, p)
      PROVE  OtpTypeOK' /\ ServerTypeOK'
  BY <1>5, OtpEnterTyped DEF requestPhoneChangeOtp
<1>6. ASSUME NEW u \in Users, verifyPhoneChangeOtp(w, u, p)
      PROVE  OtpTypeOK' /\ ServerTypeOK'
  BY <1>6, OtpEnterTyped DEF verifyPhoneChangeOtp
<1> QED  BY <1>1, <1>2, <1>3, <1>4, <1>5, <1>6

(* The steps of a handler: what they do to its job and to one code.        *)
LEMMA GotoTyped ==
  ASSUME OtpTypeOK, NEW w \in Workers, NEW pc \in OtpPcs,
         OtpFinish(w) \/ OtpGoto(w, pc)
  PROVE  otpJob' \in [Workers -> OtpJob]
<1>1. CASE OtpFinish(w)  BY <1>1, OtpIdleTyped DEF OtpFinish, OtpTypeOK
<1>2. CASE OtpGoto(w, pc)
  <2>1. [otpJob[w] EXCEPT !.pc = pc] \in OtpJob  BY DEF OtpTypeOK, OtpJob
  <2> QED  BY <1>2, <2>1 DEF OtpGoto, OtpTypeOK
<1> QED  BY <1>1, <1>2

LEMMA OtpReadsTyped ==
  ASSUME OtpTypeOK, NEW w \in Workers,
         \/ TakenRead(w) \/ CapRead(w) \/ RequestUser(w) \/ OtpRead(w)
         \/ CodeRefused(w) \/ AccountRead(w) \/ OtpFails(w)
  PROVE  /\ UNCHANGED rows
         /\ otpJob' \in [Workers -> OtpJob]
<1>1. UNCHANGED rows
  BY DEF TakenRead, CapRead, RequestUser, OtpRead, CodeRefused, AccountRead, OtpFails
<1>2. CASE TakenRead(w) \/ CapRead(w) \/ RequestUser(w) \/ OtpRead(w)
           \/ CodeRefused(w) \/ OtpFails(w)
  <2>1. OtpFinish(w) \/ \E pc \in OtpPcs : OtpGoto(w, pc)
    BY <1>2 DEF TakenRead, CapRead, RequestUser, OtpRead, CodeRefused, OtpFails, OtpPcs
  <2>2. "idle" \in OtpPcs  BY DEF OtpPcs
  <2> QED  BY <1>1, <2>1, <2>2, GotoTyped
<1>3. CASE AccountRead(w)
  <2>1. CASE OtpGoto(w, "account_insert")  BY <1>1, <2>1, GotoTyped DEF OtpPcs
  <2>2. ASSUME NEW u \in Users,
               otpJob' = [otpJob EXCEPT ![w].pc = "token_insert", ![w].user = u]
        PROVE  otpJob' \in [Workers -> OtpJob]
    <3>1. PICK h : h = [otpJob[w] EXCEPT !.pc = "token_insert", !.user = u]
      OBVIOUS
    <3>2. otpJob[w] \in OtpJob  BY DEF OtpTypeOK
    <3>3. h \in OtpJob  BY <3>1, <3>2 DEF OtpJob, OtpPcs
    <3>4. otpJob' = [otpJob EXCEPT ![w] = h]  BY <2>2, <3>1 DEF OtpTypeOK
    <3> QED  BY <3>3, <3>4 DEF OtpTypeOK
  <2> QED  BY <1>1, <1>3, <2>1, <2>2 DEF AccountRead, Holders
<1> QED  BY <1>1, <1>2, <1>3

LEMMA OtpRowsTyped ==
  ASSUME OtpTypeOK, NEW w \in Workers, (\A x \in Workers : HeldOK(x)),
         CapAdd(w) \/ OtpDelete(w) \/ OtpInsert(w)
           \/ AttemptSave(w) \/ CodeDelete(w) \/ TokenInsert(w)
  PROVE  OtpTypeOK'
<1> USE OtpIdleTyped DEF OtpPcs
<1>0. /\ otpJob[w] \in OtpJob /\ HeldOK(w) /\ \A c \in Codes : otps[c] \in Otp
      /\ otps = [c \in Codes |-> otps[c]]
  BY DEF OtpTypeOK
<1>1. CASE CapAdd(w)
  <2>1. otpJob' \in [Workers -> OtpJob]  BY <1>1, GotoTyped DEF CapAdd
  <2>2. otpJob[w].phone \in Phones  BY <1>0 DEF OtpJob
  <2>3. window' \in [Phones -> Nat]  BY <1>1, <2>2 DEF CapAdd, OtpTypeOK
  <2> QED  BY <1>1, <2>1, <2>3 DEF CapAdd, OtpTypeOK
<1>2. CASE OtpDelete(w)
  <2>1. otpJob' \in [Workers -> OtpJob]  BY <1>2, GotoTyped DEF OtpDelete
  <2>2. ASSUME NEW c \in Codes PROVE [otps[c] EXCEPT !.row = FALSE] \in Otp
    BY <1>0 DEF Otp
  <2> QED  BY <1>0, <1>2, <2>1, <2>2 DEF OtpDelete, OtpTypeOK
<1>3. CASE OtpInsert(w)
  <2>1. otpJob' \in [Workers -> OtpJob]  BY <1>3, GotoTyped DEF OtpInsert
  <2>2. PICK o : o = [Unissued EXCEPT !.phone = otpJob[w].phone, !.row = TRUE,
                                      !.age = "fresh"]
    OBVIOUS
  <2>3. Unissued \in Otp /\ otpJob[w].phone \in Phones  BY <1>0 DEF OtpJob
  <2>4. o \in Otp  BY <2>2, <2>3 DEF Otp
  <2>5. otps' = [otps EXCEPT ![issued + 1] = o]  BY <1>3, <2>2 DEF OtpInsert
  <2>6. issued' \in Codes
    BY <1>3, OtpAssumption DEF OtpInsert, OtpTypeOK, Codes
  <2> QED  BY <1>3, <2>1, <2>4, <2>5, <2>6 DEF OtpInsert, OtpTypeOK
<1>4. CASE AttemptSave(w)
  <2>1. otpJob' \in [Workers -> OtpJob]  BY <1>4, GotoTyped DEF AttemptSave
  <2>2. PICK c : c = otpJob[w].code  OBVIOUS
  <2>3. c \in Codes /\ otpJob[w].attempts + 1 \in 0 .. MaxAttempts
    <3>1. otpJob[w].attempts \in 0 .. MaxAttempts  BY <1>0 DEF OtpJob
    <3> QED  BY <1>0, <1>4, <2>2, <3>1, OtpAssumption DEF HeldOK, AttemptSave, OtpAt
  <2>4. PICK o : o = [otps[c] EXCEPT !.row = TRUE, !.attempts = otpJob[w].attempts + 1]
    OBVIOUS
  <2>5. o \in Otp  BY <1>0, <2>3, <2>4 DEF Otp
  <2>6. otps' = [otps EXCEPT ![c] = o]
    BY <1>0, <1>4, <2>2, <2>3, <2>4 DEF AttemptSave
  <2> QED  BY <1>4, <2>1, <2>5, <2>6 DEF AttemptSave, OtpTypeOK
<1>5. CASE CodeDelete(w)
  <2>1. otpJob' \in [Workers -> OtpJob]
    BY <1>5, GotoTyped DEF CodeDelete, AfterCode
  <2>2. ASSUME NEW c \in Codes PROVE [otps[c] EXCEPT !.row = FALSE] \in Otp
    BY <1>0 DEF Otp
  <2>3. otpJob[w].code \in Codes
    BY <1>0, <1>5 DEF HeldOK, CodeDelete, OtpAt, Winners
  <2>4. otps' \in [Codes -> Otp]
    BY <1>5, <2>2, <2>3 DEF CodeDelete, OtpTypeOK
  <2> QED  BY <1>5, <2>1, <2>4 DEF CodeDelete, OtpTypeOK
<1>6. CASE TokenInsert(w)
  <2>1. otpJob' \in [Workers -> OtpJob]  BY <1>6, GotoTyped DEF TokenInsert
  <2>2. ASSUME NEW c \in Codes PROVE [otps[c] EXCEPT !.bought = @ + 1] \in Otp
    BY <1>0 DEF Otp
  <2>3. otpJob[w].code \in Codes
    BY <1>0, <1>6 DEF HeldOK, TokenInsert, OtpAt, Winners
  <2>4. otps' \in [Codes -> Otp]
    BY <1>6, <2>2, <2>3 DEF TokenInsert, Buy, OtpTypeOK
  <2> QED  BY <1>6, <2>1, <2>4 DEF TokenInsert, OtpTypeOK
<1> QED  BY <1>1, <1>2, <1>3, <1>4, <1>5, <1>6

(* A set of codes that is not empty has a last one.                        *)
LEMMA LargestCode ==
  ASSUME NEW S \in SUBSET Codes, S # {}
  PROVE  \E m \in S : \A d \in S : d <= m
<1>1. PICK T : T = {MaxCodes - c : c \in S}  OBVIOUS
<1>2. T \in SUBSET Nat /\ T # {}
  <2>1. ASSUME NEW c \in S PROVE MaxCodes - c \in Nat  BY OtpAssumption DEF Codes
  <2> QED  BY <1>1, <2>1
<1>3. PICK x \in T : \A y \in T : ~(<<y, x>> \in OpToRel(<, Nat))
  BY <1>2, WFMin, NatLessThanWellFounded
<1>4. \A y \in T : ~(y < x)  BY <1>2, <1>3 DEF OpToRel
<1>5. PICK m \in S : x = MaxCodes - m  BY <1>1
<1>6. ASSUME NEW d \in S PROVE d <= m
  <2>1. MaxCodes - d \in T  BY <1>1
  <2> QED  BY <1>4, <1>5, <2>1, OtpAssumption DEF Codes
<1> QED  BY <1>6

LEMMA GuessedTyped ==
  ASSUME NEW o \in Otp, NEW t \in Nat, NEW n \in Nat
  PROVE  [o EXCEPT !.tries = t, !.wins = n] \in Otp
  BY DEF Otp

LEMMA LoadedTyped ==
  ASSUME NEW h \in OtpJob, NEW pc \in OtpPcs, NEW c \in 0 .. MaxCodes,
         NEW a \in 0 .. MaxAttempts
  PROVE  [h EXCEPT !.pc = pc, !.code = c, !.attempts = a] \in OtpJob
  BY DEF OtpJob

LEMMA CompareTyped ==
  ASSUME OtpTypeOK, NEW w \in Workers, NEW right \in BOOLEAN,
         NEW pc \in {"attempt_save", "code_delete"}, Compare(w, right, pc),
         NEW c, c = Latest(otpJob[w].phone)
  PROVE  /\ OtpTypeOK'
         /\ c \in Unexpired(otpJob[w].phone) /\ c \in Codes /\ ~Exhausted(c)
         /\ otps[c] \in Otp /\ otpJob[w] \in OtpJob
         /\ otpJob'[w].pc = pc /\ otpJob'[w].code = c
         /\ otpJob'[w].attempts = otps[c].attempts
         /\ otpJob'[w].phone = otpJob[w].phone
         /\ otpJob'[w].kind = otpJob[w].kind /\ otpJob'[w].user = otpJob[w].user
         /\ \A x \in Workers \ {w} : otpJob'[x] = otpJob[x]
         /\ otps'[c].phone = otps[c].phone /\ otps'[c].row = otps[c].row
         /\ otps'[c].attempts = otps[c].attempts /\ otps'[c].bought = otps[c].bought
         /\ otps'[c].tries = otps[c].tries + 1
         /\ right => otps'[c].wins = otps[c].wins + 1
         /\ ~right => otps'[c].wins = otps[c].wins
         /\ \A d \in Codes \ {c} : otps'[d] = otps[d]
<1>1. Unexpired(otpJob[w].phone) # {} /\ ~Exhausted(c)  BY DEF Compare
<1>2. Unexpired(otpJob[w].phone) \subseteq Codes  BY DEF Unexpired
<1>3. c \in Unexpired(otpJob[w].phone)
  BY <1>1, <1>2, LargestCode DEF Latest
<1>4. c \in Codes  BY <1>2, <1>3
<1>5. PICK o : o = [otps[c] EXCEPT !.tries = @ + 1,
                                   !.wins = IF right THEN @ + 1 ELSE @]
  OBVIOUS
<1>6. otps[c] \in Otp /\ otpJob[w] \in OtpJob  BY <1>4 DEF OtpTypeOK
<1>7. o \in Otp
  <2>1. PICK n : n = IF right THEN otps[c].wins + 1 ELSE otps[c].wins  OBVIOUS
  <2>2. n \in Nat /\ otps[c].tries + 1 \in Nat  BY <1>6, <2>1, OtpTyped
  <2>3. o = [otps[c] EXCEPT !.tries = otps[c].tries + 1, !.wins = n]
    BY <1>5, <2>1
  <2> QED  BY <1>6, <2>2, <2>3, GuessedTyped
<1>8. PICK h : h = [otpJob[w] EXCEPT !.pc = pc, !.code = c,
                                     !.attempts = otps[c].attempts]
  OBVIOUS
<1>9. h \in OtpJob
  <2>1. pc \in OtpPcs /\ c \in 0 .. MaxCodes /\ otps[c].attempts \in 0 .. MaxAttempts
    BY <1>4, <1>6, OtpTyped, OtpAssumption DEF OtpPcs, Codes
  <2> QED  BY <1>6, <1>8, <2>1, LoadedTyped
<1>10. otps' = [otps EXCEPT ![c] = o]
  BY <1>4, <1>5 DEF Compare, OtpTypeOK
<1>11. otpJob' = [otpJob EXCEPT ![w] = h]
  BY <1>8 DEF Compare, OtpTypeOK
<1>12. OtpTypeOK'
  <2>1. UNCHANGED <<issued, users, window>>  BY DEF Compare
  <2>2. otps' \in [Codes -> Otp]  BY <1>4, <1>7, <1>10 DEF OtpTypeOK
  <2>3. otpJob' \in [Workers -> OtpJob]  BY <1>9, <1>11 DEF OtpTypeOK
  <2> QED  BY <2>1, <2>2, <2>3 DEF OtpTypeOK
<1>13. otpJob'[w] = h /\ \A x \in Workers \ {w} : otpJob'[x] = otpJob[x]
  BY <1>11 DEF OtpTypeOK
<1>14. otps'[c] = o /\ \A d \in Codes \ {c} : otps'[d] = otps[d]
  BY <1>4, <1>10 DEF OtpTypeOK
<1>15. /\ h.pc = pc /\ h.code = c /\ h.attempts = otps[c].attempts
       /\ h.phone = otpJob[w].phone /\ h.kind = otpJob[w].kind
       /\ h.user = otpJob[w].user
  BY <1>6, <1>8 DEF OtpJob
<1>16. /\ o.phone = otps[c].phone /\ o.row = otps[c].row
       /\ o.attempts = otps[c].attempts /\ o.bought = otps[c].bought
       /\ o.tries = otps[c].tries + 1
       /\ o.wins = IF right THEN otps[c].wins + 1 ELSE otps[c].wins
  BY <1>5, <1>6 DEF Otp
<1> QED
  BY <1>1, <1>3, <1>4, <1>6, <1>12, <1>13, <1>14, <1>15, <1>16

LEMMA OtpUsersTyped ==
  ASSUME OtpTypeOK, NEW w \in Workers, HeldOK(w), AccountInsert(w) \/ PhoneUpdate(w)
  PROVE  OtpTypeOK'
<1>1. otpJob[w] \in OtpJob /\ otpJob[w].phone \in Phones
  BY OtpJobTyped DEF OtpTypeOK
<1>2. CASE AccountInsert(w)
  <2>1. CASE OtpFinish(w) /\ UNCHANGED users
    <3>1. otpJob' \in [Workers -> OtpJob]  BY <2>1, GotoTyped DEF OtpPcs
    <3> QED  BY <1>2, <2>1, <3>1 DEF AccountInsert, OtpTypeOK
  <2>2. ASSUME NEW u \in Users,
               users' = [users EXCEPT ![u].phone = otpJob[w].phone],
               otpJob' = [otpJob EXCEPT ![w].pc = "token_insert", ![w].user = u]
        PROVE  OtpTypeOK'
    <3>1. PICK h : h = [otpJob[w] EXCEPT !.pc = "token_insert", !.user = u]
      OBVIOUS
    <3>2. h \in OtpJob  BY <1>1, <3>1 DEF OtpJob, OtpPcs
    <3>3. otpJob' = [otpJob EXCEPT ![w] = h]  BY <2>2, <3>1 DEF OtpTypeOK
    <3>4. users' \in [Users -> User]  BY <1>1, <2>2 DEF OtpTypeOK, User
    <3> QED  BY <1>2, <3>2, <3>3, <3>4 DEF AccountInsert, OtpTypeOK
  <2> QED  BY <1>2, <2>1, <2>2 DEF AccountInsert, Holders
<1>3. CASE PhoneUpdate(w)
  <2>1. otpJob' \in [Workers -> OtpJob]  BY <1>3, GotoTyped DEF PhoneUpdate, OtpPcs
  <2>2. otpJob[w].code \in Codes /\ otpJob[w].user \in Users
    BY <1>3 DEF PhoneUpdate, HeldOK, Winners, OtpAt
  <2>3. CASE UNCHANGED <<users, otps>>
    BY <1>3, <2>1, <2>3 DEF PhoneUpdate, OtpTypeOK
  <2>4. CASE Buy(w) /\ users' = [users EXCEPT ![otpJob[w].user] =
                                   [phone |-> otpJob[w].phone, moved |-> TRUE]]
    <3>1. users' \in [Users -> User]  BY <1>1, <2>4 DEF OtpTypeOK, User
    <3>2. ASSUME NEW c \in Codes PROVE [otps[c] EXCEPT !.bought = @ + 1] \in Otp
      BY DEF OtpTypeOK, Otp
    <3>3. otps' \in [Codes -> Otp]  BY <2>2, <2>4, <3>2 DEF Buy, OtpTypeOK
    <3> QED  BY <1>3, <2>1, <3>1, <3>3 DEF PhoneUpdate, OtpTypeOK
  <2> QED  BY <1>3, <2>3, <2>4 DEF PhoneUpdate
<1> QED  BY <1>2, <1>3

LEMMA ClockTyped ==
  ASSUME OtpTypeOK, Clock
  PROVE  OtpTypeOK'
<1>1. ASSUME NEW c \in Codes, CooldownEnds(c) \/ Expires(c) PROVE OtpTypeOK'
  <2>1. ASSUME NEW age \in {"fresh", "live", "expired"}
        PROVE  [otps[c] EXCEPT !.age = age] \in Otp
    BY DEF OtpTypeOK, Otp
  <2>2. otps' \in [Codes -> Otp]
    BY <1>1, <2>1 DEF CooldownEnds, Expires, Ages, OtpTypeOK
  <2> QED  BY <1>1, <2>2 DEF CooldownEnds, Expires, Ages, OtpTypeOK
<1>2. ASSUME NEW p \in Phones, WindowSlides(p) PROVE OtpTypeOK'
  BY <1>2 DEF WindowSlides, OtpTypeOK
<1>3. CASE FifteenDays
  <2>1. users' \in [Users -> User]  BY <1>3 DEF FifteenDays, OtpTypeOK, User
  <2>2. window' \in [Phones -> Nat]  BY <1>3 DEF FifteenDays
  <2> QED  BY <1>3, <2>1, <2>2 DEF FifteenDays, OtpTypeOK
<1> QED  BY <1>1, <1>2, <1>3 DEF Clock

-----------------------------------------------------------------------------
(* Facts: the cap.  Who is about to be counted is counted already.         *)

LEMMA AddingSets ==
  ASSUME NEW p \in Phones
  PROVE  /\ IsFiniteSet(Workers) /\ IsFiniteSet(Adding(p)) /\ IsFiniteSet(Adding(p)')
         /\ Cardinality(Workers) \in Nat /\ Cardinality(Adding(p)) \in Nat
         /\ Cardinality(Adding(p)') \in Nat
         /\ Cardinality(Adding(p)) <= Cardinality(Workers)
         /\ Cardinality(Adding(p)') <= Cardinality(Workers)
<1>1. Adding(p) \subseteq Workers /\ Adding(p)' \subseteq Workers  BY DEF Adding
<1> QED  BY <1>1, ServerAssumption, FS_Subset, FS_CardinalityType

(* Steps after which no more handlers are about to be counted, or the      *)
(* count is below the cap.                                                 *)
LEMMA CapKept ==
  ASSUME OtpTypeOK, CapInv,
         \A p \in Phones :
           \/ Adding(p)' \subseteq Adding(p) /\ window'[p] <= window[p]
              /\ window'[p] \in Nat
           \/ UnderCap(p) /\ window'[p] = window[p]
           \/ \E w \in Adding(p) : Adding(p)' \subseteq Adding(p) \ {w}
                                   /\ window'[p] = window[p] + 1
  PROVE  CapInv'
<1> SUFFICES ASSUME NEW p \in Phones
             PROVE  window'[p] + Cardinality(Adding(p)') + 1
                      <= HourlyCap + Cardinality(Workers)
  BY DEF CapInv
<1> DEFINE A == Cardinality(Adding(p))
           B == Cardinality(Adding(p)')
           N == Cardinality(Workers)
<1>1. /\ A \in Nat /\ B \in Nat /\ N \in Nat /\ B <= N /\ window[p] \in Nat
      /\ window[p] + A + 1 <= HourlyCap + N
  BY AddingSets DEF OtpTypeOK, CapInv
<1>2. CASE Adding(p)' \subseteq Adding(p) /\ window'[p] <= window[p]
           /\ window'[p] \in Nat
  <2>1. B <= A  BY <1>2, AddingSets, FS_Subset
  <2> HIDE DEF A, B, N
  <2>2. window'[p] + B + 1 <= HourlyCap + N  BY <1>1, <1>2, <2>1, OtpAssumption
  <2> QED  BY <2>2 DEF A, B, N
<1>3. CASE UnderCap(p) /\ window'[p] = window[p]
  <2> HIDE DEF A, B, N
  <2>1. window'[p] + B + 1 <= HourlyCap + N
    BY <1>1, <1>3, OtpAssumption DEF UnderCap
  <2> QED  BY <2>1 DEF A, B, N
<1>4. ASSUME NEW w \in Adding(p), Adding(p)' \subseteq Adding(p) \ {w},
             window'[p] = window[p] + 1
      PROVE  window'[p] + B + 1 <= HourlyCap + N
  <2>1. /\ IsFiniteSet(Adding(p) \ {w}) /\ Cardinality(Adding(p) \ {w}) = A - 1
    BY AddingSets, FS_RemoveElement
  <2>2. B <= A - 1  BY <1>4, <2>1, FS_Subset
  <2> HIDE DEF A, B, N
  <2> QED  BY <1>1, <1>4, <2>2, OtpAssumption
<1> QED  BY <1>2, <1>3, <1>4

-----------------------------------------------------------------------------
(* Facts: what a step needs to show of itself.                             *)

Others(w) == \A x \in Workers \ {w} : otpJob'[x] = otpJob[x]

CodesKept ==
  \A c \in Codes : otps[c].phone \in Phones =>
    otps'[c].phone = otps[c].phone /\ (otps[c].wins > 0 => otps'[c].wins > 0)

SamePhones == \A u \in Users : users'[u].phone = users[u].phone

LEMMA HeldKept ==
  ASSUME OtpTypeOK, Facts, CodesKept, NEW w \in Workers, Others(w), HeldOK(w)'
  PROVE  \A x \in Workers : HeldOK(x)'
<1> SUFFICES ASSUME NEW x \in Workers \ {w} PROVE HeldOK(x)'
  OBVIOUS
<1>1. HeldOK(x) /\ otpJob[x] \in OtpJob /\ otpJob'[x] = otpJob[x]
  BY DEF Facts, Others, OtpTypeOK
<1>2. otpJob[x].phone \in Phones  BY <1>1, OtpJobTyped
<1> QED  BY <1>1, <1>2 DEF HeldOK, CodesKept, Winners

LEMMA UsersKept ==
  ASSUME OtpTypeOK, Facts, CodesKept, SamePhones
  PROVE  PhoneProved'
<1>1. ASSUME NEW u \in Users, users'[u].phone # NoPhone
      PROVE  \E c \in Codes : otps'[c].phone = users'[u].phone /\ otps'[c].wins > 0
  <2>1. users[u].phone \in Phones /\ users'[u].phone = users[u].phone
    BY <1>1 DEF OtpTypeOK, User, SamePhones
  <2>2. PICK c \in Codes : otps[c].phone = users[u].phone /\ otps[c].wins > 0
    BY <2>1, OtpAssumption DEF Facts, PhoneProved
  <2> QED  BY <2>1, <2>2 DEF CodesKept
<1> QED  BY <1>1 DEF PhoneProved

LEMMA CapOfMove ==
  ASSUME OtpTypeOK, Facts, NEW w \in Workers, Others(w), UNCHANGED window,
         otpJob'[w].pc = "cap_add" => UnderCap(otpJob'[w].phone)
  PROVE  CapInv'
<1> SUFFICES ASSUME NEW p \in Phones
             PROVE  \/ Adding(p)' \subseteq Adding(p)
                    \/ UnderCap(p)
  BY CapKept DEF Facts, OtpTypeOK
<1>1. CASE w \in Adding(p)'  BY <1>1 DEF Adding, OtpAt
<1>2. CASE w \notin Adding(p)'
  BY <1>2 DEF Adding, OtpAt, Others
<1> QED  BY <1>1, <1>2

(* A handler that finishes, or goes on to a statement that needs no code.  *)
LEMMA GotoHeld ==
  ASSUME OtpTypeOK, NEW w \in Workers, HeldOK(w),
         NEW pc \in OtpPcs \ (Winners \union {"attempt_save"}),
         OtpFinish(w) \/ OtpGoto(w, pc)
  PROVE  /\ Others(w) /\ HeldOK(w)'
         /\ otpJob'[w].pc \in {"idle", pc}
         /\ otpJob'[w].pc # "idle" =>
              otpJob'[w] = [otpJob[w] EXCEPT !.pc = pc]
<1>1. CASE OtpFinish(w)
  <2>1. otpJob'[w] = OtpIdle  BY <1>1 DEF OtpFinish, OtpTypeOK
  <2> QED
    BY <1>1, <2>1, OtpIdleTyped DEF OtpFinish, OtpTypeOK, Others, HeldOK, Winners
<1>2. CASE OtpGoto(w, pc)
  <2>1. otpJob'[w] = [otpJob[w] EXCEPT !.pc = pc] /\ otpJob[w] \in OtpJob
    BY <1>2 DEF OtpGoto, OtpTypeOK
  <2>2. /\ otpJob'[w].pc = pc /\ otpJob'[w].kind = otpJob[w].kind
        /\ otpJob'[w].user = otpJob[w].user
    BY <2>1 DEF OtpJob
  <2>3. Others(w)  BY <1>2 DEF OtpGoto, OtpTypeOK, Others
  <2> QED  BY <2>1, <2>2, <2>3 DEF HeldOK, Winners
<1> QED  BY <1>1, <1>2

LEMMA FactsRows ==
  ASSUME OtpTypeOK, Facts, UNCHANGED rows, NEW w \in Workers, Others(w), HeldOK(w)',
         otpJob'[w].pc = "cap_add" => UnderCap(otpJob'[w].phone)
  PROVE  Facts'
<1>1. CodesKept /\ SamePhones /\ Future' /\ UNCHANGED window
  BY DEF rows, CodesKept, SamePhones, Facts, Future
<1> QED  BY <1>1, HeldKept, UsersKept, CapOfMove DEF Facts

(* Every handler starts by one statement: the hourly cap, the code's row,  *)
(* or, for a phone change, the phone's holder.                             *)
Starts(w, pc, kind, verify, p, u) ==
  /\ OtpEnter(w, pc, kind, verify, p, u)
  /\ \/ pc = "cap_add" /\ UnderCap(p) /\ kind \in {"register", "login"}
     \/ pc = "code_read" /\ kind \in {"register", "login"}
     \/ pc = "taken_read" /\ kind = "change" /\ u \in Users

LEMMA StartShape ==
  ASSUME NEW w \in Workers, OtpStart(w)
  PROVE  \E pc, kind, verify, u : \E p \in Phones : Starts(w, pc, kind, verify, p, u)
<1>1. PICK p \in Phones :
        \/ \E kind \in {"register", "login"} : requestOtp(w, kind, p)
        \/ verifyRegisterOtp(w, p) \/ verifyLoginOtp(w, p)
        \/ \E u \in Users :
             requestPhoneChangeOtp(w, u, p) \/ verifyPhoneChangeOtp(w, u, p)
  BY DEF OtpStart
<1>2. ASSUME NEW kind \in {"register", "login"}, requestOtp(w, kind, p)
      PROVE  Starts(w, "cap_add", kind, FALSE, p, NoUser)
  BY <1>2 DEF requestOtp, Starts
<1>3. CASE verifyRegisterOtp(w, p)
  <2>1. Starts(w, "code_read", "register", TRUE, p, NoUser)
    BY <1>3 DEF verifyRegisterOtp, Starts
  <2> QED  BY <2>1
<1>4. CASE verifyLoginOtp(w, p)
  <2>1. Starts(w, "code_read", "login", TRUE, p, NoUser)
    BY <1>4 DEF verifyLoginOtp, Starts
  <2> QED  BY <2>1
<1>5. ASSUME NEW u \in Users, requestPhoneChangeOtp(w, u, p)
      PROVE  Starts(w, "taken_read", "change", FALSE, p, u)
  BY <1>5 DEF requestPhoneChangeOtp, Starts
<1>6. ASSUME NEW u \in Users, verifyPhoneChangeOtp(w, u, p)
      PROVE  Starts(w, "taken_read", "change", TRUE, p, u)
  BY <1>6 DEF verifyPhoneChangeOtp, Starts
<1> QED  BY <1>1, <1>2, <1>3, <1>4, <1>5, <1>6

LEMMA EnterShape ==
  ASSUME OtpTypeOK, NEW w \in Workers, NEW pc, NEW kind, NEW verify, NEW u,
         NEW p \in Phones, OtpEnter(w, pc, kind, verify, p, u)
  PROVE  /\ Others(w) /\ UNCHANGED rows
         /\ otpJob'[w].pc = pc /\ otpJob'[w].kind = kind /\ otpJob'[w].phone = p
         /\ otpJob'[w].user = u
<1>1. otpJob'[w] = [OtpIdle EXCEPT !.pc = pc, !.kind = kind, !.verify = verify,
                                   !.phone = p, !.user = u]
  BY DEF OtpEnter, OtpTypeOK
<1>2. Others(w) /\ UNCHANGED rows  BY DEF OtpEnter, Others, OtpTypeOK
<1> QED  BY <1>1, <1>2 DEF OtpIdle

LEMMA FactsStart ==
  ASSUME OtpTypeOK, Facts, NEW w \in Workers, OtpStart(w)
  PROVE  Facts'
<1>1. PICK pc, kind, verify, u :
        \E p \in Phones : Starts(w, pc, kind, verify, p, u)
  BY StartShape
<1>2. PICK p \in Phones : Starts(w, pc, kind, verify, p, u)  BY <1>1
<1>3. /\ Others(w) /\ UNCHANGED rows
      /\ otpJob'[w].pc = pc /\ otpJob'[w].kind = kind /\ otpJob'[w].phone = p
      /\ otpJob'[w].user = u
  BY <1>2, EnterShape DEF Starts
<1>4. HeldOK(w)'  BY <1>2, <1>3 DEF HeldOK, Winners, Starts
<1> QED  BY <1>2, <1>3, <1>4, FactsRows DEF Starts

LEMMA FactsReads ==
  ASSUME OtpTypeOK, Facts, NEW w \in Workers,
         \/ TakenRead(w) \/ CapRead(w) \/ RequestUser(w) \/ OtpRead(w)
         \/ CodeRefused(w) \/ AccountRead(w) \/ OtpFails(w)
  PROVE  Facts'
<1>0. HeldOK(w) /\ UNCHANGED rows /\ otpJob[w] \in OtpJob
  BY OtpReadsTyped DEF Facts, OtpTypeOK
<1>1. CASE TakenRead(w) \/ RequestUser(w) \/ OtpRead(w) \/ CodeRefused(w) \/ OtpFails(w)
  <2>1. \E pc \in {"code_read", "cap_read", "otp_read", "otp_delete"} :
          OtpFinish(w) \/ OtpGoto(w, pc)
    BY <1>1 DEF TakenRead, RequestUser, OtpRead, CodeRefused, OtpFails
  <2>2. Others(w) /\ HeldOK(w)' /\ otpJob'[w].pc # "cap_add"
    BY <1>0, <2>1, GotoHeld DEF OtpPcs, Winners
  <2> QED  BY <1>0, <2>2, FactsRows
<1>2. CASE CapRead(w)
  <2>1. /\ OtpFinish(w) \/ OtpGoto(w, "cap_add")
        /\ OtpGoto(w, "cap_add") => UnderCap(otpJob[w].phone)
    BY <1>0, <1>2, OtpIdleTyped DEF CapRead, OtpFinish, OtpGoto, OtpTypeOK, OtpJob
  <2>2. /\ Others(w) /\ HeldOK(w)'
        /\ otpJob'[w].pc = "cap_add" => otpJob'[w] = [otpJob[w] EXCEPT !.pc = "cap_add"]
    BY <1>0, <2>1, GotoHeld DEF OtpPcs, Winners
  <2>3. otpJob'[w].pc = "cap_add" =>
          otpJob'[w].phone = otpJob[w].phone /\ ~OtpFinish(w)
    BY <1>0, <2>2, OtpIdleTyped DEF OtpJob, OtpFinish, OtpTypeOK
  <2> QED  BY <1>0, <2>1, <2>2, <2>3, FactsRows
<1>3. CASE AccountRead(w)
  <2>1. Others(w) /\ otpJob[w].pc = "account_read"
    BY <1>3 DEF AccountRead, OtpGoto, OtpAt, Others, OtpTypeOK
  <2>2. /\ otpJob'[w].pc \in {"account_insert", "token_insert"}
        /\ otpJob'[w].kind = otpJob[w].kind /\ otpJob'[w].code = otpJob[w].code
        /\ otpJob'[w].attempts = otpJob[w].attempts
        /\ otpJob'[w].phone = otpJob[w].phone
        /\ otpJob'[w].user \in Users \/ otpJob'[w].user = otpJob[w].user
    <3>1. CASE OtpGoto(w, "account_insert")
      <4>1. otpJob'[w] = [otpJob[w] EXCEPT !.pc = "account_insert"]
        BY <3>1 DEF OtpGoto, OtpTypeOK
      <4> QED  BY <1>0, <4>1 DEF OtpJob
    <3>2. ASSUME NEW u \in Users,
                 otpJob' = [otpJob EXCEPT ![w].pc = "token_insert", ![w].user = u]
          PROVE  /\ otpJob'[w].pc = "token_insert" /\ otpJob'[w].user = u
                 /\ otpJob'[w].kind = otpJob[w].kind /\ otpJob'[w].code = otpJob[w].code
                 /\ otpJob'[w].attempts = otpJob[w].attempts
                 /\ otpJob'[w].phone = otpJob[w].phone
      <4>1. otpJob'[w] = [otpJob[w] EXCEPT !.pc = "token_insert", !.user = u]
        BY <3>2 DEF OtpTypeOK
      <4> QED  BY <1>0, <4>1 DEF OtpJob
    <3> QED  BY <1>3, <3>1, <3>2 DEF AccountRead, Holders
  <2>3. HeldOK(w)'  BY <1>0, <2>1, <2>2 DEF HeldOK, Winners, rows
  <2> QED  BY <1>0, <2>1, <2>2, <2>3, FactsRows
<1> QED  BY <1>1, <1>2, <1>3

(* Steps that write codes and leave users and windows alone.               *)
LEMMA FactsOtps ==
  ASSUME OtpTypeOK, Facts, CodesKept, UNCHANGED <<users, window>>, Future',
         NEW w \in Workers, Others(w), HeldOK(w)', otpJob'[w].pc # "cap_add"
  PROVE  Facts'
<1>1. SamePhones  BY DEF SamePhones
<1> QED  BY <1>1, HeldKept, UsersKept, CapOfMove DEF Facts

LEMMA CapAddFacts ==
  ASSUME OtpTypeOK, Facts, NEW w \in Workers, CapAdd(w)
  PROVE  Facts'
<1>0. HeldOK(w) /\ otpJob[w] \in OtpJob /\ otpJob[w].phone \in Phones
  BY OtpJobTyped DEF Facts, OtpTypeOK
<1>1. \E pc \in {"otp_read", "request_user"} : OtpGoto(w, pc)
  BY DEF CapAdd
<1>2. Others(w) /\ HeldOK(w)' /\ otpJob'[w].pc # "cap_add"
  BY <1>0, <1>1, GotoHeld DEF OtpPcs, Winners
<1>3. CodesKept /\ SamePhones /\ Future'
  BY DEF CapAdd, CodesKept, SamePhones, Facts, Future
<1>4. ASSUME NEW p \in Phones
      PROVE  \/ Adding(p)' \subseteq Adding(p) /\ window'[p] <= window[p]
                /\ window'[p] \in Nat
             \/ \E x \in Adding(p) : Adding(p)' \subseteq Adding(p) \ {x}
                                     /\ window'[p] = window[p] + 1
  <2>1. Adding(p)' \subseteq Adding(p) \ {w}
    BY <1>2 DEF Adding, OtpAt, Others
  <2>2. CASE p = otpJob[w].phone
    <3>1. w \in Adding(p) /\ window'[p] = window[p] + 1
      BY <2>2 DEF CapAdd, Adding, OtpTypeOK
    <3> QED  BY <2>1, <3>1
  <2>3. CASE p # otpJob[w].phone
    <3>1. window'[p] = window[p] /\ window[p] \in Nat
      BY <2>3 DEF CapAdd, OtpTypeOK
    <3> QED  BY <2>1, <3>1
  <2> QED  BY <2>2, <2>3
<1>5. CapInv'  BY <1>4, CapKept DEF Facts
<1> QED  BY <1>2, <1>3, <1>5, HeldKept, UsersKept DEF Facts

LEMMA SendFacts ==
  ASSUME OtpTypeOK, Facts, NEW w \in Workers, OtpDelete(w) \/ OtpInsert(w)
  PROVE  Facts'
<1>0. /\ HeldOK(w) /\ otpJob[w] \in OtpJob /\ otpJob[w].phone \in Phones
      /\ NoPhone \notin Phones /\ issued \in Codes
      /\ \A c \in Codes : otps[c] \in Otp
  BY OtpJobTyped, OtpAssumption DEF Facts, OtpTypeOK
<1>1. CASE OtpDelete(w)
  <2>1. Others(w) /\ HeldOK(w)' /\ otpJob'[w].pc # "cap_add"
    <3>1. /\ OtpGoto(w, "otp_insert")
          /\ "otp_insert" \in OtpPcs \ (Winners \union {"attempt_save"})
      BY <1>1 DEF OtpDelete, OtpPcs, Winners
    <3>2. HeldOK(w) /\ OtpTypeOK  BY <1>0
    <3> QED  BY <3>1, <3>2, GotoHeld
  <2>2. ASSUME NEW c \in Codes
        PROVE  /\ otps'[c].phone = otps[c].phone /\ otps'[c].wins = otps[c].wins
               /\ c > issued => otps'[c] = Unissued
    BY <1>0, <1>1, OtpIdleTyped DEF OtpDelete, Otp, Facts, Future
  <2>3. Future' /\ CodesKept /\ UNCHANGED <<users, window>>
    BY <1>1, <2>2 DEF OtpDelete, Future, CodesKept
  <2> QED  BY <2>1, <2>3, FactsOtps
<1>2. CASE OtpInsert(w)
  <2>1. Others(w) /\ HeldOK(w)' /\ otpJob'[w].pc # "cap_add"
    <3>1. /\ OtpFinish(w)
          /\ "otp_insert" \in OtpPcs \ (Winners \union {"attempt_save"})
      BY <1>2 DEF OtpInsert, OtpPcs, Winners
    <3>2. HeldOK(w) /\ OtpTypeOK  BY <1>0
    <3> QED  BY <3>1, <3>2, GotoHeld
  <2>2. issued + 1 \in Codes /\ otps[issued + 1] = Unissued
    BY <1>0, <1>2, OtpAssumption DEF OtpInsert, Codes, Facts, Future
  <2>3. ASSUME NEW c \in Codes, c # issued + 1 PROVE otps'[c] = otps[c]
    BY <1>2, <2>3 DEF OtpInsert, OtpTypeOK
  <2>4. CodesKept
    BY <1>0, <2>2, <2>3, OtpIdleTyped DEF CodesKept
  <2>5. Future'
    BY <1>0, <1>2, <2>3, OtpAssumption DEF OtpInsert, Facts, Future, Codes
  <2>6. UNCHANGED <<users, window>>  BY <1>2 DEF OtpInsert
  <2> QED  BY <2>1, <2>4, <2>5, <2>6, FactsOtps
<1> QED  BY <1>1, <1>2

LEMMA CompareFacts ==
  ASSUME OtpTypeOK, Facts, NEW w \in Workers, WrongCode(w) \/ RightCode(w)
  PROVE  Facts'
<1>1. PICK pc \in {"attempt_save", "code_delete"}, right \in BOOLEAN :
        Compare(w, right, pc) /\ (right <=> pc = "code_delete")
  <2>1. CASE WrongCode(w)
    <3>1. Compare(w, FALSE, "attempt_save")  BY <2>1 DEF WrongCode
    <3> QED  BY <3>1
  <2>2. CASE RightCode(w)
    <3>1. Compare(w, TRUE, "code_delete")  BY <2>2 DEF RightCode
    <3> QED  BY <3>1
  <2> QED  BY <2>1, <2>2
<1>2. PICK c : c = Latest(otpJob[w].phone)  OBVIOUS
<1>3. /\ c \in Unexpired(otpJob[w].phone) /\ c \in Codes /\ ~Exhausted(c)
      /\ otps[c] \in Otp /\ otpJob[w] \in OtpJob
      /\ otpJob'[w].pc = pc /\ otpJob'[w].code = c
      /\ otpJob'[w].attempts = otps[c].attempts
      /\ otpJob'[w].phone = otpJob[w].phone
      /\ otpJob'[w].kind = otpJob[w].kind /\ otpJob'[w].user = otpJob[w].user
      /\ \A x \in Workers \ {w} : otpJob'[x] = otpJob[x]
      /\ otps'[c].phone = otps[c].phone /\ otps'[c].row = otps[c].row
      /\ otps'[c].attempts = otps[c].attempts /\ otps'[c].bought = otps[c].bought
      /\ otps'[c].tries = otps[c].tries + 1
      /\ right => otps'[c].wins = otps[c].wins + 1
      /\ ~right => otps'[c].wins = otps[c].wins
      /\ \A d \in Codes \ {c} : otps'[d] = otps[d]
  <2>1. Compare(w, right, pc)  BY <1>1
  <2> QED  BY <1>2, <2>1, CompareTyped
<1>5. /\ otps[c].phone = otpJob[w].phone /\ otps[c].wins \in Nat
      /\ otps[c].attempts \in 0 .. MaxAttempts /\ otps[c].phone # NoPhone
  <2>1. /\ otps[c].wins \in Nat /\ otps[c].attempts \in 0 .. MaxAttempts
        /\ otpJob[w].phone \in Phones
    BY <1>3, OtpTyped, OtpJobTyped
  <2>2. otps[c].phone = otpJob[w].phone  BY <1>3 DEF Unexpired
  <2> QED  BY <2>1, <2>2, OtpAssumption
<1>6. otps[c].attempts < MaxAttempts  BY <1>3, <1>5, OtpAssumption DEF Exhausted
<1>7. HeldOK(w)'
  <2>1. otpJob[w].kind = "change" => otpJob[w].user \in Users
    BY DEF Facts, HeldOK
  <2>2. otps'[c].wins > 0 \/ pc = "attempt_save"  BY <1>1, <1>3, <1>5
  <2> QED  BY <1>3, <1>5, <1>6, <2>1, <2>2 DEF HeldOK, Winners
<1>8. CodesKept
  <2>1. otps[c].wins > 0 => otps'[c].wins > 0  BY <1>1, <1>3, <1>5
  <2> QED  BY <1>3, <1>5, <2>1 DEF CodesKept
<1>9. Future'
  <2>1. UNCHANGED issued /\ ~(c > issued)
    BY <1>1, <1>3, <1>5, OtpIdleTyped DEF Compare, Facts, Future
  <2> QED  BY <1>3, <2>1 DEF Facts, Future
<1>10. Others(w) /\ UNCHANGED <<users, window>>  BY <1>1, <1>3 DEF Compare, Others
<1> QED  BY <1>3, <1>7, <1>8, <1>9, <1>10, FactsOtps

(* A statement on the code a handler holds.                                *)
LEMMA HeldCode ==
  ASSUME OtpTypeOK, Facts, NEW w \in Workers,
         otpJob[w].pc \in Winners \union {"attempt_save"}
  PROVE  /\ otpJob[w].code \in Codes /\ ~(otpJob[w].code > issued)
         /\ otps[otpJob[w].code].phone = otpJob[w].phone
         /\ otpJob[w].phone \in Phones /\ otpJob[w].phone # NoPhone
         /\ otpJob[w].attempts < MaxAttempts
<1>1. HeldOK(w) /\ otpJob[w] \in OtpJob  BY DEF Facts, OtpTypeOK
<1>2. otpJob[w].phone \in Phones  BY <1>1, OtpJobTyped
<1>3. otpJob[w].code \in Codes /\ otps[otpJob[w].code].phone = otpJob[w].phone
      /\ otpJob[w].attempts < MaxAttempts
  BY <1>1 DEF HeldOK
<1> QED
  BY <1>2, <1>3, OtpIdleTyped, OtpAssumption DEF Facts, Future

LEMMA SavedShape ==
  ASSUME OtpTypeOK, Facts, NEW w \in Workers, AttemptSave(w),
         NEW c, c = otpJob[w].code
  PROVE  /\ otps'[c].phone = otps[c].phone /\ otps'[c].wins = otps[c].wins
         /\ otps'[c].tries = otps[c].tries /\ otps'[c].bought = otps[c].bought
         /\ otps'[c].row = TRUE /\ otps'[c].attempts = otpJob[w].attempts + 1
         /\ \A d \in Codes \ {c} : otps'[d] = otps[d]
         /\ c \in Codes /\ ~(c > issued)
<1>1. c \in Codes /\ ~(c > issued)  BY HeldCode DEF AttemptSave, OtpAt
<1>2. otps' = [otps EXCEPT ![c] =
                [otps[c] EXCEPT !.row = TRUE, !.attempts = otpJob[w].attempts + 1]]
  BY <1>1 DEF AttemptSave, OtpTypeOK
<1>3. otps'[c] = [otps[c] EXCEPT !.row = TRUE, !.attempts = otpJob[w].attempts + 1]
      /\ \A d \in Codes \ {c} : otps'[d] = otps[d]
  BY <1>1, <1>2 DEF OtpTypeOK
<1>4. otps[c] \in Otp  BY <1>1 DEF OtpTypeOK
<1> QED  BY <1>1, <1>3, <1>4 DEF Otp

LEMMA DeletedShape ==
  ASSUME OtpTypeOK, Facts, NEW w \in Workers, CodeDelete(w),
         NEW c, c = otpJob[w].code
  PROVE  /\ otps'[c].phone = otps[c].phone /\ otps'[c].wins = otps[c].wins
         /\ otps'[c].tries = otps[c].tries /\ otps'[c].bought = otps[c].bought
         /\ otps'[c].row = FALSE
         /\ \A d \in Codes \ {c} : otps'[d] = otps[d]
         /\ c \in Codes /\ ~(c > issued)
<1>1. c \in Codes /\ ~(c > issued)  BY HeldCode DEF CodeDelete, OtpAt, Winners
<1>2. otps'[c] = [otps[c] EXCEPT !.row = FALSE]
      /\ \A d \in Codes \ {c} : otps'[d] = otps[d]
  BY <1>1 DEF CodeDelete, OtpTypeOK
<1>3. otps[c] \in Otp  BY <1>1 DEF OtpTypeOK
<1> QED  BY <1>1, <1>2, <1>3 DEF Otp

LEMMA BoughtShape ==
  ASSUME OtpTypeOK, Facts, NEW w \in Workers, otpJob[w].pc \in Winners, Buy(w),
         NEW c, c = otpJob[w].code
  PROVE  /\ otps'[c].phone = otps[c].phone /\ otps'[c].wins = otps[c].wins
         /\ otps'[c].tries = otps[c].tries /\ otps'[c].bought = otps[c].bought + 1
         /\ otps'[c].row = otps[c].row /\ otps'[c].attempts = otps[c].attempts
         /\ \A d \in Codes \ {c} : otps'[d] = otps[d]
         /\ c \in Codes /\ ~(c > issued)
<1>1. c \in Codes /\ ~(c > issued)  BY HeldCode
<1>2. otps'[c] = [otps[c] EXCEPT !.bought = @ + 1]
      /\ \A d \in Codes \ {c} : otps'[d] = otps[d]
  BY <1>1 DEF Buy, OtpTypeOK
<1>3. otps[c] \in Otp  BY <1>1 DEF OtpTypeOK
<1> QED  BY <1>1, <1>2, <1>3 DEF Otp

LEMMA CodeFacts ==
  ASSUME OtpTypeOK, Facts, NEW w \in Workers,
         AttemptSave(w) \/ CodeDelete(w) \/ TokenInsert(w)
  PROVE  Facts'
<1>1. PICK c : c = otpJob[w].code  OBVIOUS
<1>2. /\ otps'[c].phone = otps[c].phone /\ otps'[c].wins = otps[c].wins
      /\ \A d \in Codes \ {c} : otps'[d] = otps[d]
      /\ c \in Codes /\ ~(c > issued)
  <2>1. CASE AttemptSave(w)  BY <1>1, <2>1, SavedShape
  <2>2. CASE CodeDelete(w)  BY <1>1, <2>2, DeletedShape
  <2>3. CASE TokenInsert(w)
    <3>1. Buy(w) /\ otpJob[w].pc \in Winners
      BY <2>3 DEF TokenInsert, OtpAt, Winners
    <3> QED  BY <1>1, <3>1, BoughtShape
  <2> QED  BY <2>1, <2>2, <2>3
<1>3. UNCHANGED <<users, window, issued>>
  BY DEF AttemptSave, CodeDelete, TokenInsert
<1>4. CodesKept /\ Future'  BY <1>2, <1>3 DEF CodesKept, Facts, Future
<1>5. HeldOK(w) /\ otpJob[w] \in OtpJob  BY DEF Facts, OtpTypeOK
<1>6. CASE AttemptSave(w) \/ TokenInsert(w)
  <2>1. OtpFinish(w)  BY <1>6 DEF AttemptSave, TokenInsert
  <2>2. "idle" \in OtpPcs \ (Winners \union {"attempt_save"})  BY DEF OtpPcs, Winners
  <2>3. Others(w) /\ HeldOK(w)' /\ otpJob'[w].pc # "cap_add"
    BY <1>5, <2>1, <2>2, GotoHeld
  <2> QED  BY <1>3, <1>4, <2>3, FactsOtps
<1>7. CASE CodeDelete(w)
  <2>1. PICK pc \in {"phone_update", "account_read"} :
          OtpGoto(w, pc) /\ (pc = "phone_update" => otpJob[w].kind = "change")
    BY <1>7 DEF CodeDelete, AfterCode
  <2>2. otpJob'[w] = [otpJob[w] EXCEPT !.pc = pc] /\ Others(w)
    BY <2>1 DEF OtpGoto, Others, OtpTypeOK
  <2>3. /\ otpJob'[w].pc = pc /\ otpJob'[w].kind = otpJob[w].kind
        /\ otpJob'[w].user = otpJob[w].user /\ otpJob'[w].code = otpJob[w].code
        /\ otpJob'[w].phone = otpJob[w].phone
        /\ otpJob'[w].attempts = otpJob[w].attempts
    BY <1>5, <2>2 DEF OtpJob
  <2>4. otpJob[w].pc = "code_delete"  BY <1>7 DEF CodeDelete, OtpAt
  <2>5. HeldOK(w)'
    BY <1>1, <1>2, <1>5, <2>1, <2>3, <2>4 DEF HeldOK, Winners
  <2> QED  BY <1>3, <1>4, <2>1, <2>2, <2>3, <2>5, FactsOtps
<1> QED  BY <1>6, <1>7

-----------------------------------------------------------------------------
(* Facts: the writes of a phone.  The handler has a code for it.           *)

LEMMA PhoneGiven ==
  ASSUME OtpTypeOK, Facts, CodesKept, NEW w \in Workers, otpJob[w].pc \in Winners,
         NEW u \in Users,
         users'[u].phone = otpJob[w].phone,
         \A v \in Users \ {u} : users'[v].phone = users[v].phone
  PROVE  PhoneProved'
<1>1. PICK p : p = otpJob[w].phone  OBVIOUS
<1>2. PICK c : c = otpJob[w].code  OBVIOUS
<1>3. c \in Codes /\ otps[c].phone = p /\ otps[c].wins > 0 /\ p \in Phones
  BY <1>1, <1>2, HeldCode DEF Facts, HeldOK
<1>4. ASSUME NEW v \in Users, users'[v].phone # NoPhone
      PROVE  \E d \in Codes : otps'[d].phone = users'[v].phone /\ otps'[d].wins > 0
  <2>1. CASE v = u  BY <1>1, <1>3, <2>1 DEF CodesKept
  <2>2. CASE v # u
    <3>1. users[v].phone \in Phones /\ users'[v].phone = users[v].phone
      BY <1>4, <2>2 DEF OtpTypeOK, User
    <3>2. PICK d \in Codes : otps[d].phone = users[v].phone /\ otps[d].wins > 0
      BY <3>1, OtpAssumption DEF Facts, PhoneProved
    <3> QED  BY <3>1, <3>2 DEF CodesKept
  <2> QED  BY <2>1, <2>2
<1> QED  BY <1>4 DEF PhoneProved

LEMMA AccountFacts ==
  ASSUME OtpTypeOK, Facts, NEW w \in Workers, AccountInsert(w)
  PROVE  Facts'
<1>1. HeldOK(w) /\ otpJob[w] \in OtpJob  BY DEF Facts, OtpTypeOK
<1>2. CodesKept /\ Future' /\ UNCHANGED window /\ UNCHANGED <<otps, issued>>
  BY DEF AccountInsert, CodesKept, Facts, Future
<1>3. CASE OtpFinish(w) /\ UNCHANGED users
  <2>1. "idle" \in OtpPcs \ (Winners \union {"attempt_save"})  BY DEF OtpPcs, Winners
  <2>2. Others(w) /\ HeldOK(w)' /\ otpJob'[w].pc # "cap_add"
    BY <1>1, <1>3, <2>1, GotoHeld
  <2> QED  BY <1>2, <1>3, <2>2, FactsOtps
<1>4. ASSUME NEW u \in Holders(NoPhone),
             users' = [users EXCEPT ![u].phone = otpJob[w].phone],
             otpJob' = [otpJob EXCEPT ![w].pc = "token_insert", ![w].user = u]
      PROVE  Facts'
  <2>1. u \in Users  BY DEF Holders
  <2>2. otpJob'[w] = [otpJob[w] EXCEPT !.pc = "token_insert", !.user = u] /\ Others(w)
    BY <1>4 DEF OtpTypeOK, Others
  <2>3. /\ otpJob'[w].pc = "token_insert" /\ otpJob'[w].kind = otpJob[w].kind
        /\ otpJob'[w].user = u /\ otpJob'[w].code = otpJob[w].code
        /\ otpJob'[w].phone = otpJob[w].phone
        /\ otpJob'[w].attempts = otpJob[w].attempts
    BY <1>1, <2>2 DEF OtpJob
  <2>4. otpJob[w].pc = "account_insert"  BY DEF AccountInsert, OtpAt
  <2>5. HeldOK(w)'
    BY <1>1, <1>2, <2>1, <2>3, <2>4 DEF HeldOK, Winners
  <2>6. CapInv'  BY <1>2, <2>2, <2>3, CapOfMove
  <2>7. users'[u].phone = otpJob[w].phone
        /\ \A v \in Users \ {u} : users'[v].phone = users[v].phone
    BY <1>4, <2>1 DEF OtpTypeOK, User
  <2>8. PhoneProved'
    BY <1>2, <2>1, <2>4, <2>7, PhoneGiven DEF Winners
  <2> QED  BY <1>2, <2>2, <2>5, <2>6, <2>8, HeldKept DEF Facts
<1> QED  BY <1>3, <1>4 DEF AccountInsert

LEMMA PhoneUpdateFacts ==
  ASSUME OtpTypeOK, Facts, NEW w \in Workers, PhoneUpdate(w)
  PROVE  Facts'
<1>1. HeldOK(w) /\ otpJob[w] \in OtpJob  BY DEF Facts, OtpTypeOK
<1>2. "idle" \in OtpPcs \ (Winners \union {"attempt_save"})  BY DEF OtpPcs, Winners
<1>3. Others(w) /\ HeldOK(w)' /\ otpJob'[w].pc # "cap_add"
      /\ UNCHANGED <<issued, window>>
  BY <1>1, <1>2, GotoHeld DEF PhoneUpdate
<1>4. CASE UNCHANGED <<users, otps>>
  <2>1. CodesKept /\ Future'  BY <1>3, <1>4 DEF CodesKept, Facts, Future
  <2> QED  BY <1>3, <1>4, <2>1, FactsOtps
<1>5. ASSUME Buy(w),
             users' = [users EXCEPT ![otpJob[w].user] =
                         [phone |-> otpJob[w].phone, moved |-> TRUE]]
      PROVE  Facts'
  <2>1. PICK u : u = otpJob[w].user  OBVIOUS
  <2>2. u \in Users /\ otpJob[w].pc \in Winners
    BY <1>1, <2>1 DEF HeldOK, PhoneUpdate, OtpAt, Winners
  <2>3. PICK c : c = otpJob[w].code  OBVIOUS
  <2>4. /\ otps'[c].phone = otps[c].phone /\ otps'[c].wins = otps[c].wins
        /\ \A d \in Codes \ {c} : otps'[d] = otps[d]
        /\ c \in Codes /\ ~(c > issued)
    BY <1>5, <2>2, <2>3, BoughtShape
  <2>5. CodesKept /\ Future'  BY <1>3, <2>4 DEF CodesKept, Facts, Future
  <2>6. users'[u].phone = otpJob[w].phone
        /\ \A v \in Users \ {u} : users'[v].phone = users[v].phone
    BY <1>5, <2>1, <2>2 DEF OtpTypeOK
  <2>7. PhoneProved'
    BY <1>5, <2>1, <2>2, <2>5, <2>6, PhoneGiven
  <2> QED  BY <1>3, <2>5, <2>7, HeldKept, CapOfMove DEF Facts
<1> QED  BY <1>4, <1>5 DEF PhoneUpdate

LEMMA AgesShape ==
  ASSUME OtpTypeOK, NEW c \in Codes, CooldownEnds(c) \/ Expires(c)
  PROVE  /\ otps[c].age # "expired" /\ otps[c] \in Otp
         /\ otps'[c].phone = otps[c].phone /\ otps'[c].wins = otps[c].wins
         /\ otps'[c].tries = otps[c].tries /\ otps'[c].bought = otps[c].bought
         /\ otps'[c].row = otps[c].row /\ otps'[c].attempts = otps[c].attempts
         /\ \A d \in Codes \ {c} : otps'[d] = otps[d]
         /\ UNCHANGED <<issued, users, window, otpJob, serverVars>>
<1>1. PICK age \in {"live", "expired"} :
        otps' = [otps EXCEPT ![c].age = age]
  BY DEF CooldownEnds, Expires, Ages
<1>2. otps'[c] = [otps[c] EXCEPT !.age = age] /\ otps[c] \in Otp
      /\ \A d \in Codes \ {c} : otps'[d] = otps[d]
  BY <1>1 DEF OtpTypeOK
<1>3. otps[c].age # "expired" /\ UNCHANGED <<issued, users, window, otpJob, serverVars>>
  BY DEF CooldownEnds, Expires, Ages
<1> QED  BY <1>2, <1>3 DEF Otp

LEMMA ClockFacts ==
  ASSUME OtpTypeOK, Facts, Clock
  PROVE  Facts'
<1>1. ASSUME NEW c \in Codes, CooldownEnds(c) \/ Expires(c) PROVE Facts'
  <2>1. /\ otps[c].age # "expired"
        /\ otps'[c].phone = otps[c].phone /\ otps'[c].wins = otps[c].wins
        /\ \A d \in Codes \ {c} : otps'[d] = otps[d]
        /\ UNCHANGED <<issued, users, window, otpJob>>
    BY <1>1, AgesShape
  <2>2. CodesKept /\ SamePhones  BY <2>1 DEF CodesKept, SamePhones
  <2>3. ~(c > issued)  BY <2>1, OtpIdleTyped DEF Facts, Future
  <2>4. Future'  BY <2>1, <2>3 DEF Facts, Future
  <2>5. \A w \in Workers : HeldOK(w)'
    <3>1. SUFFICES ASSUME NEW w \in Workers PROVE HeldOK(w)'
      OBVIOUS
    <3> QED  BY <2>1 DEF Facts, HeldOK, Winners
  <2>6. CapInv'
    BY <2>1 DEF Facts, CapInv, Adding, OtpAt
  <2> QED  BY <2>2, <2>4, <2>5, <2>6, UsersKept DEF Facts
<1>2. ASSUME NEW p \in Phones, WindowSlides(p) PROVE Facts'
  <2>1. UNCHANGED <<otps, issued, users, otpJob>>  BY <1>2 DEF WindowSlides
  <2>2. ASSUME NEW q \in Phones
        PROVE  Adding(q)' \subseteq Adding(q) /\ window'[q] <= window[q]
               /\ window'[q] \in Nat
    BY <1>2, <2>1 DEF WindowSlides, Adding, OtpAt, OtpTypeOK
  <2>3. CapInv'  BY <2>2, CapKept DEF Facts
  <2> QED
    BY <2>1, <2>3 DEF Facts, Future, PhoneProved, HeldOK
<1>3. CASE FifteenDays
  <2>1. UNCHANGED <<otps, issued, otpJob>>  BY <1>3 DEF FifteenDays
  <2>2. CodesKept /\ SamePhones
    BY <1>3, <2>1 DEF FifteenDays, CodesKept, SamePhones, OtpTypeOK, User
  <2>3. ASSUME NEW q \in Phones
        PROVE  Adding(q)' \subseteq Adding(q) /\ window'[q] <= window[q]
               /\ window'[q] \in Nat
    BY <1>3, <2>1 DEF FifteenDays, Adding, OtpAt, OtpTypeOK
  <2>4. CapInv'  BY <2>3, CapKept DEF Facts
  <2>5. Future' /\ \A w \in Workers : HeldOK(w)'
    BY <2>1 DEF Facts, Future, HeldOK
  <2> QED  BY <2>2, <2>4, <2>5, UsersKept DEF Facts
<1> QED  BY <1>1, <1>2, <1>3 DEF Clock

LEMMA FactsFails ==
  ASSUME OtpTypeOK, ServerTypeOK, NEW w \in Workers, OtpFails(w)
  PROVE  OtpTypeOK' /\ ServerTypeOK'
<1>1. UNCHANGED rows /\ otpJob' \in [Workers -> OtpJob]  BY OtpReadsTyped
<1>2. ServerTypeOK'
  BY ServerAssumption DEF OtpFails, Fault, ServerTypeOK
<1> QED  BY <1>1, <1>2 DEF OtpTypeOK, rows

-----------------------------------------------------------------------------
(* Paid: who was right and is about to be given something is counted as a  *)
(* right guess already.                                                    *)

LEMMA PayingSets ==
  ASSUME NEW c \in Codes
  PROVE  /\ IsFiniteSet(Paying(c)) /\ IsFiniteSet(Paying(c)')
         /\ Cardinality(Paying(c)) \in Nat /\ Cardinality(Paying(c)') \in Nat
<1>1. Paying(c) \subseteq Workers /\ Paying(c)' \subseteq Workers  BY DEF Paying
<1> QED  BY <1>1, ServerAssumption, FS_Subset, FS_CardinalityType

(* No more handlers are owed for the code, or one was right, or one is     *)
(* owed no more.                                                           *)
LEMMA PaidKept ==
  ASSUME OtpTypeOK, OtpTypeOK', PaidInv, NEW w \in Workers,
         \A c \in Codes :
           \/ /\ Paying(c)' \subseteq Paying(c)
              /\ otps'[c].bought = otps[c].bought /\ otps'[c].wins = otps[c].wins
           \/ /\ Paying(c)' \subseteq Paying(c) \union {w}
              /\ otps'[c].bought = otps[c].bought
              /\ otps'[c].wins = otps[c].wins + 1
           \/ /\ w \in Paying(c) /\ Paying(c)' \subseteq Paying(c) \ {w}
              /\ otps'[c].bought = otps[c].bought + 1
              /\ otps'[c].wins = otps[c].wins
  PROVE  PaidInv'
<1> SUFFICES ASSUME NEW c \in Codes
             PROVE  otps'[c].bought + Cardinality(Paying(c)') <= otps'[c].wins
  BY DEF PaidInv
<1> DEFINE A == Cardinality(Paying(c))
           B == Cardinality(Paying(c)')
<1>1. /\ A \in Nat /\ B \in Nat /\ otps[c].bought + A <= otps[c].wins
      /\ otps[c].bought \in Nat /\ otps[c].wins \in Nat
  BY PayingSets, OtpTyped DEF OtpTypeOK, PaidInv
<1>2. CASE /\ Paying(c)' \subseteq Paying(c)
           /\ otps'[c].bought = otps[c].bought /\ otps'[c].wins = otps[c].wins
  <2>1. B <= A  BY <1>2, PayingSets, FS_Subset
  <2> HIDE DEF A, B
  <2>2. otps'[c].bought + B <= otps'[c].wins  BY <1>1, <1>2, <2>1
  <2> QED  BY <2>2 DEF B
<1>3. CASE /\ Paying(c)' \subseteq Paying(c) \union {w}
           /\ otps'[c].bought = otps[c].bought /\ otps'[c].wins = otps[c].wins + 1
  <2>1. IsFiniteSet(Paying(c) \union {w})
        /\ Cardinality(Paying(c) \union {w}) \in {A, A + 1}
    BY PayingSets, FS_AddElement
  <2>2. B <= Cardinality(Paying(c) \union {w})  BY <1>3, <2>1, FS_Subset
  <2> HIDE DEF A, B
  <2>3. otps'[c].bought + B <= otps'[c].wins  BY <1>1, <1>3, <2>1, <2>2
  <2> QED  BY <2>3 DEF B
<1>4. CASE /\ w \in Paying(c) /\ Paying(c)' \subseteq Paying(c) \ {w}
           /\ otps'[c].bought = otps[c].bought + 1 /\ otps'[c].wins = otps[c].wins
  <2>1. IsFiniteSet(Paying(c) \ {w}) /\ Cardinality(Paying(c) \ {w}) = A - 1
    BY <1>4, PayingSets, FS_RemoveElement
  <2>2. B <= A - 1  BY <1>4, <2>1, FS_Subset
  <2> HIDE DEF A, B
  <2>3. otps'[c].bought + B <= otps'[c].wins  BY <1>1, <1>4, <2>2
  <2> QED  BY <2>3 DEF B
<1> QED  BY <1>2, <1>3, <1>4

SameCounts ==
  \A c \in Codes : otps'[c].bought = otps[c].bought /\ otps'[c].wins = otps[c].wins

(* A handler comes to be owed something only by a right guess.             *)
LEMMA PaidOfMove ==
  ASSUME OtpTypeOK, OtpTypeOK', PaidInv, NEW w \in Workers, Others(w), SameCounts,
         otpJob'[w].pc \in Winners =>
           otpJob[w].pc \in Winners /\ otpJob'[w].code = otpJob[w].code
  PROVE  PaidInv'
<1>1. \A c \in Codes : Paying(c)' \subseteq Paying(c)  BY DEF Paying, Others
<1> QED  BY <1>1, PaidKept DEF SameCounts

LEMMA MoveShape ==
  ASSUME OtpTypeOK, NEW w \in Workers, NEW pc \in OtpPcs, OtpFinish(w) \/ OtpGoto(w, pc)
  PROVE  /\ Others(w)
         /\ \/ otpJob'[w].pc = "idle"
            \/ otpJob'[w].pc = pc /\ otpJob'[w].code = otpJob[w].code
<1>1. CASE OtpFinish(w)
  BY <1>1, OtpIdleTyped DEF OtpFinish, OtpTypeOK, Others
<1>2. CASE OtpGoto(w, pc)
  <2>1. otpJob'[w] = [otpJob[w] EXCEPT !.pc = pc] /\ otpJob[w] \in OtpJob /\ Others(w)
    BY <1>2 DEF OtpGoto, OtpTypeOK, Others
  <2> QED  BY <2>1 DEF OtpJob
<1> QED  BY <1>1, <1>2

LEMMA PaidReads ==
  ASSUME OtpTypeOK, OtpTypeOK', PaidInv, NEW w \in Workers,
         \/ TakenRead(w) \/ CapRead(w) \/ CapAdd(w) \/ RequestUser(w) \/ OtpRead(w)
         \/ CodeRefused(w) \/ AccountRead(w) \/ OtpFails(w)
  PROVE  PaidInv'
<1>1. SameCounts
  BY DEF SameCounts, rows, TakenRead, CapRead, CapAdd, RequestUser, OtpRead,
     CodeRefused, AccountRead, OtpFails
<1>2. CASE ~AccountRead(w)
  <2>1. \E pc \in {"code_read", "cap_read", "cap_add", "otp_read", "otp_delete",
                   "request_user"} : OtpFinish(w) \/ OtpGoto(w, pc)
    BY <1>2 DEF TakenRead, CapRead, CapAdd, RequestUser, OtpRead, CodeRefused, OtpFails
  <2>2. Others(w) /\ otpJob'[w].pc \notin Winners
    BY <2>1, MoveShape DEF OtpPcs, Winners
  <2> QED  BY <1>1, <2>2, PaidOfMove
<1>3. CASE AccountRead(w)
  <2>1. otpJob[w].pc \in Winners /\ otpJob[w] \in OtpJob
    BY <1>3 DEF AccountRead, OtpAt, Winners, OtpTypeOK
  <2>2. CASE OtpGoto(w, "account_insert")
    <3>1. Others(w) /\ (otpJob'[w].pc = "idle" \/ otpJob'[w].code = otpJob[w].code)
      BY <2>2, MoveShape DEF OtpPcs
    <3> QED  BY <1>1, <2>1, <3>1, PaidOfMove DEF Winners
  <2>3. ASSUME NEW u,
               otpJob' = [otpJob EXCEPT ![w].pc = "token_insert", ![w].user = u]
        PROVE  PaidInv'
    <3>1. otpJob'[w] = [otpJob[w] EXCEPT !.pc = "token_insert", !.user = u]
          /\ Others(w)
      BY <2>3 DEF OtpTypeOK, Others
    <3>2. otpJob'[w].code = otpJob[w].code  BY <2>1, <3>1 DEF OtpJob
    <3> QED  BY <1>1, <2>1, <3>1, <3>2, PaidOfMove
  <2> QED  BY <1>3, <2>2, <2>3 DEF AccountRead
<1> QED  BY <1>2, <1>3

LEMMA PaidStart ==
  ASSUME OtpTypeOK, OtpTypeOK', PaidInv, NEW w \in Workers, OtpStart(w)
  PROVE  PaidInv'
<1>1. PICK pc, kind, verify, u :
        \E p \in Phones : Starts(w, pc, kind, verify, p, u)
  BY StartShape
<1>2. PICK p \in Phones : Starts(w, pc, kind, verify, p, u)  BY <1>1
<1>3. Others(w) /\ UNCHANGED rows /\ otpJob'[w].pc = pc
  BY <1>2, EnterShape DEF Starts
<1>4. SameCounts /\ otpJob'[w].pc \notin Winners
  BY <1>2, <1>3 DEF SameCounts, rows, Starts, Winners
<1> QED  BY <1>3, <1>4, PaidOfMove

LEMMA PaidSend ==
  ASSUME OtpTypeOK, OtpTypeOK', Facts, PaidInv, NEW w \in Workers,
         OtpDelete(w) \/ OtpInsert(w)
  PROVE  PaidInv'
<1>1. \E pc \in {"otp_insert"} : OtpFinish(w) \/ OtpGoto(w, pc)
  BY DEF OtpDelete, OtpInsert
<1>2. Others(w) /\ otpJob'[w].pc \notin Winners
  BY <1>1, MoveShape DEF OtpPcs, Winners
<1>3. SameCounts
  <2>1. SUFFICES ASSUME NEW c \in Codes
                 PROVE  /\ otps'[c].bought = otps[c].bought
                        /\ otps'[c].wins = otps[c].wins
    BY DEF SameCounts
  <2>2. otps[c] \in Otp /\ issued \in Nat  BY DEF OtpTypeOK, Codes
  <2>3. CASE OtpDelete(w)  BY <2>2, <2>3 DEF OtpDelete, Otp
  <2>4. CASE OtpInsert(w) /\ c # issued + 1
    BY <2>4 DEF OtpInsert, OtpTypeOK
  <2>5. CASE OtpInsert(w) /\ c = issued + 1
    <3>1. otps[c] = Unissued  BY <2>2, <2>5 DEF Facts, Future
    <3>2. otps'[c] = [Unissued EXCEPT !.phone = otpJob[w].phone, !.row = TRUE,
                                      !.age = "fresh"]
      BY <2>5 DEF OtpInsert, OtpTypeOK
    <3> QED  BY <3>1, <3>2, OtpIdleTyped DEF Otp
  <2> QED  BY <2>3, <2>4, <2>5
<1> QED  BY <1>2, <1>3, PaidOfMove

LEMMA PaidCompare ==
  ASSUME OtpTypeOK, OtpTypeOK', PaidInv, NEW w \in Workers, WrongCode(w) \/ RightCode(w)
  PROVE  PaidInv'
<1>1. PICK c : c = Latest(otpJob[w].phone)  OBVIOUS
<1>2. CASE WrongCode(w)
  <2>1. Compare(w, FALSE, "attempt_save")  BY <1>2 DEF WrongCode
  <2>2. /\ otpJob'[w].pc = "attempt_save"
        /\ \A x \in Workers \ {w} : otpJob'[x] = otpJob[x]
        /\ otps'[c].bought = otps[c].bought /\ otps'[c].wins = otps[c].wins
        /\ \A d \in Codes \ {c} : otps'[d] = otps[d]
    BY <1>1, <2>1, CompareTyped
  <2>3. Others(w) /\ SameCounts  BY <2>2 DEF Others, SameCounts
  <2> QED  BY <2>2, <2>3, PaidOfMove DEF Winners
<1>3. CASE RightCode(w)
  <2>1. Compare(w, TRUE, "code_delete")  BY <1>3 DEF RightCode
  <2>2. /\ otpJob'[w].code = c /\ \A x \in Workers \ {w} : otpJob'[x] = otpJob[x]
        /\ otps'[c].bought = otps[c].bought /\ otps'[c].wins = otps[c].wins + 1
        /\ \A d \in Codes \ {c} : otps'[d] = otps[d]
    BY <1>1, <2>1, CompareTyped
  <2>3. Paying(c)' \subseteq Paying(c) \union {w}  BY <2>2 DEF Paying
  <2>4. \A d \in Codes \ {c} : Paying(d)' \subseteq Paying(d)  BY <2>2 DEF Paying
  <2> QED  BY <2>2, <2>3, <2>4, PaidKept
<1> QED  BY <1>2, <1>3

(* The handler that gives something is owed it, and finishes.              *)
LEMMA PaidBuy ==
  ASSUME OtpTypeOK, OtpTypeOK', Facts, PaidInv, NEW w \in Workers,
         otpJob[w].pc \in Winners, Buy(w), OtpFinish(w)
  PROVE  PaidInv'
<1>1. PICK c : c = otpJob[w].code  OBVIOUS
<1>2. /\ otps'[c].bought = otps[c].bought + 1 /\ otps'[c].wins = otps[c].wins
      /\ \A d \in Codes \ {c} : otps'[d] = otps[d]
      /\ c \in Codes
  BY <1>1, BoughtShape
<1>3. Others(w) /\ otpJob'[w].pc = "idle"
  BY OtpIdleTyped DEF OtpFinish, OtpTypeOK, Others
<1>4. \A d \in Codes : Paying(d)' \subseteq Paying(d) \ {w}
  BY <1>3 DEF Paying, Others, Winners
<1>5. w \in Paying(c)  BY <1>1 DEF Paying
<1> QED  BY <1>2, <1>4, <1>5, PaidKept

LEMMA PaidCodes ==
  ASSUME OtpTypeOK, OtpTypeOK', Facts, PaidInv, NEW w \in Workers,
         AttemptSave(w) \/ CodeDelete(w) \/ TokenInsert(w)
  PROVE  PaidInv'
<1>1. PICK c : c = otpJob[w].code  OBVIOUS
<1>2. CASE AttemptSave(w)
  <2>1. SameCounts  BY <1>1, <1>2, SavedShape DEF SameCounts
  <2>2. Others(w) /\ otpJob'[w].pc = "idle"
    BY <1>2, OtpIdleTyped DEF AttemptSave, OtpFinish, OtpTypeOK, Others
  <2> QED  BY <2>1, <2>2, PaidOfMove DEF Winners
<1>3. CASE CodeDelete(w)
  <2>1. SameCounts  BY <1>1, <1>3, DeletedShape DEF SameCounts
  <2>2. PICK pc \in {"phone_update", "account_read"} : OtpGoto(w, pc)
    BY <1>3 DEF CodeDelete, AfterCode
  <2>3. Others(w) /\ (otpJob'[w].pc = "idle" \/ otpJob'[w].code = otpJob[w].code)
    BY <2>2, MoveShape DEF OtpPcs
  <2> QED  BY <1>3, <2>1, <2>3, PaidOfMove DEF CodeDelete, OtpAt, Winners
<1>4. CASE TokenInsert(w)
  BY <1>4, PaidBuy DEF TokenInsert, OtpAt, Winners
<1> QED  BY <1>2, <1>3, <1>4

LEMMA PaidUsers ==
  ASSUME OtpTypeOK, OtpTypeOK', Facts, PaidInv, NEW w \in Workers,
         AccountInsert(w) \/ PhoneUpdate(w)
  PROVE  PaidInv'
<1>1. CASE PhoneUpdate(w) /\ Buy(w)
  BY <1>1, PaidBuy DEF PhoneUpdate, OtpAt, Winners
<1>2. CASE OtpFinish(w) /\ UNCHANGED otps
  <2>1. SameCounts /\ Others(w) /\ otpJob'[w].pc = "idle"
    BY <1>2, OtpIdleTyped DEF SameCounts, OtpFinish, OtpTypeOK, Others
  <2> QED  BY <2>1, PaidOfMove DEF Winners
<1>3. ASSUME NEW u, AccountInsert(w),
             otpJob' = [otpJob EXCEPT ![w].pc = "token_insert", ![w].user = u]
      PROVE  PaidInv'
  <2>1. otpJob[w].pc \in Winners /\ otpJob[w] \in OtpJob /\ SameCounts
    BY <1>3 DEF AccountInsert, OtpAt, Winners, OtpTypeOK, SameCounts
  <2>2. otpJob'[w] = [otpJob[w] EXCEPT !.pc = "token_insert", !.user = u]
        /\ Others(w)
    BY <1>3 DEF OtpTypeOK, Others
  <2>3. otpJob'[w].code = otpJob[w].code  BY <2>1, <2>2 DEF OtpJob
  <2> QED  BY <2>1, <2>2, <2>3, PaidOfMove
<1> QED  BY <1>1, <1>2, <1>3 DEF AccountInsert, PhoneUpdate

LEMMA PaidClock ==
  ASSUME OtpTypeOK, PaidInv, Clock
  PROVE  PaidInv'
<1>1. UNCHANGED otpJob /\ SameCounts
  <2>1. ASSUME NEW c \in Codes, CooldownEnds(c) \/ Expires(c)
        PROVE  UNCHANGED otpJob /\ SameCounts
    BY <2>1, AgesShape DEF SameCounts
  <2> QED  BY <2>1 DEF Clock, WindowSlides, FifteenDays, SameCounts
<1>2. \A c \in Codes : Paying(c)' = Paying(c)  BY <1>1 DEF Paying
<1> QED  BY <1>1, <1>2 DEF PaidInv, SameCounts

LEMMA PaidStep ==
  ASSUME OtpTypeOK, OtpTypeOK', Facts, PaidInv, OtpNext
  PROVE  PaidInv'
<1>1. ASSUME NEW w \in Workers, OtpContinue(w) PROVE PaidInv'
  BY <1>1, PaidReads, PaidSend, PaidCompare, PaidCodes, PaidUsers DEF OtpContinue
<1> QED  BY <1>1, PaidStart, PaidReads, PaidClock DEF OtpNext

-----------------------------------------------------------------------------
OtpCore == ServerTypeOK /\ OtpTypeOK /\ Facts /\ PaidInv

LEMMA CoreInit ==
  ASSUME ServerTypeOK, OtpInit
  PROVE  OtpCore
<1> USE OtpIdleTyped, OtpAssumption
<1>1. PICK first : first = [Unissued EXCEPT !.phone = FirstPhone, !.tries = 1,
                                            !.wins = 1, !.bought = 1]
  OBVIOUS
<1>2. first \in Otp /\ first.phone = FirstPhone /\ first.wins = 1 /\ first.bought = 1
  BY <1>1 DEF Otp
<1>3. 1 \in Codes /\ otps = [c \in Codes |-> IF c = 1 THEN first ELSE Unissued]
  BY <1>1 DEF OtpInit, Codes
<1>4. OtpTypeOK
  <2>1. users \in [Users -> User]  BY DEF OtpInit, User
  <2>2. otps \in [Codes -> Otp]  BY <1>2, <1>3
  <2>3. otpJob \in [Workers -> OtpJob] /\ window \in [Phones -> Nat]
    BY DEF OtpInit
  <2>4. issued \in Codes  BY <1>3 DEF OtpInit
  <2> QED  BY <2>1, <2>2, <2>3, <2>4 DEF OtpTypeOK
<1>5. Future  BY <1>3 DEF Future, OtpInit, Codes
<1>6. PhoneProved
  <2>1. \A u \in Users : users[u].phone # NoPhone => users[u].phone = FirstPhone
    BY DEF OtpInit
  <2>2. otps[1].phone = FirstPhone /\ otps[1].wins > 0  BY <1>2, <1>3
  <2> QED  BY <1>3, <2>1, <2>2 DEF PhoneProved
<1>7. CapInv
  <2>1. ASSUME NEW p \in Phones
        PROVE  window[p] + Cardinality(Adding(p)) + 1 <= HourlyCap + Cardinality(Workers)
    <3>1. Adding(p) = {} /\ window[p] = 0  BY DEF Adding, OtpAt, OtpInit
    <3>2. Cardinality(Adding(p)) = 0 /\ Cardinality(Workers) \in Nat
      BY <3>1, FS_EmptySet, FS_CardinalityType, ServerAssumption
    <3> QED  BY <3>1, <3>2
  <2> QED  BY <2>1 DEF CapInv
<1>8. \A w \in Workers : HeldOK(w)  BY DEF HeldOK, OtpInit, Winners
<1>9. PaidInv
  <2>1. ASSUME NEW c \in Codes
        PROVE  otps[c].bought + Cardinality(Paying(c)) <= otps[c].wins
    <3>1. Paying(c) = {}  BY DEF Paying, OtpInit, Winners
    <3>2. Cardinality(Paying(c)) = 0  BY <3>1, FS_EmptySet
    <3>3. otps[c].bought = otps[c].wins /\ otps[c].wins \in Nat  BY <1>2, <1>3
    <3> QED  BY <3>2, <3>3
  <2> QED  BY <2>1 DEF PaidInv
<1> QED  BY <1>4, <1>5, <1>6, <1>7, <1>8, <1>9 DEF OtpCore, Facts

LEMMA CoreStep ==
  ASSUME OtpCore, [OtpNext]_oVars
  PROVE  OtpCore'
<1> DEFINE Rest == ServerTypeOK /\ OtpTypeOK /\ Facts
<1> SUFFICES Rest'
  <2>1. CASE OtpNext  BY <2>1, PaidStep DEF OtpCore
  <2>2. CASE UNCHANGED oVars
    BY <2>2 DEF oVars, otpVars, OtpCore, PaidInv, Paying
  <2> QED  BY <2>1, <2>2 DEF OtpCore
<1> USE DEF OtpCore
<1>1. ASSUME NEW w \in Workers, OtpStart(w) PROVE Rest'
  BY <1>1, OtpStartTyped, FactsStart
<1>2. ASSUME NEW w \in Workers, OtpContinue(w) PROVE Rest'
  <2>1. HeldOK(w)  BY DEF Facts
  <2>2. UNCHANGED serverVars
    BY <1>2 DEF OtpContinue, TakenRead, CapRead, CapAdd, RequestUser, OtpRead,
       OtpDelete, OtpInsert, CodeRefused, WrongCode, RightCode, Compare, AttemptSave,
       CodeDelete, AccountRead, AccountInsert, TokenInsert, PhoneUpdate
  <2>3. ServerTypeOK'  BY <2>2 DEF ServerTypeOK, serverVars
  <2>4. CASE \/ TakenRead(w) \/ CapRead(w) \/ RequestUser(w) \/ OtpRead(w)
             \/ CodeRefused(w) \/ AccountRead(w)
    <3>1. OtpTypeOK'  BY <2>4, OtpReadsTyped DEF OtpTypeOK, rows
    <3> QED  BY <2>3, <2>4, <3>1, FactsReads
  <2>5. CASE CapAdd(w)
    BY <2>3, <2>5, OtpRowsTyped, CapAddFacts DEF Facts
  <2>6. CASE OtpDelete(w) \/ OtpInsert(w)
    BY <2>3, <2>6, OtpRowsTyped, SendFacts DEF Facts
  <2>7. CASE AttemptSave(w) \/ CodeDelete(w) \/ TokenInsert(w)
    BY <2>3, <2>7, OtpRowsTyped, CodeFacts DEF Facts
  <2>8. CASE WrongCode(w) \/ RightCode(w)
    <3>1. PICK c : c = Latest(otpJob[w].phone)  OBVIOUS
    <3>2. OtpTypeOK'
      BY <2>8, <3>1, CompareTyped DEF WrongCode, RightCode
    <3> QED  BY <2>3, <2>8, <3>2, CompareFacts
  <2>9. CASE AccountInsert(w)
    BY <2>1, <2>3, <2>9, OtpUsersTyped, AccountFacts
  <2>10. CASE PhoneUpdate(w)
    BY <2>1, <2>3, <2>10, OtpUsersTyped, PhoneUpdateFacts
  <2> QED  BY <1>2, <2>4, <2>5, <2>6, <2>7, <2>8, <2>9, <2>10 DEF OtpContinue
<1>3. ASSUME NEW w \in Workers, OtpFails(w) PROVE Rest'
  BY <1>3, FactsFails, FactsReads
<1>4. CASE Clock
  <2>1. UNCHANGED serverVars
    BY <1>4 DEF Clock, CooldownEnds, Expires, Ages, WindowSlides, FifteenDays
  <2> QED
    BY <1>4, <2>1, ClockTyped, ClockFacts DEF ServerTypeOK, serverVars
<1>5. CASE UNCHANGED oVars
  BY <1>5 DEF oVars, otpVars, serverVars, ServerTypeOK, OtpTypeOK, Facts, Future,
     PhoneProved, CapInv, Adding, HeldOK, Holders, OtpAt
<1> QED  BY <1>1, <1>2, <1>3, <1>4, <1>5 DEF OtpNext

-----------------------------------------------------------------------------
(* Serial: while no two handlers have overlapped.                          *)

Counting(c) == \E w \in Workers :
  otpJob[w].pc \in {"attempt_save", "code_delete"} /\ otpJob[w].code = c
Winning(c) == \E w \in Workers : otpJob[w].pc \in Winners /\ otpJob[w].code = c

(* What a code's row shows of the guesses at it, but for the one that the  *)
(* running handler has yet to count, and of what it gave.                  *)
CodeOK(c) ==
  /\ otps[c].tries <= MaxAttempts + faults
  /\ otps[c].row /\ ~Counting(c) => otps[c].tries <= otps[c].attempts + faults
  /\ otps[c].bought <= 1 /\ (otps[c].row => otps[c].bought = 0)
  /\ faults = 0 /\ ~Winning(c) => otps[c].wins = otps[c].bought

(* What the running handler knows that nobody else can change.             *)
SoloOK(w) ==
  LET h == otpJob[w] IN
    /\ h.pc = "otp_insert" =>
         \A c \in Codes : otps[c].row => otps[c].phone # h.phone
    /\ h.pc \in {"attempt_save", "code_delete"} =>
         /\ otps[h.code].row /\ otps[h.code].attempts = h.attempts
         /\ otps[h.code].tries <= h.attempts + 1 + faults
    /\ h.pc \in Winners \ {"code_delete"} =>
         ~otps[h.code].row /\ otps[h.code].bought = 0
    /\ h.pc \in Winners /\ faults = 0 =>
         otps[h.code].wins = otps[h.code].bought + 1
    /\ h.kind = "change" /\ h.pc \in {"code_read", "code_delete", "phone_update"} =>
         ~Registered(h.phone)
    /\ h.pc = "account_insert" => ~Registered(h.phone)

OneRow ==
  \A c, d \in Codes :
    otps[c].row /\ otps[d].row /\ otps[c].phone = otps[d].phone => c = d

Serial ==
  solo =>
    /\ \A v, w \in Workers : otpJob[v].pc # "idle" /\ otpJob[w].pc # "idle" => v = w
    /\ \A w \in Workers : otpJob[w].pc # "idle" => SoloOK(w)
    /\ \A c \in Codes : CodeOK(c)
    /\ OneRow

OtpInv == OtpCore /\ Serial

LEMMA FaultsTyped ==
  ASSUME ServerTypeOK
  PROVE  faults \in Nat
  BY ServerAssumption DEF ServerTypeOK

(* A step of the handler that runs alone.                                  *)
Solo(w) == solo /\ OtpInv /\ otpJob[w].pc # "idle" /\ Others(w) /\ UNCHANGED serverVars

LEMMA SoloFacts ==
  ASSUME NEW w \in Workers, Solo(w)
  PROVE  /\ OtpTypeOK /\ Facts /\ HeldOK(w) /\ SoloOK(w) /\ OneRow
         /\ otpJob[w] \in OtpJob /\ otpJob[w].phone \in Phones
         /\ faults \in Nat /\ faults' = faults /\ solo' = solo
         /\ \A x \in Workers \ {w} : otpJob[x].pc = "idle" /\ otpJob'[x].pc = "idle"
         /\ \A c \in Codes :
              /\ otps[c] \in Otp /\ CodeOK(c)
              /\ Counting(c) <=> otpJob[w].pc \in {"attempt_save", "code_delete"}
                                 /\ otpJob[w].code = c
              /\ Counting(c)' <=> otpJob'[w].pc \in {"attempt_save", "code_delete"}
                                  /\ otpJob'[w].code = c
              /\ Winning(c) <=> otpJob[w].pc \in Winners /\ otpJob[w].code = c
              /\ Winning(c)' <=> otpJob'[w].pc \in Winners /\ otpJob'[w].code = c
<1>1. OtpTypeOK /\ Facts /\ HeldOK(w) /\ SoloOK(w) /\ OneRow /\ ServerTypeOK
      /\ \A c \in Codes : CodeOK(c)
  BY DEF Solo, OtpInv, OtpCore, Serial, Facts
<1>2. otpJob[w] \in OtpJob /\ \A c \in Codes : otps[c] \in Otp
  BY <1>1 DEF OtpTypeOK
<1>3. otpJob[w].phone \in Phones /\ faults \in Nat
  BY <1>1, <1>2, OtpJobTyped, FaultsTyped
<1>4. faults' = faults /\ solo' = solo  BY DEF Solo, serverVars
<1>5. \A x \in Workers \ {w} : otpJob[x].pc = "idle" /\ otpJob'[x].pc = "idle"
  BY DEF Solo, OtpInv, Serial, Others
<1>6. ASSUME NEW c \in Codes
      PROVE  /\ Counting(c) <=> otpJob[w].pc \in {"attempt_save", "code_delete"}
                                /\ otpJob[w].code = c
             /\ Counting(c)' <=> otpJob'[w].pc \in {"attempt_save", "code_delete"}
                                 /\ otpJob'[w].code = c
             /\ Winning(c) <=> otpJob[w].pc \in Winners /\ otpJob[w].code = c
             /\ Winning(c)' <=> otpJob'[w].pc \in Winners /\ otpJob'[w].code = c
  BY <1>5 DEF Counting, Winning, Winners
<1> QED  BY <1>1, <1>2, <1>3, <1>4, <1>5, <1>6

LEMMA SoloSerial ==
  ASSUME NEW w \in Workers, Solo(w), OneRow', \A c \in Codes : CodeOK(c)',
         otpJob'[w].pc # "idle" => SoloOK(w)'
  PROVE  Serial'
<1>1. \A x \in Workers \ {w} : otpJob'[x].pc = "idle"  BY SoloFacts
<1> QED  BY <1>1 DEF Serial

(* A code that the step leaves alone.                                      *)
LEMMA CodeLeft ==
  ASSUME NEW w \in Workers, Solo(w), NEW c \in Codes, otps'[c] = otps[c],
         Counting(c) => Counting(c)', Winning(c) => Winning(c)'
  PROVE  CodeOK(c)'
  BY SoloFacts DEF CodeOK

(* Reads, and the cap.                                                     *)
LEMMA SerialReads ==
  ASSUME NEW w \in Workers, Solo(w), UNCHANGED <<otps, users>>,
         otpJob[w].pc \notin Winners \union {"attempt_save"},
         otpJob'[w].pc \notin Winners \union {"attempt_save", "otp_insert"},
         otpJob'[w].pc = "code_read" /\ otpJob'[w].kind = "change"
           => ~Registered(otpJob'[w].phone)
  PROVE  Serial'
<1>1. OneRow'  BY SoloFacts DEF OneRow
<1>2. ASSUME NEW c \in Codes PROVE CodeOK(c)'
  BY SoloFacts, CodeLeft DEF Winners
<1>3. SoloOK(w)'  BY DEF SoloOK, Winners, Registered, Holders
<1> QED  BY <1>1, <1>2, <1>3, SoloSerial

LEMMA SerialGoto ==
  ASSUME NEW w \in Workers, Solo(w),
         \/ TakenRead(w) \/ CapRead(w) \/ RequestUser(w) \/ OtpRead(w)
         \/ CodeRefused(w) \/ CapAdd(w)
  PROVE  Serial'
<1> USE SoloFacts
<1>1. UNCHANGED <<otps, users>>
  BY DEF TakenRead, CapRead, RequestUser, OtpRead, CodeRefused, CapAdd, rows
<1>2. PICK pc \in {"code_read", "cap_read", "cap_add", "otp_read", "request_user",
                   "otp_delete"} :
        /\ OtpFinish(w) \/ OtpGoto(w, pc)
        /\ pc = "code_read" /\ OtpGoto(w, pc) /\ ~OtpFinish(w) =>
             ~Registered(otpJob[w].phone)
  <2>1. CASE TakenRead(w)  BY <2>1 DEF TakenRead
  <2>2. CASE ~TakenRead(w)
    BY <2>2 DEF CapRead, RequestUser, OtpRead, CodeRefused, CapAdd
  <2> QED  BY <2>1, <2>2
<1>3. /\ otpJob'[w].pc \in {"idle", pc}
      /\ otpJob'[w].pc # "idle" => otpJob'[w] = [otpJob[w] EXCEPT !.pc = pc]
  BY <1>2, GotoHeld DEF OtpPcs, Winners
<1>4. otpJob'[w].pc # "idle" => ~OtpFinish(w) /\ OtpGoto(w, pc)
  BY <1>2, OtpIdleTyped DEF OtpFinish, OtpTypeOK
<1>5. otpJob'[w].pc = "code_read" => ~Registered(otpJob'[w].phone)
  BY <1>2, <1>3, <1>4 DEF OtpJob
<1>6. otpJob[w].pc \notin Winners \union {"attempt_save"}
  BY DEF TakenRead, CapRead, RequestUser, OtpRead, CodeRefused, CapAdd, OtpAt, Winners
<1>7. otpJob'[w].pc \notin Winners \union {"attempt_save", "otp_insert"}
  BY <1>2, <1>3 DEF Winners
<1> QED  BY <1>1, <1>5, <1>6, <1>7, SerialReads

LEMMA SerialSend ==
  ASSUME NEW w \in Workers, Solo(w), OtpDelete(w) \/ OtpInsert(w)
  PROVE  Serial'
<1>0. /\ otpJob[w].pc \notin Winners \union {"attempt_save"}
      /\ otpJob'[w].pc \in {"otp_insert", "idle"}
      /\ otpJob'[w].pc = "otp_insert" =>
           OtpDelete(w) /\ otpJob'[w].phone = otpJob[w].phone
  <2>1. CASE OtpDelete(w)
    <3>1. otpJob'[w] = [otpJob[w] EXCEPT !.pc = "otp_insert"]
      BY <2>1, SoloFacts DEF OtpDelete, OtpGoto, OtpTypeOK
    <3> QED  BY <2>1, <3>1, SoloFacts DEF OtpDelete, OtpAt, Winners, OtpJob
  <2>2. CASE OtpInsert(w)
    BY <2>2, SoloFacts, OtpIdleTyped
    DEF OtpInsert, OtpFinish, OtpAt, OtpTypeOK, Winners
  <2> QED  BY <2>1, <2>2
<1>1. \A c \in Codes : ~Counting(c) /\ ~Winning(c)
                       /\ ~Counting(c)' /\ ~Winning(c)'
  BY <1>0, SoloFacts DEF Winners
<1>2. CASE OtpDelete(w)
  <2>1. ASSUME NEW c \in Codes
        PROVE  /\ otps'[c].phone = otps[c].phone /\ otps'[c].wins = otps[c].wins
               /\ otps'[c].tries = otps[c].tries /\ otps'[c].bought = otps[c].bought
               /\ otps'[c].attempts = otps[c].attempts
               /\ otps'[c].row => otps[c].row /\ otps[c].phone # otpJob[w].phone
    <3>1. otps[c] \in Otp  BY SoloFacts
    <3> QED  BY <1>2, <3>1 DEF OtpDelete, Otp
  <2>2. OneRow'  BY <2>1, SoloFacts DEF OneRow
  <2>3. ASSUME NEW c \in Codes PROVE CodeOK(c)'
    BY <1>1, <2>1, SoloFacts DEF CodeOK
  <2>4. SoloOK(w)'  BY <1>0, <1>2, <2>1 DEF SoloOK, Winners
  <2> QED  BY <2>2, <2>3, <2>4, SoloSerial
<1>3. CASE OtpInsert(w)
  <2>1. PICK n : n = issued + 1  OBVIOUS
  <2>2. n \in Codes
    BY <1>3, <2>1, SoloFacts, OtpAssumption DEF OtpInsert, OtpTypeOK, Codes
  <2>3. otps'[n] = [Unissued EXCEPT !.phone = otpJob[w].phone, !.row = TRUE,
                                    !.age = "fresh"]
        /\ \A c \in Codes \ {n} : otps'[c] = otps[c]
    BY <1>3, <2>1, <2>2, SoloFacts DEF OtpInsert, OtpTypeOK
  <2>4. /\ otps'[n].phone = otpJob[w].phone /\ otps'[n].tries = 0
        /\ otps'[n].wins = 0 /\ otps'[n].bought = 0 /\ otps'[n].attempts = 0
    BY <2>3 DEF Unissued
  <2>5. otpJob[w].pc = "otp_insert"  BY <1>3 DEF OtpInsert, OtpAt
  <2>6. OneRow'
    <3>1. ASSUME NEW c \in Codes \ {n}, otps'[c].row
          PROVE  otps'[c].phone # otps'[n].phone
      <4>1. SoloOK(w)  BY SoloFacts
      <4> QED  BY <2>3, <2>4, <2>5, <3>1, <4>1 DEF SoloOK
    <3>2. ASSUME NEW c \in Codes \ {n}, NEW d \in Codes \ {n}, otps'[c].row,
                 otps'[d].row, otps'[c].phone = otps'[d].phone
          PROVE  c = d
      BY <2>3, <3>2, SoloFacts DEF OneRow
    <3> HIDE DEF OneRow
    <3> QED  BY <3>1, <3>2 DEF OneRow
  <2>7. ASSUME NEW c \in Codes PROVE CodeOK(c)'
    <3>1. CASE c = n  BY <2>4, <3>1, SoloFacts, OtpAssumption DEF CodeOK
    <3>2. CASE c # n  BY <1>1, <2>3, <3>2, CodeLeft
    <3> QED  BY <3>1, <3>2
  <2>8. otpJob'[w].pc = "idle"
    BY <1>3, SoloFacts, OtpIdleTyped DEF OtpInsert, OtpFinish, OtpTypeOK
  <2> QED  BY <2>6, <2>7, <2>8, SoloSerial
<1> QED  BY <1>2, <1>3

LEMMA SerialCompare ==
  ASSUME NEW w \in Workers, Solo(w), WrongCode(w) \/ RightCode(w)
  PROVE  Serial'
<1>1. PICK pc \in {"attempt_save", "code_delete"}, right \in BOOLEAN :
        Compare(w, right, pc) /\ (right <=> pc = "code_delete")
  <2>1. CASE WrongCode(w)
    <3>1. Compare(w, FALSE, "attempt_save")  BY <2>1 DEF WrongCode
    <3> QED  BY <3>1
  <2>2. CASE RightCode(w)
    <3>1. Compare(w, TRUE, "code_delete")  BY <2>2 DEF RightCode
    <3> QED  BY <3>1
  <2> QED  BY <2>1, <2>2
<1>2. PICK c : c = Latest(otpJob[w].phone)  OBVIOUS
<1>3. /\ c \in Unexpired(otpJob[w].phone) /\ c \in Codes /\ ~Exhausted(c)
      /\ otpJob'[w].pc = pc /\ otpJob'[w].code = c
      /\ otpJob'[w].attempts = otps[c].attempts
      /\ otpJob'[w].phone = otpJob[w].phone /\ otpJob'[w].kind = otpJob[w].kind
      /\ otps'[c].phone = otps[c].phone /\ otps'[c].row = otps[c].row
      /\ otps'[c].attempts = otps[c].attempts /\ otps'[c].bought = otps[c].bought
      /\ otps'[c].tries = otps[c].tries + 1
      /\ right => otps'[c].wins = otps[c].wins + 1
      /\ ~right => otps'[c].wins = otps[c].wins
      /\ \A d \in Codes \ {c} : otps'[d] = otps[d]
  <2>1. Compare(w, right, pc) /\ OtpTypeOK  BY <1>1, SoloFacts
  <2> QED  BY <1>2, <2>1, CompareTyped
<1>4. UNCHANGED users /\ otpJob[w].pc = "code_read"  BY <1>1 DEF Compare, OtpAt
<1>5. /\ otps[c].attempts < MaxAttempts /\ otps[c].attempts \in Nat
      /\ otps[c].tries \in Nat /\ otps[c].bought \in Nat /\ otps[c].wins \in Nat
  <2>1. otps[c] \in Otp  BY <1>3, SoloFacts
  <2>2. otps[c].attempts \in 0 .. MaxAttempts  BY <2>1, OtpTyped
  <2> QED  BY <1>3, <2>1, <2>2, OtpTyped, OtpAssumption DEF Exhausted
<1>6. \A d \in Codes : ~Counting(d) /\ ~Winning(d)
  BY <1>4, SoloFacts DEF Winners
<1>7. otps[c].row /\ CodeOK(c)  BY <1>3, SoloFacts DEF Unexpired
<1>8. /\ otps[c].tries <= otps[c].attempts + faults /\ otps[c].bought = 0
      /\ faults = 0 => otps[c].wins = 0
  BY <1>3, <1>6, <1>7 DEF CodeOK
<1>9. OneRow'
  <2>1. \A d \in Codes : otps'[d].row = otps[d].row /\ otps'[d].phone = otps[d].phone
    BY <1>3
  <2> QED  BY <2>1, SoloFacts DEF OneRow
<1>10. ASSUME NEW d \in Codes PROVE CodeOK(d)'
  <2>1. CASE d = c
    <3>1. otps'[c].tries <= MaxAttempts + faults'
      BY <1>3, <1>5, <1>8, SoloFacts, OtpAssumption
    <3>2. Counting(c)'  BY <1>3, SoloFacts
    <3>3. ~Winning(c)' => ~right
      BY <1>1, <1>3, SoloFacts DEF Winners
    <3>4. otps'[c].bought = 0 /\ (faults' = 0 /\ ~Winning(c)' => otps'[c].wins = 0)
      BY <1>3, <1>8, <3>3, SoloFacts
    <3> QED  BY <2>1, <3>1, <3>2, <3>4 DEF CodeOK
  <2>2. CASE d # c  BY <1>3, <1>6, <2>2, CodeLeft
  <2> QED  BY <2>1, <2>2
<1>11. SoloOK(w)'
  <2>1. otpJob[w].kind = "change" => ~Registered(otpJob[w].phone)
    BY <1>4, SoloFacts DEF SoloOK
  <2>2. ~Registered(otpJob[w].phone) => ~(Registered(otpJob[w].phone)')
    BY <1>3, <1>4 DEF Registered, Holders
  <2>3. otps'[c].tries <= otpJob'[w].attempts + 1 + faults'
    BY <1>3, <1>5, <1>8, SoloFacts
  <2>4. pc \in Winners /\ faults' = 0 => otps'[c].wins = otps'[c].bought + 1
    BY <1>1, <1>3, <1>5, <1>8, SoloFacts DEF Winners
  <2> QED
    BY <1>1, <1>3, <1>7, <2>1, <2>2, <2>3, <2>4 DEF SoloOK, Winners
<1> QED  BY <1>9, <1>10, <1>11, SoloSerial

LEMMA SerialSave ==
  ASSUME NEW w \in Workers, Solo(w), AttemptSave(w)
  PROVE  Serial'
<1>1. PICK c : c = otpJob[w].code  OBVIOUS
<1>2. /\ otps'[c].phone = otps[c].phone /\ otps'[c].wins = otps[c].wins
      /\ otps'[c].tries = otps[c].tries /\ otps'[c].bought = otps[c].bought
      /\ otps'[c].row = TRUE /\ otps'[c].attempts = otpJob[w].attempts + 1
      /\ \A d \in Codes \ {c} : otps'[d] = otps[d]
      /\ c \in Codes
  <2>1. OtpTypeOK /\ Facts  BY SoloFacts
  <2> QED  BY <1>1, <2>1, SavedShape
<1>3. otpJob[w].pc = "attempt_save" /\ otpJob'[w].pc = "idle"
  BY SoloFacts, OtpIdleTyped DEF AttemptSave, OtpAt, OtpFinish, OtpTypeOK
<1>4. otps[c].row /\ otps[c].tries <= otpJob[w].attempts + 1 + faults
  BY <1>1, <1>3, SoloFacts DEF SoloOK
<1>5. OneRow'
  <2>1. \A d \in Codes : otps'[d].row = otps[d].row /\ otps'[d].phone = otps[d].phone
    BY <1>2, <1>4, SoloFacts, OtpTyped
  <2> QED  BY <2>1, SoloFacts DEF OneRow
<1>6. ASSUME NEW d \in Codes PROVE CodeOK(d)'
  <2>1. CASE d = c
    <3>1. CodeOK(c) /\ ~Winning(c)  BY <1>2, <1>3, SoloFacts DEF Winners
    <3> QED  BY <1>2, <1>4, <2>1, <3>1, SoloFacts DEF CodeOK
  <2>2. CASE d # c
    <3>1. ~Counting(d) /\ ~Winning(d)  BY <1>1, <1>3, <2>2, SoloFacts DEF Winners
    <3> QED  BY <1>2, <2>2, <3>1, CodeLeft
  <2> QED  BY <2>1, <2>2
<1> QED  BY <1>3, <1>5, <1>6, SoloSerial

LEMMA SerialDelete ==
  ASSUME NEW w \in Workers, Solo(w), CodeDelete(w)
  PROVE  Serial'
<1>1. PICK c : c = otpJob[w].code  OBVIOUS
<1>2. /\ otps'[c].phone = otps[c].phone /\ otps'[c].wins = otps[c].wins
      /\ otps'[c].tries = otps[c].tries /\ otps'[c].bought = otps[c].bought
      /\ otps'[c].row = FALSE
      /\ \A d \in Codes \ {c} : otps'[d] = otps[d]
      /\ c \in Codes
  <2>1. OtpTypeOK /\ Facts  BY SoloFacts
  <2> QED  BY <1>1, <2>1, DeletedShape
<1>3. PICK pc \in {"phone_update", "account_read"} :
        OtpGoto(w, pc) /\ (pc = "phone_update" => otpJob[w].kind = "change")
  BY DEF CodeDelete, AfterCode
<1>4. /\ otpJob[w].pc = "code_delete" /\ otpJob'[w].pc = pc /\ otpJob'[w].code = c
      /\ otpJob'[w].phone = otpJob[w].phone /\ otpJob'[w].kind = otpJob[w].kind
      /\ UNCHANGED users
  <2>1. otpJob'[w] = [otpJob[w] EXCEPT !.pc = pc]
    BY <1>3, SoloFacts DEF OtpGoto, OtpTypeOK
  <2> QED  BY <1>1, <2>1, SoloFacts DEF OtpJob, CodeDelete, OtpAt
<1>5. /\ otps[c].row /\ (faults = 0 => otps[c].wins = otps[c].bought + 1)
      /\ otpJob[w].kind = "change" => ~Registered(otpJob[w].phone)
  BY <1>1, <1>4, SoloFacts DEF SoloOK, Winners
<1>6. CodeOK(c) /\ otps[c].bought = 0  BY <1>2, <1>5, SoloFacts DEF CodeOK
<1>7. OneRow'
  <2>1. \A d \in Codes : (otps'[d].row => otps[d].row)
                         /\ otps'[d].phone = otps[d].phone
    BY <1>2
  <2> QED  BY <2>1, SoloFacts DEF OneRow
<1>8. ASSUME NEW d \in Codes PROVE CodeOK(d)'
  <2>1. CASE d = c
    <3>1. Winning(c)'  BY <1>2, <1>4, SoloFacts DEF Winners
    <3> QED  BY <1>2, <1>6, <2>1, <3>1, SoloFacts DEF CodeOK
  <2>2. CASE d # c
    <3>1. ~Counting(d) /\ ~Winning(d)  BY <1>1, <1>4, <2>2, SoloFacts DEF Winners
    <3> QED  BY <1>2, <2>2, <3>1, CodeLeft
  <2> QED  BY <2>1, <2>2
<1>9. SoloOK(w)'
  <2>1. ~Registered(otpJob[w].phone) => ~(Registered(otpJob[w].phone)')
    BY <1>4 DEF Registered, Holders
  <2>2. faults' = faults  BY SoloFacts
  <2> QED  BY <1>2, <1>4, <1>5, <1>6, <2>1, <2>2 DEF SoloOK, Winners
<1> QED  BY <1>7, <1>8, <1>9, SoloSerial

(* The session or the phone that the code is spent on.                     *)
LEMMA SerialBuy ==
  ASSUME NEW w \in Workers, Solo(w), Buy(w), otpJob'[w].pc = "idle",
         otpJob[w].pc \in Winners \ {"code_delete"}
  PROVE  Serial'
<1>1. PICK c : c = otpJob[w].code  OBVIOUS
<1>2. /\ otps'[c].phone = otps[c].phone /\ otps'[c].wins = otps[c].wins
      /\ otps'[c].tries = otps[c].tries /\ otps'[c].bought = otps[c].bought + 1
      /\ otps'[c].row = otps[c].row /\ otps'[c].attempts = otps[c].attempts
      /\ \A d \in Codes \ {c} : otps'[d] = otps[d]
      /\ c \in Codes
  BY <1>1, BoughtShape, SoloFacts
<1>3. /\ ~otps[c].row /\ otps[c].bought = 0
      /\ faults = 0 => otps[c].wins = otps[c].bought + 1
  BY <1>1, SoloFacts DEF SoloOK
<1>4. OneRow'  BY <1>2, SoloFacts DEF OneRow
<1>5. ASSUME NEW d \in Codes PROVE CodeOK(d)'
  <2>1. CASE d = c
    <3>1. CodeOK(c)  BY <1>2, SoloFacts
    <3> QED  BY <1>2, <1>3, <2>1, <3>1, SoloFacts DEF CodeOK
  <2>2. CASE d # c
    <3>1. ~Counting(d) /\ ~Winning(d)  BY <1>1, <2>2, SoloFacts DEF Winners
    <3> QED  BY <1>2, <2>2, <3>1, CodeLeft
  <2> QED  BY <2>1, <2>2
<1> QED  BY <1>4, <1>5, SoloSerial

LEMMA SerialAccount ==
  ASSUME NEW w \in Workers, Solo(w),
         AccountRead(w) \/ AccountInsert(w) \/ TokenInsert(w) \/ PhoneUpdate(w)
  PROVE  Serial'
<1> USE SoloFacts
<1>1. CASE AccountRead(w)
  <2>1. otpJob[w].pc = "account_read" /\ UNCHANGED <<otps, users>>
    BY <1>1 DEF AccountRead, OtpAt, rows
  <2>2. /\ otpJob'[w].pc \in {"account_insert", "token_insert"}
        /\ otpJob'[w].code = otpJob[w].code /\ otpJob'[w].phone = otpJob[w].phone
        /\ otpJob'[w].pc = "account_insert" => ~Registered(otpJob[w].phone)
    <3>1. CASE OtpGoto(w, "account_insert") /\ ~Registered(otpJob[w].phone)
      <4>1. otpJob'[w] = [otpJob[w] EXCEPT !.pc = "account_insert"]
        BY <3>1 DEF OtpGoto, OtpTypeOK
      <4> QED  BY <3>1, <4>1 DEF OtpJob
    <3>2. ASSUME NEW u \in Users,
                 otpJob' = [otpJob EXCEPT ![w].pc = "token_insert", ![w].user = u]
          PROVE  otpJob'[w].pc = "token_insert" /\ otpJob'[w].code = otpJob[w].code
                 /\ otpJob'[w].phone = otpJob[w].phone
      <4>1. otpJob'[w] = [otpJob[w] EXCEPT !.pc = "token_insert", !.user = u]
        BY <3>2 DEF OtpTypeOK
      <4> QED  BY <4>1 DEF OtpJob
    <3> QED  BY <1>1, <3>1, <3>2 DEF AccountRead, Holders
  <2>3. SoloOK(w)'
    BY <2>1, <2>2 DEF SoloOK, Winners, Registered, Holders
  <2>4. ASSUME NEW c \in Codes PROVE CodeOK(c)'
    <3>1. ~Counting(c) /\ (Winning(c) => Winning(c)')
      BY <2>1, <2>2 DEF Winners
    <3> QED  BY <2>1, <3>1, CodeLeft
  <2>5. OneRow'  BY <2>1 DEF OneRow
  <2> QED  BY <2>3, <2>4, <2>5, SoloSerial
<1>2. CASE AccountInsert(w)
  <2>1. otpJob[w].pc = "account_insert" /\ UNCHANGED otps
    BY <1>2 DEF AccountInsert, OtpAt
  <2>2. UniquePhone(otpJob[w].phone, NoUser)
    BY <2>1 DEF SoloOK, Registered, UniquePhone
  <2>3. PICK u \in Users :
          otpJob' = [otpJob EXCEPT ![w].pc = "token_insert", ![w].user = u]
    BY <1>2, <2>2 DEF AccountInsert, Holders
  <2>4. /\ otpJob'[w].pc = "token_insert" /\ otpJob'[w].code = otpJob[w].code
    <3>1. otpJob'[w] = [otpJob[w] EXCEPT !.pc = "token_insert", !.user = u]
      BY <2>3 DEF OtpTypeOK
    <3> QED  BY <3>1 DEF OtpJob
  <2>5. SoloOK(w)'  BY <2>1, <2>4 DEF SoloOK, Winners
  <2>6. ASSUME NEW c \in Codes PROVE CodeOK(c)'
    <3>1. ~Counting(c) /\ (Winning(c) => Winning(c)')
      BY <2>1, <2>4 DEF Winners
    <3> QED  BY <2>1, <3>1, CodeLeft
  <2>7. OneRow'  BY <2>1 DEF OneRow
  <2> QED  BY <2>5, <2>6, <2>7, SoloSerial
<1>3. CASE TokenInsert(w)
  BY <1>3, SerialBuy, OtpIdleTyped
  DEF TokenInsert, OtpAt, Winners, OtpFinish, OtpTypeOK
<1>4. CASE PhoneUpdate(w)
  <2>1. otpJob[w].pc = "phone_update" /\ otpJob'[w].pc = "idle"
    BY <1>4, OtpIdleTyped DEF PhoneUpdate, OtpAt, OtpFinish, OtpTypeOK
  <2>2. ~Registered(otpJob[w].phone)
    BY <2>1 DEF SoloOK, HeldOK
  <2>3. Buy(w)  BY <1>4, <2>2 DEF PhoneUpdate, UniquePhone, Registered
  <2> QED  BY <2>1, <2>3, SerialBuy DEF Winners
<1> QED  BY <1>1, <1>2, <1>3, <1>4

LEMMA SerialStart ==
  ASSUME OtpInv, NEW w \in Workers, OtpStart(w)
  PROVE  Serial'
<1> USE DEF OtpInv, OtpCore
<1>1. PICK pc, kind, verify, u :
        \E p \in Phones : Starts(w, pc, kind, verify, p, u)
  BY StartShape
<1>2. PICK p \in Phones : Starts(w, pc, kind, verify, p, u)  BY <1>1
<1>3. /\ Others(w) /\ UNCHANGED rows /\ UNCHANGED faults
      /\ otpJob'[w].pc = pc /\ otpJob'[w].kind = kind
      /\ solo' => solo /\ Busy(otpJob) = {}
  BY <1>2, EnterShape DEF Starts, OtpEnter, Enter, ServerTypeOK
<1>4. SUFFICES ASSUME solo'
               PROVE  /\ \A v, x \in Workers : otpJob'[v].pc # "idle"
                                               /\ otpJob'[x].pc # "idle" => v = x
                      /\ \A x \in Workers : otpJob'[x].pc # "idle" => SoloOK(x)'
                      /\ \A c \in Codes : CodeOK(c)'
                      /\ OneRow'
  BY DEF Serial
<1>5. \A x \in Workers : otpJob[x].pc = "idle"  BY <1>3, <1>4 DEF Busy
<1>6. \A x \in Workers \ {w} : otpJob'[x].pc = "idle"  BY <1>3, <1>5 DEF Others
<1>7. pc \in {"cap_add", "code_read", "taken_read"} /\ (pc = "code_read" => kind # "change")
  BY <1>2 DEF Starts
<1>8. SoloOK(w)'  BY <1>3, <1>7 DEF SoloOK, Winners
<1>9. ASSUME NEW c \in Codes PROVE CodeOK(c)'
  <2>1. ~Counting(c) /\ ~Winning(c)  BY <1>5 DEF Counting, Winning, Winners
  <2> QED  BY <1>3, <1>4, <2>1 DEF Serial, CodeOK, rows
<1>10. OneRow'  BY <1>3, <1>4 DEF Serial, OneRow, rows
<1> QED  BY <1>6, <1>8, <1>9, <1>10

LEMMA SerialFails ==
  ASSUME OtpInv, NEW w \in Workers, OtpFails(w)
  PROVE  Serial'
<1> USE DEF OtpInv, OtpCore
<1>1. /\ UNCHANGED rows /\ UNCHANGED solo /\ faults' = faults + 1
      /\ otpJob[w].pc # "idle" /\ otpJob'[w].pc = "idle" /\ Others(w)
  BY OtpIdleTyped DEF OtpFails, Fault, OtpFinish, OtpTypeOK, Others, OtpAt
<1>2. SUFFICES ASSUME solo
               PROVE  /\ \A x \in Workers : otpJob'[x].pc = "idle"
                      /\ \A c \in Codes : CodeOK(c)'
                      /\ OneRow'
  BY <1>1 DEF Serial
<1>3. \A x \in Workers \ {w} : otpJob[x].pc = "idle" /\ otpJob'[x].pc = "idle"
  BY <1>1, <1>2 DEF Serial, Others
<1>4. faults \in Nat  BY FaultsTyped
<1>5. ASSUME NEW c \in Codes PROVE CodeOK(c)'
  <2>1. CodeOK(c) /\ SoloOK(w) /\ otps[c] \in Otp
    BY <1>1, <1>2 DEF Serial, OtpTypeOK
  <2>2. otps[c].tries \in Nat /\ otps[c].attempts \in Nat
    BY <2>1, OtpTyped, OtpAssumption
  <2>3. otps'[c].row => otps'[c].tries <= otps'[c].attempts + faults'
    <3>1. CASE Counting(c)
      <4>1. otpJob[w].pc \in {"attempt_save", "code_delete"} /\ otpJob[w].code = c
        BY <1>3, <3>1 DEF Counting
      <4>2. otps[c].tries <= otps[c].attempts + 1 + faults
        BY <2>1, <4>1 DEF SoloOK
      <4> QED  BY <1>1, <1>4, <2>2, <4>2 DEF rows
    <3>2. CASE ~Counting(c)
      BY <1>1, <1>4, <2>1, <2>2, <3>2 DEF CodeOK, rows
    <3> QED  BY <3>1, <3>2
  <2> QED  BY <1>1, <1>4, <2>1, <2>2, <2>3, OtpAssumption DEF CodeOK, rows
<1>6. OneRow'  BY <1>1, <1>2 DEF Serial, OneRow, rows
<1> QED  BY <1>1, <1>3, <1>5, <1>6

LEMMA SerialClock ==
  ASSUME OtpInv, Clock
  PROVE  Serial'
<1> USE DEF OtpInv, OtpCore
<1>1. ASSUME UNCHANGED <<otpJob, serverVars>>,
             \A c \in Codes :
               /\ otps'[c].phone = otps[c].phone /\ otps'[c].wins = otps[c].wins
               /\ otps'[c].tries = otps[c].tries /\ otps'[c].bought = otps[c].bought
               /\ otps'[c].row = otps[c].row /\ otps'[c].attempts = otps[c].attempts,
             SamePhones
      PROVE  Serial'
  <2>1. SUFFICES ASSUME solo
                 PROVE  /\ \A v, w \in Workers : otpJob[v].pc # "idle"
                                                 /\ otpJob[w].pc # "idle" => v = w
                        /\ \A w \in Workers : otpJob[w].pc # "idle" => SoloOK(w)'
                        /\ \A c \in Codes : CodeOK(c)'
                        /\ OneRow'
    BY <1>1 DEF Serial, serverVars
  <2>2. ASSUME NEW w \in Workers, otpJob[w].pc # "idle" PROVE SoloOK(w)'
    <3>1. SoloOK(w) /\ HeldOK(w)  BY <2>1, <2>2 DEF Serial, Facts
    <3>2. \A p : Registered(p)' <=> Registered(p)
      BY <1>1 DEF Registered, Holders, SamePhones
    <3> QED  BY <1>1, <3>1, <3>2 DEF SoloOK, HeldOK, Winners, serverVars
  <2>3. ASSUME NEW c \in Codes PROVE CodeOK(c)'
    BY <1>1, <2>1 DEF Serial, CodeOK, Counting, Winning, serverVars
  <2>4. OneRow'  BY <1>1, <2>1 DEF Serial, OneRow
  <2> QED  BY <2>1, <2>2, <2>3, <2>4 DEF Serial
<1>2. ASSUME NEW c \in Codes, CooldownEnds(c) \/ Expires(c) PROVE Serial'
  <2>1. /\ otps'[c].phone = otps[c].phone /\ otps'[c].wins = otps[c].wins
        /\ otps'[c].tries = otps[c].tries /\ otps'[c].bought = otps[c].bought
        /\ otps'[c].row = otps[c].row /\ otps'[c].attempts = otps[c].attempts
        /\ \A d \in Codes \ {c} : otps'[d] = otps[d]
        /\ UNCHANGED <<issued, users, window, otpJob, serverVars>>
    BY <1>2, AgesShape
  <2> QED  BY <1>1, <2>1 DEF SamePhones
<1>3. ASSUME NEW p \in Phones, WindowSlides(p) PROVE Serial'
  BY <1>1, <1>3 DEF WindowSlides, SamePhones
<1>4. CASE FifteenDays
  <2>1. SamePhones  BY <1>4 DEF FifteenDays, SamePhones, OtpTypeOK, User
  <2> QED  BY <1>1, <1>4, <2>1 DEF FifteenDays
<1> QED  BY <1>2, <1>3, <1>4 DEF Clock

LEMMA OtpInvInit ==
  ASSUME ServerTypeOK, OtpInit
  PROVE  OtpInv
<1> USE OtpIdleTyped, OtpAssumption
<1>1. OtpCore  BY CoreInit
<1>2. PICK first : first = [Unissued EXCEPT !.phone = FirstPhone, !.tries = 1,
                                            !.wins = 1, !.bought = 1]
  OBVIOUS
<1>3. /\ first.tries = 1 /\ first.wins = 1 /\ first.bought = 1
      /\ first.row = FALSE
  BY <1>2 DEF Unissued
<1>4. otps = [c \in Codes |-> IF c = 1 THEN first ELSE Unissued] /\ faults \in Nat
  BY <1>2, ServerAssumption DEF OtpInit, ServerTypeOK
<1>5. ASSUME NEW c \in Codes PROVE CodeOK(c)
  <2>1. /\ otps[c].tries <= 1 /\ otps[c].row = FALSE /\ otps[c].bought <= 1
        /\ otps[c].wins = otps[c].bought /\ otps[c].tries \in Nat
    <3>1. CASE c = 1  BY <1>3, <1>4, <3>1
    <3>2. CASE c # 1
      <4>1. otps[c] = Unissued  BY <1>4, <3>2
      <4> QED  BY <4>1 DEF Unissued
    <3> QED  BY <3>1, <3>2
  <2> QED  BY <1>4, <2>1 DEF CodeOK
<1>6. OneRow  BY <1>3, <1>4 DEF OneRow
<1>7. Serial  BY <1>5, <1>6 DEF Serial, OtpInit
<1> QED  BY <1>1, <1>7 DEF OtpInv

LEMMA OtpInvStep ==
  ASSUME OtpInv, [OtpNext]_oVars
  PROVE  OtpInv'
<1>1. OtpCore'  BY CoreStep DEF OtpInv
<1>2. ASSUME NEW w \in Workers, OtpStart(w) PROVE Serial'  BY <1>2, SerialStart
<1>3. ASSUME NEW w \in Workers, OtpContinue(w) PROVE Serial'
  <2>1. UNCHANGED serverVars /\ otpJob[w].pc # "idle" /\ Others(w)
    BY <1>3 DEF OtpContinue, TakenRead, CapRead, CapAdd, RequestUser, OtpRead,
       OtpDelete, OtpInsert, CodeRefused, WrongCode, RightCode, Compare, AttemptSave,
       CodeDelete, AccountRead, AccountInsert, TokenInsert, PhoneUpdate, OtpAt,
       OtpGoto, OtpFinish, Others, OtpInv, OtpCore, OtpTypeOK
  <2>2. CASE ~solo  BY <2>1, <2>2 DEF Serial, serverVars
  <2>3. CASE solo
    <3>1. Solo(w)  BY <2>1, <2>3 DEF Solo
    <3>2. CASE \/ TakenRead(w) \/ CapRead(w) \/ RequestUser(w) \/ OtpRead(w)
               \/ CodeRefused(w) \/ CapAdd(w)
      BY <3>1, <3>2, SerialGoto
    <3>3. CASE OtpDelete(w) \/ OtpInsert(w)  BY <3>1, <3>3, SerialSend
    <3>4. CASE WrongCode(w) \/ RightCode(w)  BY <3>1, <3>4, SerialCompare
    <3>5. CASE AttemptSave(w) \/ CodeDelete(w)
      BY <3>1, <3>5, SerialSave, SerialDelete
    <3>6. CASE AccountRead(w) \/ AccountInsert(w) \/ TokenInsert(w) \/ PhoneUpdate(w)
      BY <3>1, <3>6, SerialAccount
    <3> QED  BY <1>3, <3>2, <3>3, <3>4, <3>5, <3>6 DEF OtpContinue
  <2> QED  BY <2>2, <2>3
<1>4. ASSUME NEW w \in Workers, OtpFails(w) PROVE Serial'  BY <1>4, SerialFails
<1>5. CASE Clock  BY <1>1, <1>5, SerialClock DEF OtpInv
<1>6. CASE UNCHANGED oVars
  BY <1>1, <1>6 DEF oVars, otpVars, serverVars, OtpInv, Serial, SoloOK, CodeOK, OneRow,
     Counting, Winning, Registered, Holders
<1> QED  BY <1>1, <1>2, <1>3, <1>4, <1>5, <1>6 DEF OtpNext, OtpInv

LEMMA OtpInvariant == OtpSpec => []OtpInv
<1>1. ServerInit /\ OtpInit => OtpInv
  BY OtpInvInit, ServerAssumption DEF ServerInit, ServerTypeOK
<1>2. OtpInv /\ [OtpNext]_oVars => OtpInv'  BY OtpInvStep
<1> QED  BY <1>1, <1>2, PTL DEF OtpSpec, oVars

(* What the invariant gives.                                               *)
LEMMA OtpPromises ==
  ASSUME OtpInv
  PROVE  /\ ServerTypeOK /\ OtpTypeOK
         /\ PhoneProved /\ CapHolds /\ GivenForRightCode
         /\ GuessesBounded /\ CodeUsedOnce /\ SpentCodeBuys /\ OneCodePerPhone
<1>1. ServerTypeOK /\ OtpTypeOK /\ PhoneProved
  BY DEF OtpInv, OtpCore, Facts
<1>2. CapHolds
  <2>1. SUFFICES ASSUME NEW p \in Phones
                 PROVE  window[p] + 1 <= HourlyCap + Cardinality(Workers)
    BY DEF CapHolds
  <2>2. /\ window[p] \in Nat /\ Cardinality(Adding(p)) \in Nat
        /\ Cardinality(Workers) \in Nat
        /\ window[p] + Cardinality(Adding(p)) + 1 <= HourlyCap + Cardinality(Workers)
    BY AddingSets DEF OtpInv, OtpCore, OtpTypeOK, Facts, CapInv
  <2> QED  BY <2>2, OtpAssumption
<1>3. GuessesBounded  BY DEF OtpInv, Serial, CodeOK, GuessesBounded
<1>4. CodeUsedOnce  BY DEF OtpInv, Serial, CodeOK, CodeUsedOnce
<1>5. SpentCodeBuys
  <2>1. SUFFICES ASSUME solo, faults = 0, OtpQuiet, NEW c \in Codes
                 PROVE  otps[c].wins = otps[c].bought
    BY DEF SpentCodeBuys
  <2>2. CodeOK(c) /\ ~Winning(c)
    BY <2>1 DEF OtpInv, Serial, OtpQuiet, OtpAt, Winning, Winners
  <2> QED  BY <2>1, <2>2 DEF CodeOK
<1>6. OneCodePerPhone  BY DEF OtpInv, Serial, OneRow, OneCodePerPhone
<1>7. GivenForRightCode
  <2>1. SUFFICES ASSUME NEW c \in Codes PROVE otps[c].bought <= otps[c].wins
    BY DEF GivenForRightCode
  <2>2. /\ otps[c].bought \in Nat /\ otps[c].wins \in Nat
        /\ Cardinality(Paying(c)) \in Nat
        /\ otps[c].bought + Cardinality(Paying(c)) <= otps[c].wins
    BY PayingSets, OtpTyped DEF OtpInv, OtpCore, OtpTypeOK, PaidInv
  <2> QED  BY <2>2
<1> QED  BY <1>1, <1>2, <1>3, <1>4, <1>5, <1>6, <1>7

-----------------------------------------------------------------------------
(* The rows and what the handlers hold keep their types: in particular no  *)
(* row shows more attempts than the maximum, however guesses interleave.   *)
THEOREM OtpTypeCorrect == OtpSpec => [](ServerTypeOK /\ OtpTypeOK)
<1>1. OtpInv => ServerTypeOK /\ OtpTypeOK  BY OtpPromises
<1> QED  BY <1>1, OtpInvariant, PTL

(* An account's phone was proved by a code sent to it, in every            *)
(* interleaving and after every failure.                                   *)
THEOREM PhoneProvedHolds == OtpSpec => []PhoneProved
<1>1. OtpInv => PhoneProved  BY OtpPromises
<1> QED  BY <1>1, OtpInvariant, PTL

(* Requests that race exceed the hourly cap by no more than the handlers   *)
(* there are besides one.                                                  *)
THEOREM CapHoldsHolds == OtpSpec => []CapHolds
<1>1. OtpInv => CapHolds  BY OtpPromises
<1> QED  BY <1>1, OtpInvariant, PTL

(* Guesses one after the other are counted, but for those whose save fails.*)
THEOREM GuessesBoundedHolds == OtpSpec => []GuessesBounded
<1>1. OtpInv => GuessesBounded  BY OtpPromises
<1> QED  BY <1>1, OtpInvariant, PTL

(* However guesses, saves and deletions of a code interleave, and whatever *)
(* fails: no session or phone change without a right guess of its own.     *)
THEOREM GivenForRightCodeHolds == OtpSpec => []GivenForRightCode
<1>1. OtpInv => GivenForRightCode  BY OtpPromises
<1> QED  BY <1>1, OtpInvariant, PTL

(* One code, one session or phone change, while handlers do not overlap.   *)
THEOREM CodeUsedOnceHolds == OtpSpec => []CodeUsedOnce
<1>1. OtpInv => CodeUsedOnce  BY OtpPromises
<1> QED  BY <1>1, OtpInvariant, PTL

(* A code that is spent bought something, while handlers neither overlap   *)
(* nor fail.                                                               *)
THEOREM SpentCodeBuysHolds == OtpSpec => []SpentCodeBuys
<1>1. OtpInv => SpentCodeBuys  BY OtpPromises
<1> QED  BY <1>1, OtpInvariant, PTL

(* A new code ends the old one, while handlers do not overlap.             *)
THEOREM OneCodePerPhoneHolds == OtpSpec => []OneCodePerPhone
<1>1. OtpInv => OneCodePerPhone  BY OtpPromises
<1> QED  BY <1>1, OtpInvariant, PTL
=============================================================================
