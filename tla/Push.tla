-------------------------------- MODULE Push --------------------------------
(***************************************************************************)
(* Push tokens: the client sets the token of its device in the user's row  *)
(* (UsersService.setPushToken); every notification sends a push without    *)
(* waiting for it, and PushService clears a token that is malformed or     *)
(* that Expo reports as DeviceNotRegistered, by the user's id alone.       *)
(***************************************************************************)
EXTENDS Server

CONSTANTS
  Tokens, NoToken,   \* push tokens, and null
  Malformed          \* tokens that are not Expo tokens

ASSUME PushAssumption == NoToken \notin Tokens /\ Malformed \subseteq Tokens

VARIABLES
  token,     \* users.push_token
  wanted,    \* history: what the client last set
  dead,      \* tokens whose device is no longer registered
  raced,     \* history: the client set its token while a push was under way
  pushJob    \* what each push in flight holds

pushVars == <<token, wanted, dead, raced, pushJob>>

-----------------------------------------------------------------------------
PushPcs  == {"idle", "send", "clear"}
PushJob  == [pc : PushPcs, token : Tokens \union {NoToken}]
PushIdle == [pc |-> "idle", token |-> NoToken]

PushFinish(w) == pushJob' = [pushJob EXCEPT ![w] = PushIdle]

setPushToken(t) ==
  /\ token' = t
  /\ wanted' = t
  /\ raced' = (raced \/ Busy(pushJob) # {})
  /\ Enter(pushJob)
  /\ UNCHANGED <<dead, pushJob>>

sendToUser(w) ==
  /\ pushJob[w].pc = "idle"
  /\ token # NoToken
  /\ pushJob' = [pushJob EXCEPT ![w] =
       [pc |-> IF token \in Malformed THEN "clear" ELSE "send", token |-> token]]
  /\ Enter(pushJob)
  /\ UNCHANGED <<token, wanted, dead, raced>>

(* Expo's ticket: delivered, another error, or DeviceNotRegistered.        *)
Answered(w) ==
  /\ pushJob[w].pc = "send"
  /\ pushJob[w].token \notin dead
  /\ PushFinish(w)
  /\ UNCHANGED <<token, wanted, dead, raced, serverVars>>

MutNotRegistered(w) ==
  /\ pushJob[w].pc = "send"
  /\ pushJob' = [pushJob EXCEPT ![w].pc = "clear"]
  /\ UNCHANGED <<token, wanted, dead, raced, serverVars>>

NotRegistered(w) ==
  /\ pushJob[w].pc = "send"
  /\ pushJob[w].token \in dead
  /\ pushJob' = [pushJob EXCEPT ![w].pc = "clear"]
  /\ UNCHANGED <<token, wanted, dead, raced, serverVars>>

ClearToken(w) ==
  /\ pushJob[w].pc = "clear"
  /\ token' = NoToken
  /\ PushFinish(w)
  /\ UNCHANGED <<wanted, dead, raced, serverVars>>

(* sendToUser catches whatever throws.                                     *)
PushFails(w) ==
  /\ pushJob[w].pc # "idle"
  /\ Fault
  /\ PushFinish(w)
  /\ UNCHANGED <<token, wanted, dead, raced>>

DeviceDies(t) ==
  /\ t \notin dead
  /\ dead' = dead \union {t}
  /\ UNCHANGED <<token, wanted, raced, pushJob, serverVars>>

-----------------------------------------------------------------------------
PushInit ==
  /\ token = NoToken
  /\ wanted = NoToken
  /\ dead = {}
  /\ raced = FALSE
  /\ pushJob = [w \in Workers |-> PushIdle]

PushNext ==
  \/ \E t \in Tokens \union {NoToken} : setPushToken(t)
  \/ \E w \in Workers :
       \/ sendToUser(w) \/ Answered(w) \/ NotRegistered(w) \/ ClearToken(w)
       \/ PushFails(w)
  \/ \E t \in Tokens : DeviceDies(t)

PushSpec == ServerInit /\ PushInit /\ [][PushNext]_<<pushVars, serverVars>>

-----------------------------------------------------------------------------
(* Properties.                                                             *)

(* Types of the token, the devices and the pushes in flight.               *)
PushTypeOK ==
  /\ token \in Tokens \union {NoToken}
  /\ wanted \in Tokens \union {NoToken}
  /\ dead \subseteq Tokens
  /\ raced \in BOOLEAN
  /\ pushJob \in [Workers -> PushJob]

(* The row holds what the client set last; the server takes a token away   *)
(* only from a dead device, with any number of pushes in flight, as long   *)
(* as the client did not set its token while one was (push.service.ts:92   *)
(* clears by user id whatever token is there by then).                     *)
TokenKept ==
  ~raced => token = wanted \/ (token = NoToken /\ wanted \in dead \union Malformed)
=============================================================================
