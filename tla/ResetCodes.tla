------------------------------ MODULE ResetCodes ------------------------------
(***************************************************************************)
(* The one-time code of a forgotten password, of one account:              *)
(* forgotPassword and resetPassword of src/src/auth, saveOtp and verifyOtp *)
(* of src/src/redis.  Every Redis command is an await of its own: saving a *)
(* code and resetting the count of attempts are two, and verifying counts, *)
(* reads, deletes and resets in four.                                      *)
(*                                                                         *)
(* History variables, never read by the actions: resets, how often each    *)
(* code has changed the password; compared, how often it was compared with *)
(* what a caller gave; overtaken, the codes that were stored or current    *)
(* while two requests were in flight.                                      *)
(***************************************************************************)
EXTENDS Requests

CONSTANTS
    MaxCodes,       \* bound on the codes that are sent
    MaxAttempts     \* OTP_MAX_ATTEMPTS

ASSUME ResetCodesAssumption == MaxCodes \in Nat \ {0} /\ MaxAttempts \in Nat \ {0}

Codes == 1..MaxCodes

NoCode == 0         \* no code is stored; or, as what a caller gives, a wrong one

VARIABLES
    issued,         \* 0..MaxCodes, the last code that was sent
    otp,            \* Codes \cup {NoCode}, stored under the account's key
    attempts,       \* 0..MaxAttempts + 1, counted under the other key (and no further)
    resets, compared, overtaken

resetCodesVars == <<req, issued, otp, attempts, resets, compared, overtaken>>

-----------------------------------------------------------------------------
\* The codes that are no longer alone: a request begins beside another one.
Crossing(codes) == overtaken' = IF req = Idle THEN overtaken ELSE overtaken \cup codes

\* A new code replaces the stored one.
forgotPassword(w) ==
    /\ issued < MaxCodes
    /\ issued' = issued + 1
    /\ otp' = issued + 1
    /\ Begin(w, [op |-> "save", step |-> "reset", otp |-> issued + 1])
    /\ Crossing({otp, issued + 1})
    /\ UNCHANGED <<attempts, resets, compared>>

\* Mutant: an attempt is counted after the code was compared.
CountLate(w, code) ==
    /\ attempts <= MaxAttempts
    /\ Begin(w, [op |-> "verify", step |-> "get", otp |-> code])
    /\ Crossing({otp})
    /\ UNCHANGED <<issued, otp, attempts, resets, compared>>

\* The attempt is counted first; beyond the limit the caller is turned away.
BeginVerify(w, code) ==
    /\ attempts' = IF attempts > MaxAttempts THEN attempts ELSE attempts + 1
    /\ IF attempts' > MaxAttempts
       THEN req[w] = NoRequest /\ UNCHANGED req
       ELSE Begin(w, [op |-> "verify", step |-> "get", otp |-> code])
    /\ Crossing({otp})
    /\ UNCHANGED <<issued, otp, resets, compared>>

Compare(w) ==
    /\ At(w, {"verify"}, "get")
    /\ compared' = [c \in Codes |-> IF c = otp THEN compared[c] + 1 ELSE compared[c]]
    /\ IF req[w].otp = otp THEN Goto(w, "delete") ELSE Done(w)
    /\ UNCHANGED <<issued, otp, attempts, resets, overtaken>>

\* Whatever code is stored by now is deleted.
DeleteCode(w) ==
    /\ At(w, {"verify"}, "delete")
    /\ otp' = NoCode
    /\ Goto(w, "reset")
    /\ UNCHANGED <<issued, attempts, resets, compared, overtaken>>

\* The last command of both; a verified code then changes the password.
ResetAttempts(w) ==
    /\ At(w, {"save", "verify"}, "reset")
    /\ attempts' = 0
    /\ resets' = [c \in Codes |->
          IF req[w].op = "verify" /\ c = req[w].otp THEN resets[c] + 1 ELSE resets[c]]
    /\ Done(w)
    /\ UNCHANGED <<issued, otp, compared, overtaken>>

\* The process dies, or Redis does not answer.
LoseCodeRequest(w) ==
    /\ req[w] # NoRequest /\ Done(w)
    /\ UNCHANGED <<issued, otp, attempts, resets, compared, overtaken>>

\* OTP_TTL_SECONDS after the code was stored, and after the last attempt.
CodeExpires ==
    /\ otp # NoCode /\ otp' = NoCode
    /\ UNCHANGED <<req, issued, attempts, resets, compared, overtaken>>

AttemptsExpire ==
    /\ otp = NoCode /\ attempts # 0 /\ attempts' = 0
    /\ UNCHANGED <<req, issued, otp, resets, compared, overtaken>>

-----------------------------------------------------------------------------
ResetCodesInit ==
    /\ req = Idle
    /\ issued = 0 /\ otp = NoCode /\ attempts = 0
    /\ resets = [c \in Codes |-> 0] /\ compared = [c \in Codes |-> 0]
    /\ overtaken = {}

ResetCodesNext ==
    \/ \E w \in Workers :
          \/ forgotPassword(w)
          \/ \E code \in 0..issued : BeginVerify(w, code)
          \/ Compare(w)
          \/ DeleteCode(w)
          \/ ResetAttempts(w)
          \/ LoseCodeRequest(w)
    \/ CodeExpires
    \/ AttemptsExpire

ResetCodesSpec == ResetCodesInit /\ [][ResetCodesNext]_resetCodesVars

-----------------------------------------------------------------------------
\* Every variable keeps its type.
ResetCodesTypeOK ==
    /\ req \in [Workers -> [op: {"save", "verify"}, step: {"get", "delete", "reset"},
                            otp: Codes \cup {NoCode}] \cup {NoRequest}]
    /\ issued \in 0..MaxCodes /\ otp \in 0..issued
    /\ attempts \in 0..(MaxAttempts + 1)
    /\ resets \in [Codes -> Nat] /\ compared \in [Codes -> Nat]
    /\ overtaken \subseteq 0..MaxCodes

\* A code changes the password at most once, and is compared with what callers give at most
\* MaxAttempts times, lost requests included: unless it was stored while two requests were
\* in flight, when both can succeed, and one can reset the count that the other has raised.
CodesUsedOnce ==
    \A c \in Codes \ overtaken : resets[c] <= 1 /\ compared[c] <= MaxAttempts
=============================================================================
