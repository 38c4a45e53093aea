-------------------------------- MODULE Auth --------------------------------
(***************************************************************************)
(* verify_api_key() of auth.py, for the attempts of one source address.    *)
(* The budget of failed attempts is a second RateLimiter, with a key per   *)
(* source, rpm_limit = auth_failure_rpm_limit, tpm_limit = 0 and estimates *)
(* of 0 (app.py:191-196); it is never reconciled.  Here Requests are the   *)
(* attempts in progress.  resolve_tenant() comes first and reads only the  *)
(* settings, so an attempt with a configured key ends at once; any other   *)
(* attempt waits for the limiter and is answered by what it says.          *)
(***************************************************************************)
EXTENDS RateLimiter

ASSUME AuthAssumption == TpmLimit = 0 /\ Estimates = {0} /\ Actuals = {}

VARIABLES
    key,        \* the key of each attempt: does resolve_tenant() know it?
    answer,     \* how it was answered, once it was
    wrong       \* history: attempts with an unknown key that were counted

attempts == <<key, answer, wrong>>
authVars == <<vars, attempts>>

AuthInit ==
    /\ Init
    /\ key = [r \in Requests |-> "none"]
    /\ answer = [r \in Requests |-> "none"]
    /\ wrong = [t \in Stamps |-> 0]

(* Faulty: the limiter is asked first, whatever the key.                   *)
Faulty_Resolve(r) ==
    /\ SendCheck(r)
    /\ key' = [key EXCEPT ![r] = "known"]
    /\ answer' = [answer EXCEPT ![r] = "none"]
    /\ UNCHANGED wrong

(* A new attempt, and its key is one of the configured ones.               *)
Resolve(r) ==
    /\ call[r].pc = "idle"
    /\ key' = [key EXCEPT ![r] = "known"]
    /\ answer' = [answer EXCEPT ![r] = "tenant"]
    /\ UNCHANGED <<vars, wrong>>

(* It is none of them, or missing: the except branch calls check().        *)
FailToResolve(r) ==
    /\ SendCheck(r)
    /\ key' = [key EXCEPT ![r] = "unknown"]
    /\ answer' = [answer EXCEPT ![r] = "none"]
    /\ UNCHANGED wrong

(* The limiter counts the attempt, ...                                     *)
CountFailure(r) ==
    /\ AdmitCheck(r)
    /\ wrong' = [wrong EXCEPT ![call[r].stamp] =
                    @ + (IF key[r] = "unknown" THEN 1 ELSE 0)]
    /\ UNCHANGED <<key, answer>>

(* ... and once its reply is here the 401 of resolve_tenant is re-raised.  *)
Unauthorized(r) ==
    /\ call[r].pc = "admitted"
    /\ Abandon(r)
    /\ answer' = [answer EXCEPT ![r] = "401"]
    /\ UNCHANGED <<key, wrong>>

(* The budget of the source is used up: RateLimitExceeded.                 *)
TooMany(r) ==
    /\ RejectCheck(r)
    /\ answer' = [answer EXCEPT ![r] = "429"]
    /\ UNCHANGED <<key, wrong>>

(* check() raises: no script, or a command or its reply is lost.           *)
CheckRaises(r) ==
    /\ NoScript(r) \/ Abandon(r)
    /\ answer' = [answer EXCEPT ![r] = "500"]
    /\ UNCHANGED <<key, wrong>>

AuthNext ==
    \/ /\ Tick \/ Restart \/ \E k \in Workers : LoadScript(k)
       /\ UNCHANGED attempts
    \/ \E r \in Requests :
          \/ Resolve(r) \/ FailToResolve(r) \/ CountFailure(r)
          \/ Unauthorized(r) \/ TooMany(r) \/ CheckRaises(r)

AuthSpec == AuthInit /\ [][AuthNext]_authVars

-----------------------------------------------------------------------------
(* An attempt is without an answer exactly while the limiter has its call, *)
(* and only attempts with an unknown key ever get that far.                *)
AuthTypeOK ==
    /\ key \in [Requests -> {"none", "known", "unknown"}]
    /\ answer \in [Requests -> {"none", "tenant", "401", "429", "500"}]
    /\ wrong \in [Stamps -> Nat]
    /\ \A r \in Requests :
          /\ call[r].pc # "idle" => key[r] = "unknown" /\ answer[r] = "none"
          /\ key[r] # "none" /\ call[r].pc = "idle" => answer[r] # "none"

(* auth.py:66: whatever failures the source has behind it, and whatever    *)
(* has become of Redis, a configured key is never answered 401, 429 or     *)
(* 500, nor made to wait.                                                  *)
KnownNeverLockedOut ==
    \A r \in Requests : key[r] = "known" => answer[r] = "tenant"

(* auth.py:71: a 429 means that the key was unknown and that the source    *)
(* really failed rpm_limit times within the two windows the attempt was    *)
(* weighed by.  Neither attempts with a configured key, nor delays, clock  *)
(* skew or restarts add up to one.                                         *)
WrongIn(w) == MapThenSumSet(LAMBDA t : wrong[t], {t \in Stamps : WindowId(t) = w})
LockedOutOnlyByFailures ==
    [][\A r \in Requests :
          LET w == WindowId(call[r].stamp) IN
          call[r].pc = "check" /\ answer'[r] = "429" =>
              key[r] = "unknown" /\ WrongIn(w - 1) + WrongIn(w) >= RpmLimit]_authVars

=============================================================================
