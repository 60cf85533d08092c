----------------------------- MODULE DriveErrors -----------------------------
(***************************************************************************)
(* What becomes of one answer of the Drive client library: errors.rs and   *)
(* the retry policy of retry.rs.  Pure definitions, shared by DriveCall    *)
(* and DriveDownload.                                                      *)
(***************************************************************************)
EXTENDS Naturals

CONSTANTS
    Attempts,   \* RetryPolicy.attempts
    BaseDelay,  \* RetryPolicy.base_delay
    MaxDelay    \* RetryPolicy.max_delay

ASSUME PolicyAssumption ==
    Attempts \in Nat /\ BaseDelay \in Nat \ {0} /\ MaxDelay \in Nat \ {0}

\* Drive refused: an HTTP status with its reason, or an error body without a
\* code.  The numbers stand for their classes: 418 for what the match leaves
\* to its last arm, 500 and 599 for the ends of the 5xx range.
Refusals ==
    [status : {400, 403, 404, 418, 429, 500, 599}, reason : {"none", "rate_limit"}]
    \cup {[status |-> 0, reason |-> "no_code"]}

\* No answer: the limit of `timed' ran out, the connection broke, there was
\* no access token, or the reply could not be read.
Breaks == {"timeout", "transport", "token", "unreadable"}

\* classify_status and classify_json.
ClassifyStatus(r) ==
    CASE r.reason = "no_code" -> "Storage"
      [] r.status = 400 -> "BadRequest"
      [] r.status = 404 -> "NotFound"
      [] r.status = 429 \/ r.status \in 500..599 -> "Transient"
      [] r.status = 403 /\ r.reason = "rate_limit" -> "Transient"
      [] OTHER -> "Storage"

\* classify and timed.
ClassifyBreak(b) == IF b = "unreadable" THEN "Storage" ELSE "Transient"

\* A CallError is named "Transient", "BadRequest", or by the Error inside
\* Permanent.
CallErrors == {"Transient", "BadRequest", "NotFound", "Storage", "Io", "InvalidArgument"}

\* Mutant: the class of the failure gets out instead of an Error.
IntoErrorUnmapped(err) == err

IntoError(err) ==
    CASE err = "Transient" -> "Unavailable"
      [] err = "BadRequest" -> "Storage"
      [] OTHER -> err

\* Mutant: the guard counts retries, not attempts.
RetriesOneMore(err, attempt) == err = "Transient" /\ attempt <= Attempts

\* The match of the retry loop: another attempt follows this failure.
Retries(err, attempt) == err = "Transient" /\ attempt < Attempts

\* Mutant: the cap is lost.
NextDelayUncapped(delay) == delay * 2

NextDelay(delay) == IF delay * 2 <= MaxDelay THEN delay * 2 ELSE MaxDelay
=============================================================================
