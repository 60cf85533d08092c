------------------------------ MODULE DriveCall ------------------------------
(***************************************************************************)
(* One call of GoogleDriveStorage about one file: upload, delete, get or   *)
(* list, with the retry loop, over a network that loses, delays and        *)
(* repeats.  A request that nobody waits for any more stays on the wire    *)
(* and Drive may act on it at any later time.                              *)
(***************************************************************************)
EXTENDS DriveErrors

CONSTANT Called  \* the methods that are called; "list_page" is list with a token

ASSUME MethodsAssumption ==
    Called \subseteq {"upload", "delete", "get", "list", "list_page"}

VARIABLES
    op,       \* the method
    stage,    \* "idle", "sent" (awaiting timed), "sleep" or "done"
    attempt,  \* the loop's attempt and delay
    delay,
    wire,     \* the attempts whose request Drive may still act on
    reply,    \* Drive's answer to the current attempt, on its way back
    copies,   \* how many copies of the file Drive holds
    result,   \* what the call returned
    slept     \* history: the delays slept through so far

loopVars == <<attempt, delay, slept>>
vars == <<op, stage, loopVars, wire, reply, copies, result>>

NoReply == [status |-> 0, reason |-> "none"]

OkReply == [status |-> 200, reason |-> "none"]

NotFoundReply == [status |-> 404, reason |-> "none"]

----------------------------------------------------------------------------
\* The arms of `match res' in delete: a file that is not there is deleted.
Final(method, err) ==
    IF method = "delete" /\ err = "NotFound" THEN "Ok" ELSE err

Return(res) ==
    /\ stage' = "done"
    /\ result' = Final(op, res)
    /\ UNCHANGED loopVars

\* list says InvalidArgument when the page token came from the caller.
Blame(err) ==
    IF err = "BadRequest" /\ op = "list_page" THEN "InvalidArgument" ELSE err

\* Mutant: upload goes through the retry loop like the others.
FailedRetryingAll(err) ==
    \/ /\ Retries(Blame(err), attempt)
       /\ stage' = "sleep" /\ UNCHANGED <<result, loopVars>>
    \/ /\ ~Retries(Blame(err), attempt)
       /\ Return(IntoError(Blame(err)))

\* An attempt failed: the loop sleeps or gives up; upload has no loop.
Failed(err) ==
    \/ /\ op # "upload" /\ Retries(Blame(err), attempt)
       /\ stage' = "sleep" /\ UNCHANGED <<result, loopVars>>
    \/ /\ op = "upload" \/ ~Retries(Blame(err), attempt)
       /\ Return(IntoError(Blame(err)))

----------------------------------------------------------------------------
\* The first attempt.  upload opens the local file before it sends anything.
Call(method) ==
    /\ stage = "idle"
    /\ op' = method
    /\ method = "upload" => copies = 0
    /\ \/ stage' = "sent" /\ wire' = {1} /\ UNCHANGED result
       \/ method = "upload" /\ stage' = "done" /\ result' = "Io" /\ UNCHANGED wire
    /\ UNCHANGED <<loopVars, reply, copies>>

\* tokio::time::sleep is over.
Wake ==
    /\ stage = "sleep" /\ stage' = "sent"
    /\ slept' = slept + delay
    /\ delay' = NextDelay(delay)
    /\ attempt' = attempt + 1
    /\ wire' = wire \cup {attempt + 1}
    /\ UNCHANGED <<op, reply, copies, result>>

\* What follows a good answer: get wants a file of the folder that is a
\* backup, upload reads back the file it created (a field may be missing).
Checked(method) ==
    CASE method = "get" -> {"Ok", "NotFound", "FailedPrecondition", "Storage"}
      [] method = "upload" -> {"Ok", "Storage"}
      [] OTHER -> {"Ok"}

\* The answer reaches the attempt that waits for it.
Receive ==
    /\ stage = "sent" /\ reply # NoReply
    /\ \/ reply = OkReply /\ \E res \in Checked(op) : Return(res)
       \/ reply # OkReply /\ Failed(ClassifyStatus(reply))
    /\ reply' = NoReply
    /\ UNCHANGED <<op, wire, copies>>

\* Mutant: the call is made without `timed'.
BreakUntimed(b) ==
    /\ stage = "sent" /\ b = "transport"
    /\ Failed("Transient")
    /\ reply' = NoReply
    /\ UNCHANGED <<op, wire, copies>>

\* The attempt ends without an answer.  A missing token means that nothing
\* was sent; an unreadable answer, that there was one.
Break(b) ==
    /\ stage = "sent"
    /\ b = "token" => attempt \in wire
    /\ b = "unreadable" => reply # NoReply
    /\ wire' = IF b = "token" THEN wire \ {attempt} ELSE wire
    /\ Failed(ClassifyBreak(b))
    /\ reply' = NoReply
    /\ UNCHANGED <<op, copies>>

\* The caller's future is dropped.
Drop ==
    /\ stage \in {"sent", "sleep"} /\ stage' = "done"
    /\ result' = "dropped" /\ reply' = NoReply
    /\ UNCHANGED <<op, loopVars, wire, copies>>

----------------------------------------------------------------------------
\* Drive answers, if the attempt still waits.
Answer(n, r) ==
    /\ wire' = wire \ {n}
    /\ reply' = IF n = attempt /\ stage = "sent" THEN r ELSE reply

\* Drive does what the request says.
Perform ==
    /\ \E n \in wire :
         \/ op = "upload" /\ Answer(n, OkReply) /\ copies' = copies + 1
         \/ /\ op = "delete" /\ copies' = 0
            /\ Answer(n, IF copies = 0 THEN NotFoundReply ELSE OkReply)
         \/ /\ op = "get" /\ UNCHANGED copies
            /\ Answer(n, IF copies = 0 THEN NotFoundReply ELSE OkReply)
         \/ op \in {"list", "list_page"} /\ Answer(n, OkReply) /\ UNCHANGED copies
    /\ UNCHANGED <<op, stage, loopVars, result>>

\* Drive refuses and does nothing.  It says 404 of a file that it does not
\* have; for an upload, of the folder.
Refuse ==
    /\ \E n \in wire, r \in Refusals :
         /\ r.status = 404 => op = "upload"
         /\ Answer(n, r)
    /\ UNCHANGED <<op, stage, loopVars, copies, result>>

\* A request gets lost.
Lose ==
    /\ \E n \in wire : wire' = wire \ {n}
    /\ UNCHANGED <<op, stage, loopVars, reply, copies, result>>

\* Somebody else removes the file.
Vanish ==
    /\ op # "upload" /\ copies = 1 /\ copies' = 0
    /\ UNCHANGED <<op, stage, loopVars, wire, reply, result>>

----------------------------------------------------------------------------
Init ==
    /\ op = "none" /\ stage = "idle" /\ result = "none"
    /\ attempt = 1 /\ delay = BaseDelay /\ slept = 0
    /\ wire = {} /\ reply = NoReply
    /\ copies \in {0, 1}

\* What the program does by itself: a sleep ends, an answer is read, and a
\* request that is not answered runs into its limit.
Progress == Wake \/ Receive \/ Break("timeout")

\* The call is over and no request is left: nothing more can happen.
Settled == stage = "done" /\ UNCHANGED vars

Next ==
    \/ \E m \in Called : Call(m)
    \/ Progress \/ Drop \/ \E b \in Breaks : Break(b)
    \/ Perform \/ Refuse \/ Lose \/ Vanish
    \/ Settled

Spec == Init /\ [][Next]_vars

FairSpec == Spec /\ WF_vars(Progress)

----------------------------------------------------------------------------
\* The type of the state.
TypeOK ==
    /\ op \in {"none", "upload", "delete", "get", "list", "list_page"}
    /\ stage \in {"idle", "sent", "sleep", "done"}
    /\ attempt \in Nat \ {0} /\ delay \in Nat \ {0} /\ slept \in Nat
    /\ wire \subseteq 1..attempt
    /\ reply \in Refusals \cup {NoReply, OkReply}
    /\ copies \in Nat
    /\ result \in {"none", "Ok", "NotFound", "Storage", "Unavailable", "Io",
                   "InvalidArgument", "FailedPrecondition", "dropped"}

\* The abstract call.  An upload is open while its request is on the wire, a
\* delete also while the loop may send another one.
Phase == CASE stage = "idle" -> "idle" [] stage = "done" -> "done" [] OTHER -> "pending"

MayStillAct ==
    \/ op = "upload" /\ wire # {}
    \/ op = "delete" /\ (stage \in {"sent", "sleep"} \/ wire # {})

Port == INSTANCE StoragePort WITH phase <- Phase, open <- MayStillAct

\* upload, delete, get and list of GoogleDriveStorage keep the contract of
\* the Storage port: an upload happens at most once and OK of it, or of a
\* delete, is true; after NotFound, Io or InvalidArgument nothing can follow.
ImplementsPort == Port!Spec

\* The retry loop: at most `attempts' attempts (and at least one), and the
\* time slept stays under attempts * max_delay, with the first delay, which
\* is not capped, counted apart.
BackoffBounded ==
    /\ attempt = 1 \/ attempt <= Attempts
    /\ slept <= (IF attempt = 1 THEN 0 ELSE BaseDelay + (attempt - 2) * MaxDelay)

\* A call to Drive always returns: no wait in it is unlimited.
CallEnds == stage = "sent" ~> stage = "done"
=============================================================================
