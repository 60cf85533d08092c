--------------------------- MODULE DriveCallProofs ---------------------------
(***************************************************************************)
(* Proofs about DriveCall, for any retry policy and any set of methods:    *)
(* the calls of GoogleDriveStorage implement the contract of the Storage   *)
(* port, and the retry loop keeps its bounds.                              *)
(***************************************************************************)
EXTENDS DriveCall, TLAPS

\* What is known before the call and of a call that waits.
CallInv ==
    /\ op = "none" <=> stage = "idle"
    /\ stage = "idle" => wire = {} /\ result = "none" /\ attempt = 1
    /\ reply # NoReply => stage = "sent"

\* An upload is sent once: while its request is on the wire there is no
\* file, and an answer tells whether there is one.
UploadInv ==
    op = "upload" =>
      /\ wire \subseteq {1} /\ attempt = 1 /\ stage # "sleep"
      /\ wire # {} => copies = 0
      /\ reply # NoReply => wire = {}
      /\ reply = OkReply => copies = 1
      /\ reply \notin {NoReply, OkReply} => copies = 0

\* A delete that is told of success, or that there is no file, found none
\* or left none.
DeleteInv == op = "delete" /\ reply.status \in {200, 404} => copies = 0

\* The loop sleeps only before another attempt, and every delay but the
\* first is capped.
LoopInv ==
    /\ stage = "sleep" => attempt < Attempts
    /\ attempt = 1 => slept = 0 /\ delay = BaseDelay
    /\ attempt > 1 => delay <= MaxDelay
    /\ BackoffBounded

\* The inductive invariant.
Inv == TypeOK /\ CallInv /\ UploadInv /\ DeleteInv /\ LoopInv

----------------------------------------------------------------------------
\* A refusal is told apart from the other replies.
LEMMA RefusalsDiffer ==
  ASSUME NEW r \in Refusals
  PROVE  r # NoReply /\ r # OkReply /\ r.status # 200
  BY DEF Refusals, NoReply, OkReply

\* So are the other replies.
LEMMA RepliesDiffer ==
  /\ NoReply # OkReply /\ NoReply.status = 0 /\ OkReply.status = 200
  /\ NotFoundReply \in Refusals /\ NotFoundReply.status = 404
  BY DEF NoReply, OkReply, NotFoundReply, Refusals

\* Only a 404 is classified as NotFound.
LEMMA Classified ==
  ASSUME NEW r \in Refusals
  PROVE  /\ ClassifyStatus(r) \in {"Storage", "BadRequest", "NotFound", "Transient"}
         /\ ClassifyStatus(r) = "NotFound" => r.status = 404
  BY DEF ClassifyStatus, Refusals

\* What a failed attempt leads to.
LEMMA FailedStep ==
  ASSUME NEW err \in {"Storage", "BadRequest", "NotFound", "Transient"}, Failed(err)
  PROVE  /\ UNCHANGED loopVars
         /\ \/ op # "upload" /\ stage' = "sleep" /\ attempt < Attempts /\ result' = result
            \/ /\ stage' = "done"
               /\ result' \in {"Ok", "Storage", "Unavailable", "InvalidArgument", "NotFound"}
               /\ result' = "Ok" => op = "delete" /\ err = "NotFound"
               /\ result' = "NotFound" => err = "NotFound" /\ op # "delete"
               /\ result' = "InvalidArgument" => op = "list_page"
  BY DEF Failed, Return, Final, Retries, Blame, IntoError

----------------------------------------------------------------------------
\* The calls start in the invariant.
LEMMA InitInv == Init => Inv
  BY PolicyAssumption, RepliesDiffer
  DEF Init, Inv, TypeOK, CallInv, UploadInv, DeleteInv, LoopInv, BackoffBounded

\* An upload starts with no file and one request.
LEMMA CallKeeps ==
  ASSUME Inv, NEW m \in Called, Call(m)
  PROVE  Inv'
  <1>1. /\ op' = m /\ m \in {"upload", "delete", "get", "list", "list_page"}
        /\ stage = "idle" /\ attempt = 1 /\ wire = {} /\ reply = NoReply /\ result = "none"
        /\ m = "upload" => copies = 0
        /\ attempt' = attempt /\ delay' = delay /\ slept' = slept
        /\ reply' = reply /\ copies' = copies
    BY MethodsAssumption DEF Call, loopVars, Inv, CallInv
  <1>2. \/ stage' = "sent" /\ wire' = {1} /\ result' = result
        \/ stage' = "done" /\ wire' = wire /\ result' = "Io"
    BY DEF Call
  <1>3. TypeOK'
    BY <1>1, <1>2 DEF Inv, TypeOK
  <1>4. CallInv'
    BY <1>1, <1>2 DEF CallInv
  <1>5. UploadInv'
    BY <1>1, <1>2, RepliesDiffer DEF UploadInv
  <1>6. DeleteInv' /\ LoopInv'
    BY <1>1, <1>2, RepliesDiffer DEF Inv, DeleteInv, LoopInv, BackoffBounded
  <1>7. QED
    BY <1>3, <1>4, <1>5, <1>6 DEF Inv

\* A dropped call leaves its requests on the wire.
LEMMA DropKeeps ==
  ASSUME Inv, Drop
  PROVE  Inv'
  BY RepliesDiffer
  DEF Drop, loopVars, Inv, TypeOK, CallInv, UploadInv, DeleteInv, LoopInv, BackoffBounded

\* The file of an upload is nobody else's yet.
LEMMA VanishKeeps ==
  ASSUME Inv, Vanish
  PROVE  Inv'
  BY DEF Vanish, loopVars, Inv, TypeOK, CallInv, UploadInv, DeleteInv, LoopInv, BackoffBounded

\* A lost request has no effect.
LEMMA LoseKeeps ==
  ASSUME Inv, Lose
  PROVE  Inv'
  BY DEF Lose, loopVars, Inv, TypeOK, CallInv, UploadInv, DeleteInv, LoopInv, BackoffBounded

\* An attempt is over, with a result or with another attempt to come.
LEMMA AttemptEnds ==
  ASSUME Inv, stage = "sent", reply' = NoReply, op' = op, copies' = copies,
         wire' \subseteq wire, UNCHANGED loopVars,
         \/ op # "upload" /\ stage' = "sleep" /\ attempt < Attempts /\ result' = result
         \/ /\ stage' = "done"
            /\ result' \in {"Ok", "NotFound", "Storage", "Unavailable", "InvalidArgument",
                            "FailedPrecondition"}
  PROVE  Inv'
  <1>1. /\ attempt' = attempt /\ delay' = delay /\ slept' = slept
        /\ stage' \in {"sleep", "done"}
        /\ stage' = "sleep" => op # "upload" /\ attempt < Attempts
    BY DEF loopVars
  <1>2. TypeOK'
    BY <1>1 DEF Inv, TypeOK
  <1>3. CallInv'
    BY <1>1 DEF Inv, CallInv
  <1>4. UploadInv'
    BY <1>1, RepliesDiffer DEF Inv, UploadInv
  <1>5. DeleteInv'
    BY RepliesDiffer DEF DeleteInv
  <1>6. LoopInv'
    BY <1>1 DEF Inv, LoopInv, BackoffBounded
  <1>7. QED
    BY <1>2, <1>3, <1>4, <1>5, <1>6 DEF Inv

\* An answer ends its attempt.
LEMMA ReceiveKeeps ==
  ASSUME Inv, Receive
  PROVE  Inv'
  <1>1. CASE reply = OkReply
    <2>1. PICK res \in Checked(op) : Return(res)
      BY <1>1, RepliesDiffer DEF Receive, Inv, TypeOK, Failed
    <2>2. res \in {"Ok", "NotFound", "FailedPrecondition", "Storage"}
      BY <2>1 DEF Checked
    <2>3. QED
      BY <2>1, <2>2, AttemptEnds DEF Receive, Return, Final
  <1>2. CASE reply # OkReply
    <2>1. reply \in Refusals /\ Failed(ClassifyStatus(reply))
      BY <1>2 DEF Receive, Inv, TypeOK
    <2>2. QED
      BY <2>1, Classified, FailedStep, AttemptEnds DEF Receive
  <1>3. QED
    BY <1>1, <1>2

\* So does a limit that ran out, or a broken connection.
LEMMA BreakKeeps ==
  ASSUME Inv, NEW b, Break(b)
  PROVE  Inv'
  <1>1. Failed(ClassifyBreak(b)) /\ ClassifyBreak(b) \in {"Storage", "Transient"}
    BY DEF Break, ClassifyBreak
  <1>2. /\ stage = "sent" /\ reply' = NoReply /\ op' = op /\ copies' = copies
        /\ wire' \subseteq wire
    BY DEF Break
  <1>3. QED
    BY <1>1, <1>2, FailedStep, AttemptEnds

\* The backoff grows up to the cap.
LEMMA DelayCapped ==
  ASSUME NEW d \in Nat \ {0}
  PROVE  NextDelay(d) \in Nat \ {0} /\ NextDelay(d) <= MaxDelay
  BY PolicyAssumption DEF NextDelay

\* The next attempt: the sleeps so far stay within the bound.
LEMMA WakeKeeps ==
  ASSUME Inv, Wake
  PROVE  Inv'
  <1>1. /\ stage = "sleep" /\ stage' = "sent" /\ op' = op /\ result' = result
        /\ slept' = slept + delay /\ delay' = NextDelay(delay)
        /\ attempt' = attempt + 1 /\ wire' = wire \cup {attempt + 1}
        /\ reply' = reply /\ copies' = copies
    BY DEF Wake
  <1>2. /\ attempt \in Nat \ {0} /\ delay \in Nat \ {0} /\ slept \in Nat
        /\ wire \subseteq 1..attempt
    BY DEF Inv, TypeOK
  <1>3. delay' \in Nat \ {0} /\ delay' <= MaxDelay
    BY <1>1, <1>2, DelayCapped
  <1>4. TypeOK'
    <2>1. wire' \subseteq 1..attempt' /\ attempt' \in Nat \ {0} /\ slept' \in Nat
      BY <1>1, <1>2
    <2>2. QED
      BY <1>1, <1>3, <2>1 DEF Inv, TypeOK
  <1>5. CallInv' /\ UploadInv' /\ DeleteInv'
    BY <1>1 DEF Inv, CallInv, UploadInv, DeleteInv
  <1>6. slept' <= BaseDelay + (attempt' - 2) * MaxDelay
    <2>1. CASE attempt = 1
      BY <1>1, <2>1, PolicyAssumption DEF Inv, LoopInv
    <2>2. CASE attempt # 1
      <3>1. slept <= BaseDelay + (attempt - 2) * MaxDelay /\ delay <= MaxDelay
        BY <1>2, <2>2 DEF Inv, LoopInv, BackoffBounded
      <3>2. (attempt - 1) * MaxDelay = (attempt - 2) * MaxDelay + MaxDelay
        BY <1>2, PolicyAssumption
      <3>3. (attempt - 2) * MaxDelay \in Nat
        BY <1>2, <2>2, PolicyAssumption
      <3>4. attempt' - 2 = attempt - 1
        BY <1>1, <1>2
      <3>5. QED
        BY <1>1, <1>2, <3>1, <3>2, <3>3, <3>4, PolicyAssumption
    <2>3. QED
      BY <2>1, <2>2
  <1>7. LoopInv'
    BY <1>1, <1>2, <1>3, <1>6, PolicyAssumption DEF Inv, LoopInv, BackoffBounded
  <1>8. QED
    BY <1>4, <1>5, <1>7 DEF Inv

\* Drive answers request n with r, having done what it did to the file.
LEMMA AnswerKeeps ==
  ASSUME Inv, NEW n \in wire, NEW r \in Refusals \cup {OkReply}, Answer(n, r),
         UNCHANGED <<op, stage, loopVars, result>>, copies' \in Nat,
         op = "upload" => copies' = (IF r = OkReply THEN 1 ELSE 0),
         op = "delete" /\ r.status \in {200, 404} => copies' = 0,
         op = "delete" => copies' \in {0, copies}
  PROVE  Inv'
  <1>1. /\ wire' = wire \ {n} /\ op' = op /\ stage' = stage /\ result' = result
        /\ attempt' = attempt /\ delay' = delay /\ slept' = slept
        /\ \/ reply' = reply
           \/ reply' = r /\ stage = "sent"
    BY DEF Answer, loopVars
  <1>2. TypeOK'
    BY <1>1 DEF Inv, TypeOK
  <1>3. CallInv'
    BY <1>1 DEF Inv, CallInv
  <1>4. UploadInv'
    <2>1. SUFFICES ASSUME op = "upload" PROVE UploadInv'
      BY <1>1 DEF UploadInv
    <2>2. wire = {1} /\ n = 1 /\ wire' = {} /\ reply = NoReply /\ attempt = 1 /\ stage # "sleep"
      BY <1>1, <2>1 DEF Inv, UploadInv
    <2>3. reply' = NoReply \/ reply' = r
      BY <1>1, <2>2
    <2>4. QED
      BY <1>1, <2>1, <2>2, <2>3, RepliesDiffer, RefusalsDiffer DEF UploadInv
  <1>5. DeleteInv'
    BY <1>1 DEF Inv, DeleteInv
  <1>6. LoopInv'
    BY <1>1 DEF Inv, LoopInv, BackoffBounded
  <1>7. QED
    BY <1>2, <1>3, <1>4, <1>5, <1>6 DEF Inv

\* Drive acts on a request.
LEMMA PerformKeeps ==
  ASSUME Inv, Perform
  PROVE  Inv'
  <1>1. PICK n \in wire :
         \/ op = "upload" /\ Answer(n, OkReply) /\ copies' = copies + 1
         \/ /\ op = "delete" /\ copies' = 0
            /\ Answer(n, IF copies = 0 THEN NotFoundReply ELSE OkReply)
         \/ /\ op = "get" /\ UNCHANGED copies
            /\ Answer(n, IF copies = 0 THEN NotFoundReply ELSE OkReply)
         \/ op \in {"list", "list_page"} /\ Answer(n, OkReply) /\ UNCHANGED copies
    BY DEF Perform
  <1>2. UNCHANGED <<op, stage, loopVars, result>> /\ copies \in Nat
    BY DEF Perform, Inv, TypeOK
  <1>3. op = "upload" => copies = 0
    BY DEF Inv, UploadInv
  <1>4. PICK r \in Refusals \cup {OkReply} :
          Answer(n, r) /\ (op = "upload" => r = OkReply)
    BY <1>1, RepliesDiffer
  <1>5. copies' \in Nat /\ (op = "upload" => copies' = 1) /\ (op = "delete" => copies' = 0)
    BY <1>1, <1>2, <1>3
  <1>6. QED
    BY <1>2, <1>4, <1>5, AnswerKeeps

\* Drive refuses a request.
LEMMA RefuseKeeps ==
  ASSUME Inv, Refuse
  PROVE  Inv'
  <1>1. PICK n \in wire, r \in Refusals : (r.status = 404 => op = "upload") /\ Answer(n, r)
    BY DEF Refuse
  <1>2. UNCHANGED <<op, stage, loopVars, result>> /\ copies' = copies /\ copies \in Nat
    BY DEF Refuse, Inv, TypeOK
  <1>3. op = "upload" => copies = 0
    BY DEF Inv, UploadInv
  <1>4. r # OkReply /\ r.status # 200
    BY <1>1, RefusalsDiffer
  <1>5. QED
    BY <1>1, <1>2, <1>3, <1>4, AnswerKeeps

\* Every step keeps the invariant.
LEMMA StepInv == Inv /\ [Next]_vars => Inv'
  <1> SUFFICES ASSUME Inv, [Next]_vars PROVE Inv'
    OBVIOUS
  <1>1. CASE UNCHANGED vars
    BY <1>1 DEF vars, loopVars, Inv, TypeOK, CallInv, UploadInv, DeleteInv, LoopInv,
                BackoffBounded
  <1>2. CASE \E m \in Called : Call(m)
    BY <1>2, CallKeeps
  <1>3. CASE Progress \/ \E b \in Breaks : Break(b)
    BY <1>3, WakeKeeps, ReceiveKeeps, BreakKeeps DEF Progress
  <1>4. CASE Drop \/ Perform \/ Refuse \/ Lose \/ Vanish
    BY <1>4, DropKeeps, PerformKeeps, RefuseKeeps, LoseKeeps, VanishKeeps
  <1>5. QED
    BY <1>1, <1>2, <1>3, <1>4 DEF Next, Settled

\* The inductive invariant always holds.
THEOREM InvCorrect == Spec => []Inv
  <1>1. Init => Inv
    BY InitInv
  <1>2. Inv /\ [Next]_vars => Inv'
    BY StepInv
  <1>3. QED
    BY <1>1, <1>2, PTL DEF Spec

\* The loop of with_retry keeps its types: a delay is never zero, a request
\* on the wire belongs to an attempt that was made, and a call ends with one
\* of the errors that api_error and its callers construct.
THEOREM TypeCorrect == Spec => []TypeOK
  <1>1. Inv => TypeOK
    BY DEF Inv
  <1>2. QED
    BY <1>1, InvCorrect, PTL

\* The retry loop makes at most `attempts' attempts and its sleeps add up to
\* no more than the policy allows, whatever the policy.
THEOREM BackoffCorrect == Spec => []BackoffBounded
  <1>1. Inv => BackoffBounded
    BY DEF Inv, LoopInv
  <1>2. QED
    BY <1>1, InvCorrect, PTL

----------------------------------------------------------------------------
\* Every step of a call is a step of the Storage port, or none.

\* The phase of the abstract call.
LEMMA Phases ==
  ASSUME TypeOK
  PROVE  /\ stage = "idle" => Phase = "idle"
         /\ stage \in {"sent", "sleep"} => Phase = "pending"
         /\ stage = "done" => Phase = "done"
  BY DEF Phase

\* And after a step.
LEMMA PhasesNext ==
  ASSUME TypeOK'
  PROVE  /\ stage' = "idle" => Phase' = "idle"
         /\ stage' \in {"sent", "sleep"} => Phase' = "pending"
         /\ stage' = "done" => Phase' = "done"
  BY DEF Phase

\* The initial states map to initial states.
LEMMA PortInit == Init => Port!Init
  BY DEF Init, Port!Init, Phase, MayStillAct

\* The first attempt is Call, or FailAtOnce when the local file is not there.
LEMMA CallMaps ==
  ASSUME Inv, Inv', NEW m \in Called, Call(m)
  PROVE  Port!Next
  <1>1. /\ m \in Port!Methods /\ stage = "idle" /\ Phase = "idle" /\ op = "none" /\ op' = m
        /\ wire = {} /\ copies' = copies /\ (m = "upload" => copies = 0)
    BY MethodsAssumption, Phases DEF Call, Inv, CallInv, Port!Methods, Port!Reads
  <1>2. CASE stage' = "sent" /\ wire' = {1} /\ result' = result
    <2>1. Phase' = "pending" /\ MayStillAct' = (m \notin Port!Reads)
      BY <1>1, <1>2, PhasesNext DEF Inv, MayStillAct, Port!Reads, Port!Methods
    <2>2. Port!Call(m)
      BY <1>1, <1>2, <2>1 DEF Port!Call
    <2>3. QED
      BY <1>1, <2>2 DEF Port!Next
  <1>3. CASE m = "upload" /\ stage' = "done" /\ result' = "Io" /\ wire' = wire
    <2>1. Phase' = "done" /\ MayStillAct' = FALSE /\ MayStillAct = FALSE
      BY <1>1, <1>3, PhasesNext DEF Inv, MayStillAct
    <2>2. Port!FailAtOnce(m)
      BY <1>1, <1>3, <2>1 DEF Port!FailAtOnce
    <2>3. QED
      BY <1>1, <2>2 DEF Port!Next
  <1>4. QED
    BY <1>2, <1>3 DEF Call

\* The end of the call is Return, given that the result tells the truth
\* about the file.
LEMMA ReturnMaps ==
  ASSUME Inv, Inv', stage \in {"sent", "sleep"}, stage' = "done",
         op' = op, copies' = copies, wire' \subseteq wire,
         result' \in Port!Results,
         result' = "Ok" /\ op = "upload" => copies = 1 /\ wire' = {},
         result' = "Ok" /\ op = "delete" => copies = 0,
         result' \in {"NotFound", "Io", "InvalidArgument", "FailedPrecondition"}
           /\ op = "upload" => copies = 0 /\ wire' = {},
         result' = "NotFound" => op # "delete"
  PROVE  Port!Next
  <1>1. Phase = "pending" /\ Phase' = "done"
    BY Phases, PhasesNext DEF Inv
  <1>2. MayStillAct' \in {MayStillAct, FALSE}
    BY DEF MayStillAct
  <1>3. op = "upload" /\ wire' = {} => MayStillAct' = FALSE
    BY DEF MayStillAct
  <1>4. Port!Return(result')
    BY <1>1, <1>2, <1>3 DEF Port!Return
  <1>5. QED
    BY <1>4 DEF Port!Next

\* A step inside the retry loop changes nothing of the abstract call.
LEMMA LoopStutters ==
  ASSUME Inv, Inv', op # "upload", stage \in {"sent", "sleep"}, stage' \in {"sent", "sleep"},
         op' = op, copies' = copies, result' = result
  PROVE  UNCHANGED Port!vars
  <1>1. Phase' = Phase
    BY Phases, PhasesNext DEF Inv
  <1>2. MayStillAct' = MayStillAct
    BY DEF MayStillAct
  <1>3. QED
    BY <1>1, <1>2 DEF Port!vars

\* A good answer returns what the checks after it say, a bad one goes to the
\* loop.
LEMMA ReceiveMaps ==
  ASSUME Inv, Inv', Receive
  PROVE  [Port!Next]_(Port!vars)
  <1>1. /\ stage = "sent" /\ reply # NoReply /\ op' = op /\ wire' = wire /\ copies' = copies
        /\ reply \in Refusals \cup {OkReply}
    BY DEF Receive, Inv, TypeOK
  <1>2. op = "upload" => wire = {} /\ (reply = OkReply => copies = 1)
                         /\ (reply # OkReply => copies = 0)
    BY <1>1 DEF Inv, UploadInv
  <1>3. op = "delete" /\ reply.status \in {200, 404} => copies = 0
    BY DEF Inv, DeleteInv
  <1>4. CASE reply = OkReply
    <2>1. PICK res \in Checked(op) : Return(res)
      BY <1>1, <1>4 DEF Receive
    <2>2. /\ res \in {"Ok", "NotFound", "FailedPrecondition", "Storage"}
          /\ op = "upload" => res \in {"Ok", "Storage"}
          /\ op = "delete" => res = "Ok"
      BY <2>1 DEF Checked
    <2>3. stage' = "done" /\ result' = res
      BY <2>1, <2>2 DEF Return, Final
    <2>4. QED
      BY <1>1, <1>2, <1>3, <1>4, <2>2, <2>3, ReturnMaps, RepliesDiffer DEF Port!Results
  <1>5. CASE reply # OkReply
    <2>1. reply \in Refusals /\ Failed(ClassifyStatus(reply))
      BY <1>1, <1>5 DEF Receive
    <2>2. \/ op # "upload" /\ stage' = "sleep" /\ result' = result
          \/ /\ stage' = "done"
             /\ result' \in {"Ok", "Storage", "Unavailable", "InvalidArgument", "NotFound"}
             /\ result' = "Ok" => op = "delete" /\ reply.status = 404
             /\ result' = "NotFound" => op # "delete"
      BY <2>1, Classified, FailedStep
    <2>3. CASE stage' = "sleep"
      BY <1>1, <2>2, <2>3, LoopStutters
    <2>4. CASE stage' = "done"
      BY <1>1, <1>2, <1>3, <1>5, <2>2, <2>4, ReturnMaps DEF Port!Results
    <2>5. QED
      BY <2>2, <2>3, <2>4
  <1>6. QED
    BY <1>4, <1>5

\* An attempt without an answer says nothing of the file.
LEMMA BreakMaps ==
  ASSUME Inv, Inv', NEW b, Break(b)
  PROVE  [Port!Next]_(Port!vars)
  <1>1. /\ stage = "sent" /\ op' = op /\ wire' \subseteq wire /\ copies' = copies
        /\ Failed(ClassifyBreak(b)) /\ ClassifyBreak(b) \in {"Storage", "Transient"}
    BY DEF Break, ClassifyBreak
  <1>2. \/ op # "upload" /\ stage' = "sleep" /\ result' = result
        \/ /\ stage' = "done"
           /\ result' \in {"Storage", "Unavailable", "InvalidArgument"}
           /\ result' = "InvalidArgument" => op = "list_page"
    BY <1>1, FailedStep
  <1>3. CASE stage' = "sleep"
    BY <1>1, <1>2, <1>3, LoopStutters
  <1>4. CASE stage' = "done"
    BY <1>1, <1>2, <1>4, ReturnMaps DEF Port!Results
  <1>5. QED
    BY <1>2, <1>3, <1>4

\* A caller that goes away learns nothing.
LEMMA DropMaps ==
  ASSUME Inv, Inv', Drop
  PROVE  Port!Next
  BY ReturnMaps DEF Drop, Port!Results

\* Requests leave the wire and nothing else of the abstract call changes.
LEMMA WireMaps ==
  ASSUME Inv, Inv', wire' \subseteq wire, stage' = stage,
         op' = op, copies' = copies, result' = result
  PROVE  [Port!Next]_(Port!vars)
  <1>1. Phase' = Phase
    BY DEF Phase
  <1>2. CASE MayStillAct' = MayStillAct
    BY <1>1, <1>2 DEF Port!vars
  <1>3. CASE MayStillAct' # MayStillAct
    <2>1. MayStillAct /\ MayStillAct' = FALSE
      BY <1>3 DEF MayStillAct
    <2>2. Port!Close
      BY <1>1, <2>1 DEF Port!Close
    <2>3. QED
      BY <2>2 DEF Port!Next
  <1>4. QED
    BY <1>2, <1>3

\* Drive acts on a request: the effect of the call.
LEMMA PerformMaps ==
  ASSUME Inv, Inv', Perform
  PROVE  [Port!Next]_(Port!vars)
  <1>1. PICK n \in wire :
          /\ wire' = wire \ {n}
          /\ \/ op = "upload" /\ copies' = copies + 1
             \/ op = "delete" /\ copies' = 0
             \/ op \notin {"upload", "delete"} /\ copies' = copies
    BY DEF Perform, Answer
  <1>2. op' = op /\ stage' = stage /\ result' = result
    BY DEF Perform
  <1>3. Phase' = Phase
    BY <1>2 DEF Phase
  <1>4. CASE op = "upload"
    <2>1. wire' = {} /\ copies = 0 /\ copies' = 1
      BY <1>1, <1>4 DEF Inv, UploadInv
    <2>2. MayStillAct /\ MayStillAct' = FALSE
      BY <1>1, <1>2, <1>4, <2>1 DEF MayStillAct
    <2>3. Port!Effect
      BY <1>2, <1>3, <1>4, <2>1, <2>2 DEF Port!Effect
    <2>4. QED
      BY <2>3 DEF Port!Next
  <1>5. CASE op = "delete"
    <2>1. MayStillAct /\ MayStillAct' \in BOOLEAN
      BY <1>1, <1>5 DEF MayStillAct
    <2>2. Port!Effect
      BY <1>1, <1>2, <1>3, <1>5, <2>1 DEF Port!Effect
    <2>3. QED
      BY <2>2 DEF Port!Next
  <1>6. CASE op \notin {"upload", "delete"}
    BY <1>1, <1>2, <1>6, WireMaps
  <1>7. QED
    BY <1>4, <1>5, <1>6

\* Drive refuses a request, or it gets lost.
LEMMA RefuseMaps ==
  ASSUME Inv, Inv', Refuse \/ Lose
  PROVE  [Port!Next]_(Port!vars)
  <1>1. /\ wire' \subseteq wire /\ op' = op /\ stage' = stage /\ result' = result
        /\ copies' = copies
    BY DEF Refuse, Lose, Answer
  <1>2. QED
    BY <1>1, WireMaps

\* The file goes for another reason.
LEMMA VanishMaps ==
  ASSUME Inv, Inv', Vanish
  PROVE  Port!Next
  <1>1. Phase' = Phase /\ MayStillAct' = MayStillAct
    BY DEF Vanish, Phase, MayStillAct
  <1>2. Port!Vanish
    BY <1>1 DEF Vanish, Port!Vanish
  <1>3. QED
    BY <1>2 DEF Port!Next

\* Every step maps to a step of the port or to none.
LEMMA PortStep ==
  ASSUME Inv, Inv', [Next]_vars
  PROVE  [Port!Next]_(Port!vars)
  <1>1. CASE UNCHANGED vars
    BY <1>1 DEF vars, Port!vars, Phase, MayStillAct
  <1>2. CASE \E m \in Called : Call(m)
    BY <1>2, CallMaps
  <1>3. CASE Wake
    <2>1. op # "upload"
      BY <1>3 DEF Wake, Inv, UploadInv
    <2>2. QED
      BY <1>3, <2>1, LoopStutters DEF Wake
  <1>4. CASE Receive \/ \E b \in Breaks : Break(b)
    BY <1>4, ReceiveMaps, BreakMaps
  <1>5. CASE Break("timeout")
    BY <1>5, BreakMaps
  <1>6. CASE Drop \/ Vanish
    BY <1>6, DropMaps, VanishMaps
  <1>7. CASE Perform \/ Refuse \/ Lose
    BY <1>7, PerformMaps, RefuseMaps
  <1>8. QED
    BY <1>1, <1>2, <1>3, <1>4, <1>5, <1>6, <1>7 DEF Next, Progress, Settled

\* The calls of GoogleDriveStorage implement the Storage port: an upload has
\* its effect at most once, and no result says more about the file than is
\* true, however requests and answers are lost, delayed or repeated.
THEOREM PortCorrect == Spec => ImplementsPort
  <1>1. Init => Port!Init
    BY PortInit
  <1>2. Inv /\ Inv' /\ [Next]_vars => [Port!Next]_(Port!vars)
    BY PortStep
  <1>3. QED
    BY <1>1, <1>2, InvCorrect, PTL DEF Spec, ImplementsPort, Port!Spec
=============================================================================
