---------------------------- MODULE DownloadProofs ----------------------------
(***************************************************************************)
(* Proofs about the two halves of a download: DriveDownload, for any retry *)
(* policy and any size of the file, and DownloadStream, for any number of  *)
(* clients, any size of the file and any buffer.                           *)
(***************************************************************************)
EXTENDS DriveDownload, DownloadStream, TLAPS

\* The block on the disk is the one received, or it has still to be written,
\* or a File that was dropped wrote it.
Matches(i) ==
    \/ <<i, disk[i]>> \in late
    \/ i <= Len(got) /\ disk[i] = got[i]
    \/ disk[i] = -1 /\ (i > Len(got) \/ (pending # {} /\ i = Len(got)))

\* The write that the open File has left to the pool is its last block.
PendingInv ==
    /\ pending # {} => stage \in {"body", "flush"} /\ got # <<>>
    /\ \A w \in pending : w = <<Len(got), got[Len(got)]>>

\* A block is whole or damaged, wherever it is.
BlocksInv ==
    /\ \A i \in 1..Len(got) : got[i] \in {0, i}
    /\ \A w \in late : w[2] \in {0, w[1]}

\* The file of the attempt under way, and of the one that was accepted.
DiskInv == stage \in {"body", "flush"} \/ result = "Ok" => \A i \in 1..Frames : Matches(i)

\* A result is given at the end, and Ok only if the checksum is right.
ResultInv ==
    /\ stage # "done" => result = "none"
    /\ result = "Ok" /\ md5 => got = Content

\* The inductive invariant.
Inv == TypeOK /\ PendingInv /\ BlocksInv /\ DiskInv /\ ResultInv

----------------------------------------------------------------------------
\* No failure becomes Ok.
LEMMA ErrorFacts ==
  ASSUME NEW err \in {"Transient", "BadRequest", "NotFound", "Storage", "Io"}
  PROVE  IntoError(err) \in {"NotFound", "Storage", "Unavailable", "Io"}
  BY DEF IntoError

\* The classes of the failures.
LEMMA Classified ==
  /\ \A r \in Refusals : ClassifyStatus(r) \in {"Transient", "BadRequest", "NotFound", "Storage"}
  /\ \A b : ClassifyBreak(b) \in {"Transient", "Storage"}
  BY DEF ClassifyStatus, ClassifyBreak

\* A delay stays positive.
LEMMA DelayFacts ==
  ASSUME NEW d \in Nat \ {0}
  PROVE  NextDelay(d) \in Nat \ {0}
  BY PolicyAssumption DEF NextDelay

\* The download starts in the invariant.
LEMMA InitInv == Init => Inv
  <1> SUFFICES ASSUME Init PROVE Inv
    OBVIOUS
  <1>1. TypeOK
    BY PolicyAssumption, FramesAssumption DEF Init, TypeOK, Empty
  <1>2. QED
    BY <1>1 DEF Init, Inv, PendingInv, BlocksInv, DiskInv, ResultInv

\* A step that leaves the file and the pool alone.
LEMMA QuietKeeps ==
  ASSUME Inv, UNCHANGED <<md5, got, pending, orphans, disk, result, late>>,
         stage # "done", stage' \in {"request", "create", "flush"},
         pending # {} => stage' = "flush",
         stage' = "flush" => stage = "body",
         attempt' \in Nat \ {0}, delay' \in Nat \ {0}
  PROVE  Inv'
  <1>1. TypeOK'
    BY DEF Inv, TypeOK
  <1>2. PendingInv' /\ BlocksInv'
    BY DEF Inv, PendingInv, BlocksInv
  <1>3. ResultInv' /\ result = "none"
    BY DEF Inv, ResultInv
  <1>4. DiskInv'
    BY <1>3 DEF Inv, DiskInv, Matches
  <1>5. QED
    BY <1>1, <1>2, <1>3, <1>4 DEF Inv

\* An attempt fails: its File is dropped.
LEMMA FailedKeeps ==
  ASSUME Inv, stage # "done", UNCHANGED <<md5, got, disk>>,
         NEW err \in {"Transient", "BadRequest", "NotFound", "Storage", "Io"}, Failed(err)
  PROVE  Inv'
  <1>1. /\ pending' = {} /\ orphans' = orphans \cup pending /\ late' = late \cup pending
        /\ attempt' = attempt /\ delay' = delay
    BY DEF Failed, Leave
  <1>2. result = "none"
    BY DEF Inv, ResultInv
  <1>3. \/ stage' = "sleep" /\ result' = "none"
        \/ stage' = "done" /\ result' \in {"NotFound", "Storage", "Unavailable", "Io"}
    BY <1>2, ErrorFacts DEF Failed
  <1>4. TypeOK'
    BY <1>1, <1>3 DEF Inv, TypeOK
  <1>5. PendingInv'
    BY <1>1 DEF PendingInv
  <1>6. BlocksInv'
    <2>1. ASSUME NEW w \in pending PROVE w[2] \in {0, w[1]}
      <3>1. w = <<Len(got), got[Len(got)]>> /\ got # <<>> /\ got \in Seq(0..Frames)
        BY DEF Inv, PendingInv, TypeOK
      <3>2. Len(got) \in 1..Len(got)
        BY <3>1
      <3>3. got[Len(got)] \in {0, Len(got)}
        BY <3>2 DEF Inv, BlocksInv
      <3>4. QED
        BY <3>1, <3>3
    <2>2. QED
      BY <1>1, <2>1 DEF Inv, BlocksInv
  <1>7. DiskInv' /\ ResultInv'
    BY <1>3 DEF DiskInv, ResultInv
  <1>8. QED
    BY <1>4, <1>5, <1>6, <1>7 DEF Inv

\* The file is truncated and nothing is received yet.
LEMMA CreateKeeps ==
  ASSUME Inv, Create
  PROVE  Inv'
  <1>1. /\ stage = "create" /\ stage' = "body" /\ disk' = Empty /\ got' = <<>>
        /\ UNCHANGED <<attempt, delay, md5, pending, orphans, result, late>>
    BY DEF Create
  <1>2. pending = {} /\ result = "none"
    BY <1>1 DEF Inv, PendingInv, ResultInv
  <1>3. TypeOK'
    BY <1>1, FramesAssumption DEF Inv, TypeOK, Empty
  <1>4. PendingInv' /\ BlocksInv' /\ ResultInv'
    BY <1>1, <1>2 DEF Inv, PendingInv, BlocksInv, ResultInv
  <1>5. DiskInv'
    BY <1>1, FramesAssumption DEF DiskInv, Matches, Empty
  <1>6. QED
    BY <1>3, <1>4, <1>5 DEF Inv

\* A block arrives and is handed to the pool.
LEMMA FrameKeeps ==
  ASSUME Inv, Frame
  PROVE  Inv'
  <1>1. PICK block \in {0, Len(got) + 1} :
          got' = Append(got, block) /\ pending' = {<<Len(got) + 1, block>>}
    BY DEF Frame
  <1>2. /\ stage = "body" /\ Len(got) < Frames /\ pending = {}
        /\ UNCHANGED <<stage, attempt, delay, md5, orphans, disk, result, late>>
    BY DEF Frame
  <1>3. got \in Seq(0..Frames) /\ Len(got) \in Nat /\ Frames \in Nat
    BY FramesAssumption DEF Inv, TypeOK
  <1>4. block \in 0..Frames /\ Len(got) + 1 \in 1..Frames
    BY <1>2, <1>3
  <1>5. /\ got' \in Seq(0..Frames) /\ Len(got') = Len(got) + 1 /\ got' # <<>>
        /\ got'[Len(got) + 1] = block
        /\ \A j \in 1..Len(got) : got'[j] = got[j]
    BY <1>1, <1>3, <1>4
  <1>6. TypeOK'
    BY <1>1, <1>2, <1>3, <1>4, <1>5 DEF Inv, TypeOK
  <1>7. PendingInv'
    BY <1>1, <1>2, <1>5 DEF PendingInv
  <1>8. BlocksInv'
    <2>1. ASSUME NEW j \in 1..Len(got') PROVE got'[j] \in {0, j}
      <3>1. CASE j \in 1..Len(got)
        BY <1>5, <3>1 DEF Inv, BlocksInv
      <3>2. CASE j = Len(got) + 1
        BY <1>1, <1>5, <3>2
      <3>3. QED
        BY <1>3, <1>5, <3>1, <3>2
    <2>2. QED
      BY <1>2, <2>1 DEF Inv, BlocksInv
  <1>9. DiskInv'
    <2>1. ASSUME NEW j \in 1..Frames PROVE Matches(j)'
      <3>1. Matches(j)
        BY <1>2 DEF Inv, DiskInv
      <3>2. CASE <<j, disk[j]>> \in late
        BY <1>2, <3>2 DEF Matches
      <3>3. CASE j <= Len(got) /\ disk[j] = got[j]
        <4>1. j \in 1..Len(got) /\ j <= Len(got')
          BY <1>3, <1>5, <3>3
        <4>2. disk'[j] = got'[j]
          BY <1>2, <1>5, <3>3, <4>1
        <4>3. QED
          BY <4>1, <4>2 DEF Matches
      <3>4. CASE disk[j] = -1 /\ j > Len(got)
        <4>1. j > Len(got') \/ j = Len(got')
          BY <1>3, <1>5, <3>4
        <4>2. QED
          BY <1>1, <1>2, <3>4, <4>1 DEF Matches
      <3>5. QED
        BY <1>2, <3>1, <3>2, <3>3, <3>4 DEF Matches
    <2>2. QED
      BY <2>1 DEF DiskInv
  <1>10. ResultInv'
    BY <1>2 DEF Inv, ResultInv
  <1>11. QED
    BY <1>6, <1>7, <1>8, <1>9, <1>10 DEF Inv

\* The flush has waited for the last write: what was received is on the disk.
LEMMA VerifyKeeps ==
  ASSUME Inv, Verify
  PROVE  Inv'
  <1>1. stage = "flush" /\ pending = {} /\ UNCHANGED <<md5, got, disk>>
    BY DEF Verify
  <1>2. CASE Failed("Transient")
    BY <1>1, <1>2, FailedKeeps
  <1>3. CASE /\ ~md5 \/ got = Content
             /\ stage' = "done" /\ result' = "Ok"
             /\ Leave /\ UNCHANGED <<attempt, delay>>
    <2>1. pending' = {} /\ orphans' = orphans /\ late' = late
      BY <1>1, <1>3 DEF Leave
    <2>2. TypeOK'
      BY <1>1, <1>3, <2>1 DEF Inv, TypeOK
    <2>3. PendingInv' /\ BlocksInv'
      BY <1>1, <2>1 DEF Inv, PendingInv, BlocksInv
    <2>4. DiskInv'
      BY <1>1, <2>1 DEF Inv, DiskInv, Matches
    <2>5. ResultInv'
      BY <1>1, <1>3 DEF ResultInv, Content
    <2>6. QED
      BY <2>2, <2>3, <2>4, <2>5 DEF Inv
  <1>4. QED
    BY <1>2, <1>3 DEF Verify

\* The pool carries out the write of the open File.
LEMMA PoolWriteKeeps ==
  ASSUME Inv, PoolWrite
  PROVE  Inv'
  <1>1. PICK w \in pending : disk' = [disk EXCEPT ![w[1]] = w[2]]
    BY DEF PoolWrite, Write
  <1>2. pending' = {} /\ UNCHANGED <<stage, attempt, delay, md5, got, orphans, result, late>>
    BY DEF PoolWrite
  <1>3. /\ stage \in {"body", "flush"} /\ got # <<>> /\ w = <<Len(got), got[Len(got)]>>
        /\ got \in Seq(0..Frames) /\ Len(got) <= Frames
        /\ disk \in [1..Frames -> -1..Frames] /\ Frames \in Nat
    BY <1>1, FramesAssumption DEF Inv, PendingInv, TypeOK
  <1>4. Len(got) \in 1..Frames /\ got[Len(got)] \in 0..Frames
    BY <1>3
  <1>5. disk' = [disk EXCEPT ![Len(got)] = got[Len(got)]]
    BY <1>1, <1>3
  <1>6. TypeOK'
    BY <1>2, <1>3, <1>4, <1>5 DEF Inv, TypeOK
  <1>7. PendingInv' /\ BlocksInv' /\ ResultInv'
    BY <1>2 DEF Inv, PendingInv, BlocksInv, ResultInv, Content
  <1>8. DiskInv'
    <2>1. ASSUME NEW j \in 1..Frames PROVE Matches(j)'
      <3>1. CASE j = Len(got)
        BY <1>2, <1>3, <1>4, <1>5, <3>1 DEF Matches
      <3>2. CASE j # Len(got)
        <4>1. Matches(j) /\ disk'[j] = disk[j]
          BY <1>3, <1>5, <3>2 DEF Inv, DiskInv
        <4>2. QED
          BY <1>2, <3>2, <4>1 DEF Matches
      <3>3. QED
        BY <3>1, <3>2
    <2>2. QED
      BY <2>1 DEF DiskInv
  <1>9. QED
    BY <1>6, <1>7, <1>8 DEF Inv

\* The pool carries out a write of a File that was dropped.
LEMMA OrphanWriteKeeps ==
  ASSUME Inv, OrphanWrite
  PROVE  Inv'
  <1>1. PICK w \in orphans : disk' = [disk EXCEPT ![w[1]] = w[2]] /\ orphans' = orphans \ {w}
    BY DEF OrphanWrite, Write
  <1>2. UNCHANGED <<stage, attempt, delay, md5, got, pending, result, late>>
    BY DEF OrphanWrite
  <1>3. /\ w \in late /\ w \in (1..Frames) \X (0..Frames)
        /\ disk \in [1..Frames -> -1..Frames] /\ Frames \in Nat
    BY <1>1, FramesAssumption DEF Inv, TypeOK
  <1>4. w = <<w[1], w[2]>> /\ w[1] \in 1..Frames /\ w[2] \in -1..Frames
    BY <1>3
  <1>5. TypeOK'
    BY <1>1, <1>2, <1>3, <1>4 DEF Inv, TypeOK
  <1>6. PendingInv' /\ BlocksInv' /\ ResultInv'
    BY <1>2 DEF Inv, PendingInv, BlocksInv, ResultInv, Content
  <1>7. DiskInv'
    <2>1. ASSUME NEW j \in 1..Frames, Matches(j) PROVE Matches(j)'
      <3>1. CASE j = w[1]
        <4>1. disk'[j] = w[2]
          BY <1>1, <1>3, <1>4, <3>1
        <4>2. <<j, disk'[j]>> \in late'
          BY <1>2, <1>3, <1>4, <3>1, <4>1
        <4>3. QED
          BY <4>2 DEF Matches
      <3>2. CASE j # w[1]
        <4>1. disk'[j] = disk[j]
          BY <1>1, <1>3, <3>2
        <4>2. QED
          BY <1>2, <2>1, <4>1 DEF Matches
      <3>3. QED
        BY <3>1, <3>2
    <2>2. QED
      BY <1>2, <2>1 DEF Inv, DiskInv
  <1>8. QED
    BY <1>5, <1>6, <1>7 DEF Inv

\* Every step keeps the invariant.
LEMMA StepInv == Inv /\ [Next]_vars => Inv'
  <1> SUFFICES ASSUME Inv, [Next]_vars PROVE Inv'
    OBVIOUS
  <1>1. CASE UNCHANGED vars
    BY <1>1 DEF vars, Inv, TypeOK, PendingInv, BlocksInv, DiskInv, Matches, ResultInv
  <1>2. attempt \in Nat \ {0} /\ delay \in Nat \ {0}
    BY DEF Inv, TypeOK
  <1>3. CASE Wake
    <2>1. attempt + 1 \in Nat \ {0}
      BY <1>2
    <2>2. pending = {}
      BY <1>3 DEF Wake, Inv, PendingInv
    <2>3. QED
      BY <1>2, <1>3, <2>1, <2>2, DelayFacts, QuietKeeps DEF Wake
  <1>4. CASE Headers
    <2>1. pending = {}
      BY <1>4 DEF Headers, Inv, PendingInv
    <2>2. QED
      BY <1>2, <1>4, <2>1, QuietKeeps DEF Headers
  <1>5. CASE BodyEnds
    BY <1>2, <1>5, QuietKeeps DEF BodyEnds
  <1>6. CASE Refused
    BY <1>6, Classified, FailedKeeps DEF Refused
  <1>7. CASE \E b \in Breaks : RequestBreaks(b)
    BY <1>7, Classified, FailedKeeps DEF RequestBreaks
  <1>8. CASE CreateFails \/ WriteFails \/ BodyBreaks("idle") \/ BodyBreaks("error")
    BY <1>8, FailedKeeps DEF CreateFails, WriteFails, BodyBreaks
  <1>9. CASE Create \/ Frame \/ Verify
    BY <1>9, CreateKeeps, FrameKeeps, VerifyKeeps
  <1>10. CASE PoolWrite \/ OrphanWrite
    BY <1>10, PoolWriteKeeps, OrphanWriteKeeps
  <1>11. "timeout" \in Breaks
    BY DEF Breaks
  <1>12. QED
    BY <1>1, <1>3, <1>4, <1>5, <1>6, <1>7, <1>8, <1>9, <1>10, <1>11
    DEF Next, Progress, Server, Finished

\* The inductive invariant always holds.
THEOREM InvCorrect == Spec => []Inv
  <1>1. Init => Inv
    BY InitInv
  <1>2. Inv /\ [Next]_vars => Inv'
    BY StepInv
  <1>3. QED
    BY <1>1, <1>2, PTL DEF Spec

\* An attempt never receives more frames than the file has, and nothing but
\* frames of the file is ever pending or written.
THEOREM TypeCorrect == Spec => []TypeOK
  <1>1. Inv => TypeOK
    BY DEF Inv
  <1>2. QED
    BY <1>1, InvCorrect, PTL

\* After Ok the file is what the accepted attempt received, up to the writes
\* that dropped Files had left to the pool (download_once under retry).
THEOREM AcceptedIsReceivedCorrect == Spec => []AcceptedIsReceived
  <1>1. Inv => AcceptedIsReceived
    <2>1. SUFFICES ASSUME Inv, result = "Ok", NEW i \in 1..Frames
                   PROVE  \/ disk[i] = IF i <= Len(got) THEN got[i] ELSE -1
                          \/ <<i, disk[i]>> \in late
      BY DEF AcceptedIsReceived
    <2>2. Matches(i) /\ pending = {}
      BY <2>1 DEF Inv, DiskInv, PendingInv, ResultInv
    <2>3. Len(got) \in Nat /\ Frames \in Nat
      BY <2>1, FramesAssumption DEF Inv, TypeOK
    <2>4. QED
      BY <2>2, <2>3 DEF Matches
  <1>2. QED
    BY <1>1, InvCorrect, PTL

\* After Ok with a checksum the file is the one on Drive, unless a dropped
\* File had left a damaged block to the pool.
THEOREM DownloadIntactCorrect == Spec => []DownloadIntact
  <1>1. Inv => DownloadIntact
    <2>1. SUFFICES ASSUME Inv, result = "Ok", md5, \A w \in late : w[2] # 0
                   PROVE  disk = Content
      BY DEF DownloadIntact
    <2>2. /\ got = Content /\ pending = {} /\ \A i \in 1..Frames : Matches(i)
          /\ disk \in [1..Frames -> -1..Frames] /\ Frames \in Nat
      BY <2>1, FramesAssumption DEF Inv, DiskInv, PendingInv, ResultInv, TypeOK
    <2>3. Content \in Seq(Nat) /\ Len(Content) = Frames /\ \A i \in 1..Frames : Content[i] = i
      BY <2>2 DEF Content
    <2>4. ASSUME NEW i \in 1..Frames PROVE disk[i] = i
      <3>1. CASE <<i, disk[i]>> \in late
        <4>1. <<i, disk[i]>>[2] \in {0, <<i, disk[i]>>[1]} /\ <<i, disk[i]>>[2] # 0
          BY <2>1, <3>1 DEF Inv, BlocksInv
        <4>2. QED
          BY <4>1
      <3>2. CASE i <= Len(got) /\ disk[i] = got[i]
        BY <2>2, <2>3, <3>2
      <3>3. ~(i > Len(got))
        BY <2>2, <2>3
      <3>4. QED
        BY <2>2, <3>1, <3>2, <3>3 DEF Matches
    <2>5. QED
      BY <2>2, <2>4 DEF Content
  <1>2. QED
    BY <1>1, InvCorrect, PTL

----------------------------------------------------------------------------
(***************************************************************************)
(* The stream to the client.  The inductive invariant counts: what a       *)
(* client has got and what waits in its channel are the first messages of  *)
(* the stream, and how many they are follows from where the task is.       *)
(***************************************************************************)

\* The messages got so far are the first ones, the channel goes on from there
\* and only its last message may be a Status, which the task sends last.
InOrder(c) ==
    /\ \A i \in 1..Len(received[c]) : received[c][i] = i - 1
    /\ \A j \in 1..Len(channel[c]) :
         \/ channel[c][j] = Len(received[c]) + j - 1 /\ channel[c][j] # Error
         \/ channel[c][j] = Error /\ j = Len(channel[c]) /\ task[c] = "end"

Total(c) == Len(received[c]) + Len(channel[c])

\* How far the task is.
Counted(c) ==
    /\ task[c] # "none"
    /\ task[c] = "open" => position[c] = 0 /\ Total(c) = 1
    /\ task[c] = "read" => Total(c) = position[c] + 1
    /\ task[c] = "send" =>
         \/ hand[c] = Info /\ position[c] = 0 /\ Total(c) = 0
         \/ hand[c] = Error /\ Total(c) = position[c] + 1
         \/ hand[c] = position[c] /\ hand[c] # Info /\ Total(c) = position[c]
    /\ task[c] = "end" =>
         \/ Total(c) = Chunks + 1 /\ \A j \in 1..Len(channel[c]) : channel[c][j] # Error
         \/ channel[c] # <<>> /\ channel[c][Len(channel[c])] = Error

\* ReceivedInOrder for one client.
Ordered(c) ==
    \A i \in 1..Len(received[c]) :
      IF received[c][i] = Error
      THEN i = Len(received[c]) /\ stream[c] = "error"
      ELSE received[c][i] = i - 1

\* What holds of one client's stream.
ClientInv(c) ==
    /\ stream[c] \in {"none", "called"} =>
         /\ task[c] \in {"none", "end"}
         /\ channel[c] = <<>> /\ received[c] = <<>> /\ position[c] = 0
    /\ stream[c] = "open" => InOrder(c) /\ Counted(c)
    /\ stream[c] = "ok" => received[c] = Whole
    /\ Ordered(c)

\* The inductive invariant.
StreamInv ==
    /\ StreamTypeOK
    /\ \A c \in Clients : ClientInv(c)

----------------------------------------------------------------------------
\* StreamSpec starts in the invariant.
LEMMA StreamInitInv == StreamInit => StreamInv
  <1> SUFFICES ASSUME StreamInit PROVE StreamInv
    OBVIOUS
  <1>1. StreamTypeOK
    BY StreamAssumption DEF StreamInit, StreamTypeOK, Messages, Info
  <1>2. \A c \in Clients : ClientInv(c)
    BY DEF StreamInit, ClientInv, Ordered
  <1>3. QED
    BY <1>1, <1>2 DEF StreamInv

\* A step that leaves a client's stream alone keeps what holds of it.
LEMMA ClientFrame ==
  ASSUME NEW d \in Clients, ClientInv(d),
         task'[d] = task[d], position'[d] = position[d], hand'[d] = hand[d],
         channel'[d] = channel[d], stream'[d] = stream[d], received'[d] = received[d]
  PROVE  ClientInv(d)'
  BY DEF ClientInv, InOrder, Counted, Total, Ordered

\* The type of the state is kept by the steps of a client's stream.
LEMMA TypeStep ==
  ASSUME StreamTypeOK, NEW c \in Clients,
         Accept(c) \/ Handles(c) \/ TaskStep(c) \/ Fail(c) \/ Reads(c) \/ Gone(c)
  PROVE  StreamTypeOK'
  <1> USE StreamAssumption DEF StreamTypeOK, Messages, Info, Error, Over
  <1>1. CASE Accept(c) \/ Refuse(c) \/ Answer(c)
    <2>1. CASE Accept(c) \/ Refuse(c)
      BY <2>1 DEF Accept, Refuse
    <2>2. CASE Answer(c)
      BY <2>2 DEF Answer
    <2>3. QED
      BY <1>1, <2>1, <2>2
  <1>2. CASE Open(c)
    BY <1>2 DEF Open
  <1>3. CASE Fail(c)
    BY <1>3 DEF Fail
  <1>4. CASE ReadChunk(c)
    BY <1>4 DEF ReadChunk
  <1>5. CASE ReadEnd(c)
    BY <1>5 DEF ReadEnd, EndTask
  <1>6. CASE Send(c)
    <2>1. channel' \in [Clients -> Seq(Messages)] /\ \A d \in Clients : Len(channel'[d]) <= Buffer
      BY <1>6 DEF Send
    <2>2. task' \in [Clients -> {"none", "open", "read", "send", "end"}]
      BY <1>6 DEF Send, EndTask
    <2>3. file' \in [Clients -> BOOLEAN]
      BY <1>6 DEF Send, EndTask
    <2>4. QED
      BY <1>6, <2>1, <2>2, <2>3 DEF Send
  <1>7. CASE SendFails(c)
    BY <1>7 DEF SendFails, EndTask
  <1>8. CASE Receive(c)
    BY <1>8 DEF Receive
  <1>9. CASE Finish(c)
    BY <1>9 DEF Finish
  <1>10. CASE Gone(c)
    BY <1>10 DEF Gone
  <1>11. QED
    BY <1>1, <1>2, <1>3, <1>4, <1>5, <1>6, <1>7, <1>8, <1>9, <1>10 DEF Handles, TaskStep, Reads

----------------------------------------------------------------------------
\* The types the steps below need, before and after.
Typing ==
    /\ channel \in [Clients -> Seq(Messages)] /\ received \in [Clients -> Seq(Messages)]
    /\ position \in [Clients -> Nat] /\ hand \in [Clients -> Nat]

\* They are part of the type of the state.
LEMMA Typed == StreamTypeOK => Typing
  BY StreamAssumption DEF StreamTypeOK, Typing, Messages

\* And after a step.
LEMMA TypedNext == StreamTypeOK' => Typing'
  BY StreamAssumption DEF StreamTypeOK, Typing, Messages

\* The steps of a client's stream, one by one, on that stream.  Until it is
\* answered, or refused, nothing was sent.
LEMMA AcceptInv ==
  ASSUME StreamTypeOK, StreamTypeOK', NEW c \in Clients, ClientInv(c), Accept(c) \/ Refuse(c)
  PROVE  ClientInv(c)'
  <1>1. /\ stream[c] \in {"none", "called"} /\ stream'[c] \in {"called", "error"}
        /\ UNCHANGED <<task, position, channel, received>>
    BY DEF StreamTypeOK, Accept, Refuse
  <1>2. received[c] = <<>>
    BY <1>1 DEF ClientInv
  <1>3. QED
    BY <1>1, <1>2 DEF ClientInv, Ordered

\* The header is in hand before anything was sent.
LEMMA AnswerInv ==
  ASSUME StreamTypeOK, StreamTypeOK', NEW c \in Clients, ClientInv(c), Answer(c)
  PROVE  ClientInv(c)'
  <1>1. /\ stream'[c] = "open" /\ task'[c] = "send" /\ hand'[c] = Info
        /\ position'[c] = 0 /\ channel'[c] = <<>> /\ received'[c] = <<>>
    BY DEF StreamTypeOK, Answer, ClientInv
  <1>2. QED
    BY <1>1 DEF ClientInv, InOrder, Counted, Total, Ordered

\* The file is opened after the header went out.
LEMMA OpenInv ==
  ASSUME StreamTypeOK, StreamTypeOK', NEW c \in Clients, ClientInv(c), Open(c)
  PROVE  ClientInv(c)'
  <1>1. /\ task[c] = "open" /\ task'[c] = "read"
        /\ position' = position /\ channel' = channel /\ stream' = stream /\ received' = received
    BY DEF StreamTypeOK, Open
  <1>2. QED
    BY <1>1, Typed DEF Typing, ClientInv, InOrder, Counted, Total, Ordered

\* An error is in hand after all the chunks read so far were sent.
LEMMA FailInv ==
  ASSUME StreamTypeOK, StreamTypeOK', NEW c \in Clients, ClientInv(c), Fail(c)
  PROVE  ClientInv(c)'
  <1>1. /\ task[c] \in {"open", "read"} /\ task'[c] = "send" /\ hand'[c] = Error
        /\ position' = position /\ channel' = channel /\ stream' = stream /\ received' = received
    BY DEF StreamTypeOK, Fail
  <1>2. ASSUME stream[c] = "open" PROVE InOrder(c)'
    <2>1. InOrder(c)
      BY <1>2 DEF ClientInv
    <2>2. QED
      BY <1>1, <2>1 DEF InOrder
  <1>3. ASSUME stream[c] = "open" PROVE Counted(c)'
    <2>1. Counted(c)
      BY <1>3 DEF ClientInv
    <2>2. Total(c)' = Total(c)
      BY <1>1 DEF Total
    <2>3. QED
      BY <1>1, <2>1, <2>2 DEF Counted
  <1>4. QED
    BY <1>1, <1>2, <1>3 DEF ClientInv, Ordered

\* The chunk in hand is the next one of the stream.
LEMMA ReadChunkInv ==
  ASSUME StreamTypeOK, StreamTypeOK', NEW c \in Clients, ClientInv(c), ReadChunk(c)
  PROVE  ClientInv(c)'
  <1>1. /\ task[c] = "read" /\ task'[c] = "send" /\ position[c] \in Nat
        /\ position'[c] = position[c] + 1 /\ hand'[c] = position[c] + 1
        /\ channel' = channel /\ stream' = stream /\ received' = received
    BY StreamAssumption DEF StreamTypeOK, ReadChunk
  <1>2. QED
    BY <1>1 DEF ClientInv, InOrder, Counted, Total, Info, Ordered

\* At the end of the file everything was sent, and no Status.
LEMMA ReadEndInv ==
  ASSUME StreamTypeOK, StreamTypeOK', NEW c \in Clients, ClientInv(c), ReadEnd(c)
  PROVE  ClientInv(c)'
  <1>1. /\ task[c] = "read" /\ task'[c] = "end" /\ position[c] = Chunks
        /\ position' = position /\ channel' = channel /\ stream' = stream /\ received' = received
    BY DEF StreamTypeOK, ReadEnd, EndTask
  <1>2. QED
    BY <1>1 DEF ClientInv, InOrder, Counted, Total, Ordered

\* What is sent continues the channel; a Status is the last message.
LEMMA SendInv ==
  ASSUME StreamTypeOK, StreamTypeOK', NEW c \in Clients, ClientInv(c), Send(c)
  PROVE  ClientInv(c)'
  <1>1. /\ task[c] = "send" /\ stream[c] = "open" /\ stream' = stream
        /\ position' = position /\ hand' = hand /\ received' = received
        /\ channel'[c] = Append(channel[c], hand[c])
        /\ received[c] \in Seq(Messages) /\ channel[c] \in Seq(Messages)
        /\ hand[c] \in Messages /\ position[c] \in 0..Chunks
    BY DEF StreamTypeOK, Send
  <1>2. task'[c] = (IF hand[c] = Error THEN "end" ELSE IF hand[c] = Info THEN "open" ELSE "read")
    BY DEF StreamTypeOK, Send, EndTask
  <1>3. InOrder(c) /\ Counted(c)
    BY <1>1 DEF ClientInv
  <1>4. /\ Len(channel'[c]) = Len(channel[c]) + 1
        /\ channel'[c][Len(channel[c]) + 1] = hand[c]
        /\ \A j \in 1..Len(channel[c]) : channel'[c][j] = channel[c][j]
    BY <1>1
  <1>5. /\ Len(received[c]) \in Nat /\ Len(channel[c]) \in Nat
    BY <1>1
  <1>6. hand[c] = Error \/ hand[c] = Total(c)
    BY <1>1, <1>3, <1>5 DEF Counted, Total, Info
  <1>7. InOrder(c)'
    <2>1. \A i \in 1..Len(received'[c]) : received'[c][i] = i - 1
      BY <1>1, <1>3 DEF InOrder
    <2>2. ASSUME NEW j \in 1..Len(channel[c])
          PROVE  channel'[c][j] = Len(received'[c]) + j - 1 /\ channel'[c][j] # Error
      BY <1>1, <1>3, <1>4 DEF InOrder
    <2>3. hand[c] = Error => task'[c] = "end"
      BY <1>2
    <2>4. Len(channel[c]) + 1 = Len(channel'[c])
      BY <1>4
    <2>5. hand[c] # Error => hand[c] = Len(received'[c]) + (Len(channel[c]) + 1) - 1
      BY <1>1, <1>5, <1>6, Typed, TypedNext DEF Typing, Total
    <2>6. ASSUME NEW j \in 1..Len(channel'[c]), j \notin 1..Len(channel[c])
          PROVE  j = Len(channel[c]) + 1
      BY <1>5, <2>4, <2>6
    <2>7. ASSUME NEW j \in 1..Len(channel'[c])
          PROVE  \/ channel'[c][j] = Len(received'[c]) + j - 1 /\ channel'[c][j] # Error
                 \/ channel'[c][j] = Error /\ j = Len(channel'[c]) /\ task'[c] = "end"
      BY <1>4, <2>2, <2>3, <2>4, <2>5, <2>6
    <2>8. QED
      BY <2>1, <2>7 DEF InOrder
  <1>8. Counted(c)'
    <2>1. Total(c)' = Total(c) + 1 /\ Total(c) \in Nat
      BY <1>1, <1>4, <1>5, Typed, TypedNext DEF Typing, Total
    <2>2. CASE hand[c] = Error
      <3>1. task'[c] = "end" /\ channel'[c] # <<>> /\ channel'[c][Len(channel'[c])] = Error
        BY <1>2, <1>4, <1>5, <2>2
      <3>2. QED
        BY <3>1 DEF Counted
    <2>3. CASE hand[c] = Info
      <3>1. task'[c] = "open" /\ position[c] = 0 /\ Total(c) = 0
        BY <1>1, <1>2, <1>3, <2>3, StreamAssumption DEF Counted, Info, Error
      <3>2. QED
        BY <1>1, <2>1, <3>1 DEF Counted
    <2>4. CASE hand[c] # Error /\ hand[c] # Info
      <3>1. task'[c] = "read" /\ Total(c) = position[c]
        BY <1>1, <1>2, <1>3, <2>4 DEF Counted
      <3>2. QED
        BY <1>1, <2>1, <3>1 DEF Counted
    <2>5. QED
      BY <2>2, <2>3, <2>4
  <1>9. QED
    BY <1>1, <1>7, <1>8 DEF ClientInv, Ordered

\* The receiver of a send that fails has left; what it got stays as it is.
LEMMA SendFailsInv ==
  ASSUME StreamTypeOK, StreamTypeOK', NEW c \in Clients, ClientInv(c), SendFails(c)
  PROVE  ClientInv(c)'
  <1>1. /\ stream[c] \notin {"none", "called", "open"}
        /\ stream' = stream /\ received' = received
    BY DEF SendFails, Over
  <1>2. QED
    BY <1>1 DEF ClientInv, Ordered

\* A message moves from the channel to the client.
LEMMA ReceiveInv ==
  ASSUME StreamTypeOK, StreamTypeOK', NEW c \in Clients, ClientInv(c), Receive(c)
  PROVE  ClientInv(c)'
  <1> DEFINE m == Head(channel[c])
  <1>1. /\ stream[c] = "open" /\ channel[c] # <<>>
        /\ position' = position /\ hand' = hand /\ task' = task
        /\ channel'[c] = Tail(channel[c]) /\ received'[c] = Append(received[c], m)
        /\ received[c] \in Seq(Messages) /\ channel[c] \in Seq(Messages)
        /\ stream'[c] = (IF m = Error THEN "error" ELSE "open")
    BY DEF StreamTypeOK, Receive
  <1>2. CASE m = Error
    <2>1. /\ Len(received'[c]) = Len(received[c]) + 1 /\ Len(received[c]) \in Nat
          /\ received'[c][Len(received[c]) + 1] = Error
          /\ \A i \in 1..Len(received[c]) : received'[c][i] = received[c][i]
      BY <1>1, <1>2 DEF Messages, Error
    <2>2. \A i \in 1..Len(received[c]) : received[c][i] # Error /\ received[c][i] = i - 1
      BY <1>1 DEF ClientInv, Ordered
    <2>3. Ordered(c)'
      BY <1>1, <1>2, <2>1, <2>2 DEF Ordered
    <2>4. QED
      BY <1>1, <1>2, <2>3 DEF ClientInv
  <1>3. CASE m # Error
    <2>1. InOrder(c) /\ Counted(c) /\ stream'[c] = "open"
      BY <1>1, <1>3 DEF ClientInv
    <2>2. /\ Len(channel[c]) \in Nat \ {0} /\ Len(received[c]) \in Nat
          /\ m = channel[c][1]
          /\ Len(channel'[c]) = Len(channel[c]) - 1
          /\ \A j \in 1..Len(channel[c]) - 1 : channel'[c][j] = channel[c][j + 1]
      BY <1>1
    <2>3. /\ m \in Messages
          /\ Len(received'[c]) = Len(received[c]) + 1
          /\ received'[c][Len(received[c]) + 1] = m
          /\ \A i \in 1..Len(received[c]) : received'[c][i] = received[c][i]
      BY <1>1, <2>2
    <2>4. m = Len(received[c])
      BY <1>3, <2>1, <2>2 DEF InOrder
    <2>5. InOrder(c)'
      <3>1. ASSUME NEW i \in 1..Len(received'[c]), i \notin 1..Len(received[c])
            PROVE  i = Len(received[c]) + 1
        BY <2>2, <2>3, <3>1
      <3>2. ASSUME NEW i \in 1..Len(received'[c])
            PROVE  received'[c][i] = i - 1
        BY <2>1, <2>2, <2>3, <2>4, <3>1 DEF InOrder
      <3>3. ASSUME NEW j \in 1..Len(channel'[c])
            PROVE  \/ channel'[c][j] = Len(received'[c]) + j - 1 /\ channel'[c][j] # Error
                   \/ channel'[c][j] = Error /\ j = Len(channel'[c]) /\ task'[c] = "end"
        <4>1. /\ j \in Nat /\ j + 1 \in 1..Len(channel[c])
              /\ channel'[c][j] = channel[c][j + 1]
          BY <2>2
        <4>2. \/ channel[c][j + 1] = Len(received[c]) + (j + 1) - 1 /\ channel[c][j + 1] # Error
              \/ channel[c][j + 1] = Error /\ j + 1 = Len(channel[c]) /\ task[c] = "end"
          BY <2>1, <4>1 DEF InOrder
        <4>3. Len(received[c]) + (j + 1) - 1 = Len(received'[c]) + j - 1
          BY <2>2, <2>3, <4>1, Typed, TypedNext DEF Typing
        <4>4. j + 1 = Len(channel[c]) => j = Len(channel'[c])
          BY <2>2, <4>1
        <4>5. QED
          BY <1>1, <4>1, <4>2, <4>3, <4>4
      <3>4. QED
        BY <3>2, <3>3 DEF InOrder
    <2>6. Total(c)' = Total(c)
      BY <2>2, <2>3, Typed, TypedNext DEF Typing, Total
    <2>7. Counted(c)'
      <3>1. CASE task[c] # "end"
        BY <1>1, <2>1, <2>6, <3>1 DEF Counted
      <3>2. CASE task[c] = "end" /\ \A j \in 1..Len(channel[c]) : channel[c][j] # Error
        <4>1. Total(c) = Chunks + 1
          BY <2>1, <2>2, <3>2 DEF Counted
        <4>2. ASSUME NEW j \in 1..Len(channel'[c]) PROVE channel'[c][j] # Error
          BY <2>2, <3>2
        <4>3. QED
          BY <1>1, <2>6, <3>2, <4>1, <4>2 DEF Counted
      <3>3. CASE task[c] = "end" /\ channel[c][Len(channel[c])] = Error
        <4>1. Len(channel[c]) - 1 \in 1..Len(channel[c]) - 1
          BY <1>3, <2>2, <3>3
        <4>2. channel'[c][Len(channel'[c])] = Error
          BY <2>2, <3>3, <4>1
        <4>3. channel'[c] # <<>>
          BY <2>2, <4>1
        <4>4. QED
          BY <1>1, <3>3, <4>2, <4>3 DEF Counted
      <3>4. QED
        BY <2>1, <3>1, <3>2, <3>3 DEF Counted
    <2>8. Ordered(c)'
      <3>1. \A i \in 1..Len(received[c]) : received[c][i] # Error
        BY <1>1 DEF ClientInv, Ordered
      <3>2. ASSUME NEW i \in 1..Len(received'[c])
            PROVE  received'[c][i] # Error
        <4>1. i \in 1..Len(received[c]) \/ i = Len(received[c]) + 1
          BY <2>2, <2>3
        <4>2. QED
          BY <1>3, <2>3, <3>1, <4>1
      <3>3. \A i \in 1..Len(received'[c]) : received'[c][i] = i - 1
        BY <2>5 DEF InOrder
      <3>4. QED
        BY <3>2, <3>3 DEF Ordered
    <2>9. QED
      BY <2>1, <2>5, <2>7, <2>8 DEF ClientInv
  <1>4. QED
    BY <1>2, <1>3

\* A stream that ends without a Status is whole.
LEMMA FinishInv ==
  ASSUME StreamTypeOK, StreamTypeOK', NEW c \in Clients, ClientInv(c), Finish(c)
  PROVE  ClientInv(c)'
  <1>1. /\ stream[c] = "open" /\ channel[c] = <<>> /\ task[c] = "end"
        /\ stream'[c] = "ok" /\ received' = received /\ received[c] \in Seq(Messages)
    BY DEF StreamTypeOK, Finish
  <1>2. Len(received[c]) = Chunks + 1 /\ \A i \in 1..Len(received[c]) : received[c][i] = i - 1
    <2>1. InOrder(c) /\ Counted(c)
      BY <1>1 DEF ClientInv
    <2>2. Total(c) = Chunks + 1
      BY <1>1, <2>1 DEF Counted
    <2>3. Total(c) = Len(received[c])
      BY <1>1 DEF Total
    <2>4. QED
      BY <2>1, <2>2, <2>3 DEF InOrder
  <1>3. received[c] = Whole
    BY <1>1, <1>2, Typed, StreamAssumption DEF Typing, Whole, Info
  <1>4. QED
    BY <1>1, <1>3 DEF ClientInv, Ordered

\* A client that left keeps what it got.
LEMMA GoneInv ==
  ASSUME StreamTypeOK, StreamTypeOK', NEW c \in Clients, ClientInv(c), Gone(c)
  PROVE  ClientInv(c)'
  BY DEF StreamTypeOK, Gone, ClientInv, Ordered

----------------------------------------------------------------------------
\* A step of one client's stream leaves the others alone.
LEMMA Others ==
  ASSUME StreamTypeOK, NEW c \in Clients, NEW d \in Clients, d # c,
         Accept(c) \/ Handles(c) \/ TaskStep(c) \/ Fail(c) \/ Reads(c) \/ Gone(c)
  PROVE  /\ task'[d] = task[d] /\ position'[d] = position[d] /\ hand'[d] = hand[d]
         /\ channel'[d] = channel[d] /\ stream'[d] = stream[d] /\ received'[d] = received[d]
  <1> USE DEF StreamTypeOK
  <1>1. CASE Accept(c) \/ Refuse(c) \/ Answer(c)
    BY <1>1 DEF Accept, Refuse, Answer
  <1>2. CASE Open(c)
    BY <1>2 DEF Open
  <1>3. CASE Fail(c)
    BY <1>3 DEF Fail
  <1>4. CASE ReadChunk(c)
    BY <1>4 DEF ReadChunk
  <1>5. CASE ReadEnd(c)
    BY <1>5 DEF ReadEnd, EndTask
  <1>6. CASE Send(c)
    BY <1>6 DEF Send, EndTask
  <1>7. CASE SendFails(c)
    BY <1>7 DEF SendFails, EndTask
  <1>8. CASE Receive(c)
    BY <1>8 DEF Receive
  <1>9. CASE Finish(c)
    BY <1>9 DEF Finish
  <1>10. CASE Gone(c)
    BY <1>10 DEF Gone
  <1>11. QED
    BY <1>1, <1>2, <1>3, <1>4, <1>5, <1>6, <1>7, <1>8, <1>9, <1>10 DEF Handles, TaskStep, Reads

\* Every step keeps the invariant.
LEMMA StreamStepInv == StreamInv /\ [StreamNext]_streamVars => StreamInv'
  <1> SUFFICES ASSUME StreamInv, [StreamNext]_streamVars PROVE StreamInv'
    OBVIOUS
  <1>1. StreamTypeOK /\ \A c \in Clients : ClientInv(c)
    BY DEF StreamInv
  <1>2. ASSUME NEW c \in Clients,
               Accept(c) \/ Handles(c) \/ TaskStep(c) \/ Fail(c) \/ Reads(c) \/ Gone(c)
        PROVE  StreamInv'
    <2>1. StreamTypeOK'
      BY <1>1, <1>2, TypeStep
    <2>2. ClientInv(c)'
      BY <1>1, <1>2, <2>1, AcceptInv, AnswerInv, OpenInv, FailInv, ReadChunkInv, ReadEndInv,
         SendInv, SendFailsInv, ReceiveInv, FinishInv, GoneInv DEF Handles, TaskStep, Reads
    <2>3. ASSUME NEW d \in Clients, d # c PROVE ClientInv(d)'
      <3>1. /\ task'[d] = task[d] /\ position'[d] = position[d] /\ hand'[d] = hand[d]
            /\ channel'[d] = channel[d] /\ stream'[d] = stream[d] /\ received'[d] = received[d]
        BY <1>1, <1>2, <2>3, Others
      <3>2. QED
        BY <1>1, <3>1, ClientFrame
    <2>4. QED
      BY <2>1, <2>2, <2>3 DEF StreamInv
  <1>3. ASSUME UNCHANGED <<task, position, hand, channel, stream, received, file>>,
               server' = server \/ Signal
        PROVE  StreamInv'
    <2>1. StreamTypeOK'
      BY <1>1, <1>3 DEF StreamTypeOK, Signal
    <2>2. \A d \in Clients : ClientInv(d)'
      BY <1>1, <1>3, ClientFrame
    <2>3. QED
      BY <2>1, <2>2 DEF StreamInv
  <1>4. CASE Exit
    <2>1. StreamTypeOK'
      BY <1>1, <1>4 DEF StreamTypeOK, Exit
    <2>2. \A d \in Clients : ClientInv(d)'
      BY <1>1, <1>4 DEF Exit, ClientInv, Ordered
    <2>3. QED
      BY <2>1, <2>2 DEF StreamInv
  <1>5. CASE Signal
    BY <1>3, <1>5 DEF Signal
  <1>6. CASE UNCHANGED streamVars
    BY <1>3, <1>6 DEF streamVars
  <1>7. QED
    BY <1>2, <1>4, <1>5, <1>6 DEF StreamNext, Stopped

\* Whatever the number of clients, the size of the file and the buffer: the
\* invariant always holds.
THEOREM StreamInvCorrect == StreamSpec => []StreamInv
  <1>1. StreamInit => StreamInv
    BY StreamInitInv
  <1>2. StreamInv /\ [StreamNext]_streamVars => StreamInv'
    BY StreamStepInv
  <1>3. QED
    BY <1>1, <1>2, PTL DEF StreamSpec

\* The channel of stream_file never holds more messages than its buffer, and
\* a task never reads past the end of the file.
THEOREM StreamTypeCorrect == StreamSpec => []StreamTypeOK
  <1>1. StreamInv => StreamTypeOK
    BY DEF StreamInv
  <1>2. QED
    BY <1>1, StreamInvCorrect, PTL

\* A download that ends without an error status delivered the whole file, in
\* order (stream_file and its channel).
THEOREM StreamWholeCorrect == StreamSpec => []StreamWhole
  <1>1. StreamInv => StreamWhole
    BY DEF StreamInv, ClientInv, StreamWhole
  <1>2. QED
    BY <1>1, StreamInvCorrect, PTL

\* Whatever cuts a download short, a read error, a client that leaves or the
\* shutdown, the client has a beginning of the file (stream_file and its
\* channel).
THEOREM ReceivedInOrderCorrect == StreamSpec => []ReceivedInOrder
  <1>1. StreamInv => ReceivedInOrder
    BY DEF StreamInv, ClientInv, Ordered, ReceivedInOrder
  <1>2. QED
    BY <1>1, StreamInvCorrect, PTL
=============================================================================
