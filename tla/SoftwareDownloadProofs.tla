----------------------- MODULE SoftwareDownloadProofs -----------------------
(***************************************************************************)
(* The upload for files and numbers of tries of any size: what its retries *)
(* mask, that with these failures alone the file arrives, and that there   *)
(* are only so many requests.                                              *)
(***************************************************************************)
EXTENDS SoftwareDownload, TLAPS

\* What the script knows after an answer with status 200, and afterwards.
Acknowledged == answer = "ok" /\ chunk <= Blocks

HashInv ==
  /\ HeaderFirst
  /\ ~first_iteration \/ Acknowledged => hash

\* The image ends before the block that is sent, or with it once that has been
\* acknowledged.
OrderInv ==
  ~unanswered =>
    /\ \A i, j \in DOMAIN image : i < j => image[i] < image[j]
    /\ Acknowledged => \A i \in DOMAIN image : image[i] <= chunk
    /\ ~first_iteration /\ answer # "ok" => \A i \in DOMAIN image : image[i] < chunk
    /\ ~first_iteration /\ chunk > Blocks => \A i \in DOMAIN image : image[i] < chunk

CoverInv ==
  /\ NoneMissing
  /\ first_iteration => 1 .. chunk - 1 \subseteq given_up
  /\ Acknowledged => \E i \in DOMAIN image : image[i] = chunk

\* With nothing given up, the image is the file as far as it has been sent.
Sent(n) == [i \in 1 .. n |-> i]
FileInv ==
  /\ FileArrives
  /\ completed # {} => chunk > Blocks
  /\ ~unanswered /\ given_up = {} =>
       /\ Acknowledged => image = Sent(chunk)
       /\ ~first_iteration /\ ~Acknowledged => image = Sent(chunk - 1)

Inv == TypeOK /\ HashInv /\ OrderInv /\ CoverInv /\ FileInv

\* One more block makes the file sent so far one block longer.
LEMMA SentNext ==
  ASSUME NEW n \in Nat \ {0}
  PROVE  Append(Sent(n - 1), n) = Sent(n)
  BY DEF Sent

\* The status of an answer with 200.
LEMMA AnswerStatus ==
  ASSUME NEW status \in BOOLEAN, NEW a \in Answer(status)
  PROVE  a \in {"ok", "nok", "empty", "reset"} /\ (a = "ok" => status)
  BY DEF Answer, Lost

\* At the start nothing has been written.
LEMMA InvInit == Init => Inv
<1> SUFFICES ASSUME Init PROVE Inv
  OBVIOUS
<1> USE DownloadAssumption DEF Init
<1>1. TypeOK
  <2>1. chunk \in 1 .. Blocks + 1 /\ tries \in 0 .. RETRIES - 1
    OBVIOUS
  <2>2. {first_iteration, hash, unanswered} \subseteq BOOLEAN
    OBVIOUS
  <2>3. <<>> \in Seq(1 .. Blocks)
    OBVIOUS
  <2> QED
    BY <2>1, <2>2, <2>3 DEF TypeOK
<1>2. HashInv /\ OrderInv /\ CoverInv /\ FileInv
  BY DEF HashInv, HeaderFirst, OrderInv, CoverInv, NoneMissing, FileInv, FileArrives,
         Acknowledged
<1> QED
  BY <1>1, <1>2 DEF Inv

\* The variables keep their types.
LEMMA TypeOKStep == TypeOK /\ [Next]_vars => TypeOK'
<1> SUFFICES ASSUME TypeOK, [Next]_vars PROVE TypeOK'
  OBVIOUS
<1> USE DownloadAssumption DEF TypeOK
<1>1. Initialised \in Seq(1 .. Blocks)
  <2>1. <<>> \in Seq(1 .. Blocks)
    OBVIOUS
  <2> QED
    BY <2>1 DEF Initialised
<1>2. CASE HeaderFails
  BY <1>1, <1>2, AnswerStatus DEF HeaderFails, host
<1>3. CASE WriteBlock
  <2>1. chunk \in 1 .. Blocks
    BY <1>3 DEF WriteBlock
  <2>2. image' \in Seq(1 .. Blocks)
    BY <1>1, <1>3, <2>1 DEF WriteBlock
  <2>3. answer' \in {"none", "ok", "nok", "empty", "reset"}
    BY <1>3, AnswerStatus DEF WriteBlock
  <2>4. hash' \in BOOLEAN /\ unanswered' \in BOOLEAN
    BY <1>3 DEF WriteBlock
  <2> QED
    BY <1>3, <2>2, <2>3, <2>4 DEF WriteBlock, host
<1>4. CASE WriteFails
  <2>1. hash' \in BOOLEAN
    BY <1>4 DEF WriteFails
  <2>2. answer' \in {"none", "ok", "nok", "empty", "reset"}
    BY <1>4, AnswerStatus DEF WriteFails
  <2> QED
    BY <1>1, <1>4, <2>1, <2>2 DEF WriteFails, host
<1>5. CASE Complete
  BY <1>5, AnswerStatus DEF Complete, host
<1>6. CASE RequestLost
  BY <1>6 DEF RequestLost, Lost, host
<1>7. CASE SendReturns
  <2>1. CASE Proceed(answer = "ok")
    <3>1. first_iteration' \in BOOLEAN
      BY <2>1 DEF Proceed, StillFirst
    <3>2. chunk' \in 1 .. Blocks + 1 /\ tries' \in 0 .. RETRIES - 1
      BY <2>1 DEF Proceed, LastTry, Failed
    <3>3. given_up' \subseteq 1 .. Blocks
      <4>1. given_up' \subseteq given_up \cup {chunk}
        BY <2>1, Zenon DEF Proceed
      <4>2. chunk \in 1 .. Blocks
        BY <2>1 DEF Proceed
      <4> QED
        BY <4>1, <4>2
    <3> QED
      BY <1>7, <2>1, <3>1, <3>2, <3>3 DEF SendReturns, Proceed
  <2>2. CASE End
    BY <1>7, <2>2 DEF SendReturns, End
  <2> QED
    BY <1>7, <2>1, <2>2 DEF SendReturns
<1>8. CASE SendRaises
  BY <1>8 DEF SendRaises
<1>9. CASE Rerun
  BY <1>9 DEF Rerun
<1>10. CASE UNCHANGED vars
  BY <1>10 DEF vars
<1> QED
  BY <1>2, <1>3, <1>4, <1>5, <1>6, <1>7, <1>8, <1>9, <1>10 DEF Next, Upload, Post

-----------------------------------------------------------------------------
(* The device's steps and the script's, as far as the image goes *)

\* What WriteBlock does to the image: a new one, or one block more.
LEMMA WriteEffect ==
  ASSUME TypeOK, WriteBlock
  PROVE  /\ chunk \in 1 .. Blocks
         /\ first_iteration => image' = <<chunk>>
         /\ ~first_iteration =>
              /\ image' = Append(image, chunk)
              /\ DOMAIN image' = 1 .. Len(image) + 1
              /\ \A i \in DOMAIN image : image'[i] = image[i]
              /\ image'[Len(image) + 1] = chunk
<1>1. chunk \in 1 .. Blocks
  BY DownloadAssumption DEF WriteBlock, TypeOK
<1>2. Header = first_iteration
  BY <1>1, DownloadAssumption DEF Header, TypeOK
<1>3. ASSUME first_iteration PROVE image' = <<chunk>>
  BY <1>1, <1>2, <1>3 DEF WriteBlock, Initialised
<1>4. ASSUME ~first_iteration PROVE image' = Append(image, chunk)
  BY <1>2, <1>4 DEF WriteBlock, Initialised
<1> QED
  BY <1>1, <1>3, <1>4 DEF TypeOK

\* Requests that write no block leave the image or empty it, the latter only
\* when they carry size and hash.
Quiet ==
  /\ UNCHANGED <<host, completed, unanswered>>
  /\ image' = image \/ (image' = <<>> /\ first_iteration)
  /\ ~Acknowledged'
  /\ answer # "ok"
  /\ hash => hash'

\* Failing and lost requests are such steps.
LEMMA QuietSteps ==
  ASSUME TypeOK, HeaderFails \/ WriteFails \/ RequestLost
  PROVE  Quiet
<1>1. CASE HeaderFails
  BY <1>1, AnswerStatus
     DEF HeaderFails, Requested, Quiet, Initialised, Header, Acknowledged
<1>2. CASE WriteFails
  BY <1>2, AnswerStatus
     DEF WriteFails, Requested, Quiet, Initialised, Header, Acknowledged
<1>3. CASE RequestLost
  BY <1>3 DEF RequestLost, Requested, Quiet, Lost, Acknowledged
<1> QED
  BY <1>1, <1>2, <1>3

\* The steps that leave image, hash, unanswered and completed alone on the
\* script's side: an answer is taken, the script ends or starts again.
Taken ==
  /\ UNCHANGED <<image, hash, unanswered, completed>>
  /\ ~Acknowledged'
  /\ \/ /\ answer = "ok" /\ chunk <= Blocks
        /\ chunk' = chunk + 1 /\ ~first_iteration' /\ given_up' = given_up
     \/ /\ answer # "ok" /\ answer' # "ok" /\ chunk <= Blocks
        /\ chunk' = chunk /\ first_iteration' = first_iteration
        /\ given_up' = given_up
     \/ /\ answer # "ok" /\ answer' # "ok" /\ chunk <= Blocks
        /\ chunk' = chunk + 1 /\ first_iteration' = first_iteration
        /\ given_up' = given_up \cup {chunk}
     \/ /\ chunk' = chunk /\ first_iteration' = first_iteration
        /\ given_up' = given_up /\ answer' # "ok"
        /\ answer # "ok" \/ chunk > Blocks
     \/ /\ chunk' = 1 /\ first_iteration' /\ given_up' = {} /\ completed = {}

\* SendReturns, SendRaises and Rerun are such steps.
LEMMA TakenSteps ==
  ASSUME TypeOK, SendReturns \/ SendRaises \/ Rerun
  PROVE  Taken
<1>1. CASE SendReturns
  <2>1. UNCHANGED <<image, hash, unanswered, completed>> /\ answer' = "none"
    BY <1>1 DEF SendReturns
  <2>2. CASE Proceed(answer = "ok")
    <3>1. CASE answer = "ok"
      BY <2>1, <2>2, <3>1 DEF Proceed, StillFirst, Taken, Acknowledged
    <3>2. CASE answer # "ok" /\ LastTry
      <4>1. /\ chunk <= Blocks /\ chunk' = chunk + 1
            /\ given_up' = given_up \cup {chunk}
        BY <2>2, <3>2 DEF Proceed
      <4>2. first_iteration' = first_iteration
        BY <2>2, <3>2 DEF Proceed, StillFirst, TypeOK
      <4> QED
        BY <2>1, <3>2, <4>1, <4>2 DEF Taken, Acknowledged
    <3>3. CASE answer # "ok" /\ ~LastTry
      <4>1. chunk <= Blocks /\ chunk' = chunk /\ given_up' = given_up
        BY <2>2, <3>3 DEF Proceed
      <4>2. first_iteration' = first_iteration
        BY <2>2, <3>3 DEF Proceed, StillFirst, TypeOK
      <4> QED
        BY <2>1, <3>3, <4>1, <4>2 DEF Taken, Acknowledged
    <3> QED
      BY <3>1, <3>2, <3>3
  <2>3. CASE End
    BY <2>1, <2>3 DEF End, Taken, Acknowledged
  <2> QED
    BY <1>1, <2>2, <2>3 DEF SendReturns
<1>2. CASE SendRaises
  BY <1>2 DEF SendRaises, Taken, Acknowledged
<1>3. CASE Rerun
  BY <1>3 DEF Rerun, Taken, Acknowledged
<1> QED
  BY <1>1, <1>2, <1>3

\* The request to complete is sent behind the last block and changes no image.
LEMMA CompleteEffect ==
  ASSUME TypeOK, Complete
  PROVE  /\ UNCHANGED <<host, hash, image, unanswered>>
         /\ chunk > Blocks /\ ~(chunk <= Blocks)
         /\ ~Acknowledged /\ ~Acknowledged'
         /\ answer # "ok"
         /\ completed' \subseteq completed \cup {image}
<1>1. chunk > Blocks /\ ~(chunk <= Blocks) /\ answer = "none"
  BY DownloadAssumption DEF Complete, Requested, TypeOK
<1>2. UNCHANGED <<host, hash, image, unanswered>>
  BY DEF Complete
<1>3. completed' \subseteq completed \cup {image}
  BY DEF Complete
<1> QED
  BY <1>1, <1>2, <1>3 DEF Acknowledged, host

\* Every step is one of five kinds.
LEMMA Kinds ==
  ASSUME TypeOK, [Next]_vars
  PROVE  WriteBlock \/ Complete \/ Quiet \/ Taken \/ UNCHANGED vars
  BY QuietSteps, TakenSteps DEF Next, Upload, Post

-----------------------------------------------------------------------------
(* Each part of the invariant is preserved *)

\* Requests without the hash come only once one with it has been acknowledged.
LEMMA HashStep ==
  ASSUME TypeOK, HashInv, [Next]_vars
  PROVE  HashInv'
<1> USE DEF HashInv, HeaderFirst
<1>1. CASE WriteBlock
  <2>1. hash'
    BY <1>1, DownloadAssumption DEF WriteBlock, Header, TypeOK
  <2> QED
    BY <2>1
<1>2. CASE Complete
  BY <1>2, CompleteEffect DEF host
<1>3. CASE Quiet
  BY <1>3 DEF Quiet, host
<1>4. CASE Taken
  BY <1>4 DEF Taken, Acknowledged
<1>5. CASE UNCHANGED vars
  BY <1>5 DEF vars, Acknowledged
<1> QED
  BY <1>1, <1>2, <1>3, <1>4, <1>5, Kinds

\* Only blocks that are acknowledged or given up are left behind.
LEMMA CoverStep ==
  ASSUME TypeOK, CoverInv, [Next]_vars
  PROVE  CoverInv'
<1> USE DownloadAssumption DEF CoverInv, NoneMissing
<1>1. CASE WriteBlock
  <2>1. UNCHANGED <<chunk, first_iteration, given_up>>
    BY <1>1 DEF WriteBlock, host
  <2>2. CASE first_iteration
    BY <1>1, <2>1, <2>2, WriteEffect
  <2>3. CASE ~first_iteration
    <3>1. /\ DOMAIN image = 1 .. Len(image) /\ Len(image) \in Nat
          /\ DOMAIN image' = 1 .. Len(image) + 1
          /\ \A i \in DOMAIN image : image'[i] = image[i]
          /\ image'[Len(image) + 1] = chunk
      BY <1>1, <2>3, WriteEffect DEF TypeOK
    <3> QED
      BY <2>1, <2>3, <3>1
  <2> QED
    BY <2>2, <2>3
<1>2. CASE Complete
  BY <1>2, CompleteEffect DEF host
<1>3. CASE Quiet
  BY <1>3 DEF Quiet, host
<1>4. CASE Taken
  BY <1>4 DEF Taken, Acknowledged, TypeOK
<1>5. CASE UNCHANGED vars
  BY <1>5 DEF vars, Acknowledged
<1> QED
  BY <1>1, <1>2, <1>3, <1>4, <1>5, Kinds

\* A block is sent again only when it is known not to be in the image, or when
\* the image is started over with it.
LEMMA OrderStep ==
  ASSUME TypeOK, OrderInv, [Next]_vars
  PROVE  OrderInv'
<1> USE DownloadAssumption DEF OrderInv
<1>1. CASE WriteBlock
  <2>1. /\ UNCHANGED <<chunk, first_iteration>> /\ answer = "none"
        /\ chunk \in 1 .. Blocks /\ ~(chunk > Blocks)
        /\ unanswered' = (~first_iteration /\ (unanswered \/ answer' # "ok"))
    BY <1>1 DEF WriteBlock, Requested, Header, host, TypeOK
  <2>2. CASE first_iteration
    BY <1>1, <2>1, <2>2, WriteEffect DEF Acknowledged
  <2>3. CASE ~first_iteration
    <3>1. /\ DOMAIN image = 1 .. Len(image) /\ Len(image) \in Nat
          /\ \A i \in DOMAIN image : image[i] \in 1 .. Blocks
          /\ DOMAIN image' = 1 .. Len(image) + 1
          /\ \A i \in DOMAIN image : image'[i] = image[i]
          /\ image'[Len(image) + 1] = chunk
      BY <1>1, <2>3, WriteEffect DEF TypeOK
    <3> SUFFICES ASSUME ~unanswered'
                 PROVE  /\ \A i, j \in DOMAIN image' : i < j => image'[i] < image'[j]
                        /\ \A i \in DOMAIN image' : image'[i] <= chunk
      BY <2>1, <2>3 DEF Acknowledged
    <3>2. \A i \in DOMAIN image : image[i] < chunk
      BY <2>1, <2>3
    <3>3. \A i, j \in DOMAIN image : i < j => image[i] < image[j]
      BY <2>1, <2>3
    <3> QED
      BY <2>1, <3>1, <3>2, <3>3
  <2> QED
    BY <2>2, <2>3
<1>2. CASE Complete
  BY <1>2, CompleteEffect DEF host
<1>3. CASE Quiet
  BY <1>3 DEF Quiet, host
<1>4. CASE Taken
  <2>1. \A i \in DOMAIN image : image[i] \in 1 .. Blocks
    BY DEF TypeOK
  <2> QED
    BY <1>4, <2>1 DEF Taken, Acknowledged, TypeOK
<1>5. CASE UNCHANGED vars
  BY <1>5 DEF vars, Acknowledged
<1> QED
  BY <1>1, <1>2, <1>3, <1>4, <1>5, Kinds

\* Without blocks given up, the image grows along the file.
LEMMA FileStep ==
  ASSUME TypeOK, CoverInv, FileInv, [Next]_vars
  PROVE  FileInv'
<1> USE DownloadAssumption DEF FileInv
<1>1. CASE WriteBlock
  <2>1. /\ UNCHANGED <<chunk, first_iteration, given_up, completed>> /\ answer = "none"
        /\ chunk \in 1 .. Blocks /\ ~(chunk > Blocks)
        /\ ~first_iteration /\ ~unanswered' => ~unanswered /\ answer' = "ok"
    <3>1. /\ UNCHANGED <<chunk, first_iteration, given_up, completed>> /\ answer = "none"
          /\ chunk \in 1 .. Blocks /\ ~(chunk > Blocks)
      BY <1>1 DEF WriteBlock, Requested, host, TypeOK
    <3>2. unanswered' = (~Header /\ (unanswered \/ answer' # "ok"))
      BY <1>1 DEF WriteBlock
    <3>3. ~first_iteration => ~Header
      BY DEF Header
    <3>4. ~first_iteration /\ ~unanswered' => ~unanswered /\ answer' = "ok"
      BY <3>2, <3>3, Zenon
    <3> QED
      BY <3>1, <3>4
  <2>2. completed' = {} /\ FileArrives'
    BY <2>1 DEF FileArrives
  <2>3. CASE first_iteration
    <3>1. ASSUME given_up = {} PROVE image' = Sent(chunk)
      <4>1. chunk = 1
        BY <2>1, <2>3, <3>1 DEF CoverInv
      <4> QED
        BY <1>1, <2>3, <4>1, WriteEffect DEF Sent
    <3> QED
      BY <2>1, <2>3, <2>2, <3>1
  <2>4. CASE ~first_iteration
    <3>1. ASSUME ~unanswered', given_up = {} PROVE image' = Sent(chunk)
      <4>1. image = Sent(chunk - 1)
        BY <2>1, <2>4, <3>1 DEF Acknowledged
      <4> QED
        <5>1. image' = Append(image, chunk)
          BY <1>1, <2>4, WriteEffect
        <5>2. chunk \in Nat \ {0}
          BY <2>1
        <5> QED
          BY <4>1, <5>1, <5>2, SentNext
    <3>2. ~unanswered' /\ given_up' = {} => Acknowledged'
      BY <2>1, <2>4 DEF Acknowledged
    <3>3. ~unanswered' /\ given_up' = {} => image' = Sent(chunk')
      BY <2>1, <3>1
    <3> HIDE DEF FileInv
    <3>4. completed' = {} /\ FileArrives'
      BY <2>2
    <3> QED
      BY <3>2, <3>3, <3>4, Zenon DEF FileInv
  <2> QED
    BY <2>3, <2>4
<1>2. CASE Complete
  <2>1. /\ UNCHANGED <<chunk, first_iteration, given_up, image, unanswered>>
        /\ chunk = Blocks + 1 /\ chunk > Blocks /\ ~Acknowledged /\ ~Acknowledged'
        /\ completed' \subseteq completed \cup {image}
    BY <1>2, CompleteEffect DEF host, TypeOK
  <2>2. ASSUME ~unanswered, given_up = {} PROVE image = [i \in 1 .. Blocks |-> i]
    <3>1. ~first_iteration
      BY <2>1, <2>2 DEF CoverInv
    <3> QED
      BY <2>1, <2>2, <3>1 DEF Sent
  <2>3. FileArrives'
    BY <2>1, <2>2 DEF FileArrives
  <2>4. image = [i \in 1 .. Blocks |-> i] => image = Sent(chunk - 1)
    BY <2>1 DEF Sent
  <2> QED
    BY <2>1, <2>2, <2>3, <2>4
<1>3. CASE Quiet
  <2>1. FileArrives'
    BY <1>3 DEF FileArrives, Quiet, host
  <2>2. ~Acknowledged
    BY <1>3 DEF Quiet, Acknowledged
  <2> QED
    BY <1>3, <2>1, <2>2 DEF Quiet, host
<1>4. CASE Taken
  <2>1. CASE chunk' = 1 /\ first_iteration' /\ given_up' = {} /\ completed = {}
    <3>1. completed' = {}
      BY <1>4, <2>1 DEF Taken
    <3> QED
      BY <1>4, <2>1, <3>1 DEF Taken, FileArrives
  <2>2. CASE /\ answer = "ok" /\ chunk <= Blocks
             /\ chunk' = chunk + 1 /\ ~first_iteration' /\ given_up' = given_up
    <3>1. FileArrives'
      BY <1>4, <2>2 DEF Taken, FileArrives
    <3>2. chunk' - 1 = chunk /\ chunk' > chunk /\ completed = {} /\ completed' = {}
      BY <1>4, <2>2 DEF Taken, TypeOK
    <3>3. image' = image /\ unanswered' = unanswered /\ ~Acknowledged'
      BY <1>4 DEF Taken
    <3> QED
      BY <2>2, <3>1, <3>2, <3>3 DEF Acknowledged
  <2>3. CASE /\ answer # "ok" /\ answer' # "ok" /\ chunk <= Blocks
             /\ chunk' = chunk + 1 /\ first_iteration' = first_iteration
             /\ given_up' = given_up \cup {chunk}
    <3>1. completed = {} /\ completed' = {} /\ given_up' # {}
      BY <1>4, <2>3 DEF Taken, TypeOK
    <3> QED
      BY <3>1 DEF FileArrives
  <2>4. CASE /\ chunk' = chunk /\ first_iteration' = first_iteration
             /\ given_up' = given_up /\ answer' # "ok"
             /\ answer # "ok" \/ chunk > Blocks
    <3>1. UNCHANGED <<image, unanswered, completed>> /\ ~Acknowledged /\ ~Acknowledged'
      BY <1>4, <2>4 DEF Taken, Acknowledged, TypeOK
    <3> QED
      BY <2>4, <3>1 DEF FileArrives
  <2> QED
    BY <1>4, <2>1, <2>2, <2>3, <2>4 DEF Taken
<1>5. CASE UNCHANGED vars
  BY <1>5 DEF vars, Acknowledged, FileArrives
<1> QED
  BY <1>1, <1>2, <1>3, <1>4, <1>5, Kinds

-----------------------------------------------------------------------------
\* The invariant holds throughout.
LEMMA Invariant == Spec => []Inv
<1>1. Init => Inv
  BY InvInit
<1>2. Inv /\ [Next]_vars => Inv'
  BY TypeOKStep, HashStep, OrderStep, CoverStep, FileStep DEF Inv
<1> QED
  BY <1>1, <1>2, PTL DEF Spec

\* For any file and number of tries, the variables keep their types.
THEOREM TypeCorrect == Spec => []TypeOK
  BY Invariant, PTL DEF Inv

\* For any file and number of tries, no block is written before size and hash
\* have been accepted.
THEOREM HeaderComesFirst == Spec => []HeaderFirst
  BY Invariant, PTL DEF Inv, HashInv

\* For any file and number of tries, retries put no block in the image twice or
\* out of order, unless a block behind the first was written and its answer lost.
THEOREM ImageInOrder == Spec => []InOrder
<1>1. Inv => InOrder
  BY DEF Inv, OrderInv, InOrder
<1> QED
  BY <1>1, Invariant, PTL

\* For any file and number of tries, the image has every block the script has
\* gone past without giving it up.
THEOREM NoBlockMissing == Spec => []NoneMissing
  BY Invariant, PTL DEF Inv, CoverInv

\* For any file and number of tries, what the boot loader is given is the file,
\* if no block was given up and none was written unknown to the script.
THEOREM TheFileArrives == Spec => []FileArrives
  BY Invariant, PTL DEF Inv, FileInv

-----------------------------------------------------------------------------
(* The script comes to its end: what UploadEnds rests on *)

\* The requests that are still to be sent, the one under way included, if every
\* try fails; and the steps they take, one on the device and one of the script.
RequestsLeft == (Blocks + 1 - chunk) * RETRIES - tries + 1
StepsLeft ==
  IF script = "ended" THEN 0
  ELSE IF answer = "none" THEN 2 * RequestsLeft ELSE 2 * RequestsLeft - 1

\* "complete" is not tried again, and a script that has ended has no answer to take.
AtEnd ==
  /\ chunk > Blocks => tries = 0
  /\ script = "ended" => answer \in {"none", "reset"}

\* An answer ends a step of the device.
LEMMA PostAnswers ==
  ASSUME Post
  PROVE  Requested /\ UNCHANGED host /\ answer' \in {"ok", "nok", "empty", "reset"}
<1>1. CASE HeaderFails
  BY <1>1, AnswerStatus DEF HeaderFails
<1>2. CASE WriteBlock
  BY <1>2, AnswerStatus DEF WriteBlock, host
<1>3. CASE WriteFails
  BY <1>3, AnswerStatus DEF WriteFails
<1>4. CASE Complete
  BY <1>4, AnswerStatus DEF Complete
<1>5. CASE RequestLost
  BY <1>5 DEF RequestLost, Lost
<1> QED
  BY <1>1, <1>2, <1>3, <1>4, <1>5 DEF Post

\* A block more, or a try more, leaves fewer requests, and never none but the last.
LEMMA FewerLeft ==
  ASSUME TypeOK, AtEnd
  PROVE  /\ RequestsLeft \in Nat \ {0}
         /\ RequestsLeft <= Blocks * RETRIES + 1
         /\ Proceed(answer = "ok") => RequestsLeft' \in Int /\ RequestsLeft' < RequestsLeft
<1> USE DownloadAssumption
<1>1. chunk \in 1 .. Blocks + 1 /\ tries \in 0 .. RETRIES - 1
  BY DEF TypeOK
<1> DEFINE left == Blocks + 1 - chunk
<1>2. left \in 0 .. Blocks
  BY <1>1
<1>3. left * RETRIES \in Int /\ left * RETRIES >= 0
  BY <1>2
<1>4. left > 0 => left * RETRIES >= RETRIES
  <2>1. SUFFICES ASSUME left > 0 PROVE left * RETRIES >= RETRIES
    OBVIOUS
  <2>2. left - 1 \in Nat
    BY <1>2, <2>1
  <2>3. left * RETRIES = (left - 1) * RETRIES + RETRIES
    BY <1>2
  <2>4. (left - 1) * RETRIES >= 0
    BY <2>2
  <2> QED
    BY <2>2, <2>3, <2>4
<1>5. left * RETRIES <= Blocks * RETRIES
  <2>1. Blocks - left \in Nat
    BY <1>2
  <2>2. Blocks * RETRIES = left * RETRIES + (Blocks - left) * RETRIES
    BY <1>2, <2>1
  <2>3. (Blocks - left) * RETRIES >= 0
    BY <2>1
  <2> QED
    BY <1>3, <2>1, <2>2, <2>3
<1>6. RequestsLeft = left * RETRIES - tries + 1
  BY DEF RequestsLeft
<1>7. RequestsLeft \in Nat \ {0}
  <2>1. CASE left > 0
    BY <1>1, <1>3, <1>4, <1>6, <2>1
  <2>2. CASE left = 0
    BY <1>1, <1>3, <1>6, <2>2 DEF AtEnd
  <2> HIDE DEF left
  <2> QED
    BY <1>2, <2>1, <2>2
<1>8. RequestsLeft <= Blocks * RETRIES + 1
  BY <1>1, <1>3, <1>5, <1>6
<1>9. ASSUME Proceed(answer = "ok")
      PROVE  RequestsLeft' \in Int /\ RequestsLeft' < RequestsLeft
  <2>1. CASE chunk' = chunk + 1 /\ tries' = 0
    <3>1. RequestsLeft' = (left - 1) * RETRIES + 1
      BY <1>1, <2>1 DEF RequestsLeft
    <3>2. (left - 1) * RETRIES = left * RETRIES - RETRIES
      BY <1>2
    <3> QED
      BY <1>1, <1>3, <1>6, <3>1, <3>2
  <2>2. CASE chunk' = chunk /\ tries' = tries + 1
    <3>1. RequestsLeft' = left * RETRIES - (tries + 1) + 1
      BY <2>2 DEF RequestsLeft
    <3> QED
      BY <1>1, <1>3, <1>6, <3>1
  <2> QED
    BY <1>9, <2>1, <2>2 DEF Proceed, Failed
<1> QED
  BY <1>7, <1>8, <1>9

\* AtEnd holds throughout.
LEMMA AtEndHolds == Spec => []AtEnd
<1>1. Init => AtEnd
  BY DownloadAssumption DEF Init, AtEnd
<1>2. ASSUME TypeOK, AtEnd, [Next]_vars PROVE AtEnd'
  <2>1. CASE Post
    BY <1>2, <2>1, PostAnswers DEF AtEnd, Requested, host
  <2>2. CASE SendReturns
    <3>1. answer' = "none"
      BY <2>2 DEF SendReturns
    <3>2. CASE Proceed(answer = "ok")
      <4>1. chunk \in 1 .. Blocks
        BY <1>2, <3>2, DownloadAssumption DEF Proceed, TypeOK
      <4>2. chunk' > Blocks => tries' = 0
        BY <3>2, <4>1, DownloadAssumption DEF Proceed
      <4> QED
        BY <3>1, <4>2 DEF AtEnd
    <3>3. CASE End
      BY <1>2, <3>1, <3>3 DEF AtEnd, End
    <3> QED
      BY <2>2, <3>2, <3>3 DEF SendReturns
  <2>3. CASE SendRaises
    BY <1>2, <2>3 DEF AtEnd, SendRaises
  <2>4. CASE Rerun
    BY <2>4 DEF AtEnd, Rerun
  <2>5. CASE UNCHANGED vars
    BY <1>2, <2>5 DEF AtEnd, vars
  <2> QED
    BY <1>2, <2>1, <2>2, <2>3, <2>4, <2>5 DEF Next, Upload
<1> QED
  BY <1>1, <1>2, TypeCorrect, PTL DEF Spec

\* Every step of an upload leaves fewer steps, and there are never more than two
\* for each try of each block and two for "complete".
StepsShrink ==
  /\ [](StepsLeft \in 0 .. 2 * (Blocks * RETRIES + 1))
  /\ [][Upload => StepsLeft' < StepsLeft]_vars

\* For any file and number of tries, the script ends after at most
\* Blocks * RETRIES + 1 requests, whatever fails: the safety behind UploadEnds.
THEOREM TriesAreBounded == Spec => StepsShrink
<1>1. ASSUME TypeOK, AtEnd PROVE StepsLeft \in 0 .. 2 * (Blocks * RETRIES + 1)
  <2>1. Blocks * RETRIES \in Nat
    BY DownloadAssumption
  <2>2. RequestsLeft \in Nat \ {0} /\ RequestsLeft <= Blocks * RETRIES + 1
    BY <1>1, FewerLeft
  <2> HIDE DEF RequestsLeft
  <2> QED
    BY <2>1, <2>2 DEF StepsLeft
<1>2. ASSUME TypeOK, AtEnd PROVE Upload => StepsLeft' < StepsLeft
  <2> HAVE Upload
  <2>1. RequestsLeft \in Nat \ {0}
    BY <1>2, FewerLeft
  <2>2. CASE Post
    <3>1. RequestsLeft' = RequestsLeft
      BY <2>2, PostAnswers DEF RequestsLeft, host
    <3>2. script = "running" /\ answer = "none" /\ script' = "running" /\ answer' # "none"
      BY <2>2, PostAnswers DEF Requested, host
    <3> QED
      BY <2>1, <3>1, <3>2 DEF StepsLeft
  <2>3. CASE SendReturns
    <3>1. script # "ended" /\ answer # "none" /\ answer' = "none"
      BY <1>2, <2>3 DEF SendReturns, AtEnd
    <3>2. CASE Proceed(answer = "ok")
      <4>1. RequestsLeft' \in Int /\ RequestsLeft' < RequestsLeft
        BY <1>2, <3>2, FewerLeft
      <4>2. script' = script
        BY <3>2 DEF Proceed
      <4>3. StepsLeft = 2 * RequestsLeft - 1 /\ StepsLeft' = 2 * RequestsLeft'
        BY <3>1, <4>2 DEF StepsLeft
      <4>4. \A m, n \in Int : m < n => 2 * m < 2 * n - 1
        OBVIOUS
      <4>5. RequestsLeft \in Int
        BY <2>1
      <4> QED
        BY <4>1, <4>3, <4>4, <4>5, Zenon
    <3>3. CASE End
      <4>1. script' = "ended"
        BY <3>3 DEF End
      <4> QED
        BY <2>1, <3>1, <4>1 DEF StepsLeft
    <3> QED
      BY <2>3, <3>2, <3>3 DEF SendReturns
  <2>4. CASE SendRaises
    BY <2>1, <2>4 DEF SendRaises, StepsLeft
  <2> QED
    BY <1>2, <2>2, <2>3, <2>4 DEF Upload
<1> QED
  BY <1>1, <1>2, TypeCorrect, AtEndHolds, PTL DEF StepsShrink
=============================================================================
