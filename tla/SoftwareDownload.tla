-------------------------- MODULE SoftwareDownload --------------------------
(***************************************************************************)
(* The upload of a new application: upload_new_binary.py on the host,      *)
(* which sends the file block by block, one connection per block, and      *)
(* tries each block a few times; and POST /SWDL on the device, which hands *)
(* what it gets to SoftwareDownloadApi.  That library is not part of the   *)
(* sources: init_download starts a download over, write_app adds a block   *)
(* to it, download_complete hands it to the boot loader, and each may fail *)
(* without having done so.                                                 *)
(***************************************************************************)
EXTENDS Integers, Sequences

CONSTANTS
  Blocks,    \* the blocks of the file, 1 .. Blocks
  RETRIES,
  Faults     \* what goes wrong: "device" (the library), "answer" (the network)

ASSUME DownloadAssumption ==
  /\ Blocks \in Nat \ {0} /\ RETRIES \in Nat \ {0}
  /\ Faults \subseteq {"device", "answer"}

VARIABLES
  chunk,            \* the block the script sends, Blocks + 1 for "complete"
  tries,            \* failed tries of it
  first_iteration,
  script,           \* "running" or "ended"
  answer,           \* to the request under way: "none" before the device had it
  hash,             \* set_hash has succeeded
  image,            \* the blocks written since init_download
  completed,        \* the images handed to the boot loader
  unanswered,       \* history: a block of the image was written unknown to the
                    \* script, and init_download has not been called since
  given_up          \* history: the blocks given up

vars == <<chunk, tries, first_iteration, script, answer, hash, image, completed,
          unanswered, given_up>>
host == <<chunk, tries, first_iteration, script, given_up>>

TypeOK ==
  /\ chunk \in 1 .. Blocks + 1
  /\ tries \in 0 .. RETRIES - 1
  /\ {first_iteration, hash, unanswered} \subseteq BOOLEAN
  /\ script \in {"running", "ended"}
  /\ answer \in {"none", "ok", "nok", "empty", "reset"}
  /\ image \in Seq(1 .. Blocks)
  /\ completed \subseteq Seq(1 .. Blocks)
  /\ given_up \subseteq 1 .. Blocks

Init ==
  /\ chunk = 1 /\ tries = 0 /\ first_iteration = TRUE
  /\ script = "running" /\ answer = "none"
  /\ hash = FALSE /\ image = <<>> /\ completed = {}
  /\ unanswered = FALSE /\ given_up = {}

-----------------------------------------------------------------------------
(* The device: post_callback for SWDL *)

Requested == script = "running" /\ answer = "none"
\* The request carries size and hash.
Header == first_iteration /\ chunk <= Blocks

Lost == {a \in {"empty", "reset"} : "answer" \in Faults}

\* Mutation: success is answered whatever the library said.
AlwaysOk(status) == {"ok"} \cup Lost
\* The answer for a status, or none: the server had no memory for it, or closed
\* the connection for another client.
Answer(status) == {IF status THEN "ok" ELSE "nok"} \cup Lost

\* Mutation: a download under way is continued.
Continued == image
\* init_download, when the request has a size.
Initialised == IF Header THEN <<>> ELSE image

\* init_download or set_hash fails, and nothing is written.
HeaderFails ==
  /\ Requested /\ Header /\ "device" \in Faults
  /\ image' \in {image, Initialised}
  /\ answer' \in Answer(FALSE)
  /\ UNCHANGED <<host, hash, completed, unanswered>>

WriteBlock ==
  /\ Requested /\ chunk <= Blocks
  /\ image' = Append(Initialised, chunk)
  /\ hash' = (hash \/ Header)
  /\ answer' \in Answer(TRUE)
  /\ unanswered' = (~Header /\ (unanswered \/ answer' # "ok"))
  /\ UNCHANGED <<host, completed>>

\* write_app fails and leaves no block.
WriteFails ==
  /\ Requested /\ chunk <= Blocks /\ "device" \in Faults
  /\ image' = Initialised
  /\ hash' = (hash \/ Header)
  /\ answer' \in Answer(FALSE)
  /\ UNCHANGED <<host, completed, unanswered>>

\* download_complete, which may fail.
Complete ==
  /\ Requested /\ chunk > Blocks
  /\ \E status \in {TRUE} \cup {s \in {FALSE} : "device" \in Faults} :
       /\ completed' = IF status THEN completed \cup {image} ELSE completed
       /\ answer' \in Answer(status)
  /\ UNCHANGED <<host, hash, image, unanswered>>

\* The connection ends before the request has been handled.
RequestLost ==
  /\ Requested
  /\ answer' \in Lost
  /\ UNCHANGED <<host, hash, image, completed, unanswered>>

-----------------------------------------------------------------------------
(* The script *)

\* Mutation: one try more is made.
TryAgain == tries = RETRIES
LastTry == tries + 1 = RETRIES

\* Mutation: failed tries are not counted.
NotCounted == tries
Failed == tries + 1

\* Mutation: size and hash are sent once, whether or not they arrive.
HeaderOnce(ok) == FALSE
StillFirst(ok) == first_iteration /\ ~ok

\* A block has been answered: the next block, or the next try.
Proceed(ok) ==
  /\ chunk <= Blocks
  /\ first_iteration' = StillFirst(ok)
  /\ IF ok \/ LastTry
     THEN chunk' = chunk + 1 /\ tries' = 0
     ELSE tries' = Failed /\ UNCHANGED chunk
  /\ given_up' = given_up \cup {b \in {chunk} : ~ok /\ LastTry}
  /\ UNCHANGED script

\* "complete" is sent once, and its answer ignored.
End == chunk > Blocks /\ script' = "ended" /\ UNCHANGED <<chunk, tries, first_iteration, given_up>>

\* send returns; "Transfer failed" unless the answer is 200.
SendReturns ==
  /\ answer \in {"ok", "nok", "empty"}
  /\ Proceed(answer = "ok") \/ End
  /\ answer' = "none"
  /\ UNCHANGED <<hash, image, completed, unanswered>>

\* send raises an exception that nothing catches.
SendRaises ==
  /\ script = "running" /\ answer = "reset"
  /\ script' = "ended"
  /\ UNCHANGED <<chunk, tries, first_iteration, answer, hash, image, completed,
                 unanswered, given_up>>

\* The script is started again, on a device that still has what an upload that
\* was not completed has left.
Rerun ==
  /\ script = "ended" /\ completed = {}
  /\ chunk' = 1 /\ tries' = 0 /\ first_iteration' = TRUE
  /\ script' = "running" /\ answer' = "none" /\ given_up' = {}
  /\ UNCHANGED <<hash, image, completed, unanswered>>

Post == HeaderFails \/ WriteBlock \/ WriteFails \/ Complete \/ RequestLost
Upload == Post \/ SendReturns \/ SendRaises
Next == Upload \/ Rerun

\* The server answers or ends every connection, and the script goes on.
Spec == Init /\ [][Next]_vars /\ WF_vars(Upload)

-----------------------------------------------------------------------------
(* Properties *)

\* No block is written before init_download and set_hash have succeeded,
\* whichever of the requests with size and hash fail or are lost.
HeaderFirst == image # <<>> => hash

\* A try that failed is repeated without harm, the first block's even when only
\* its answer was lost: unless that happened to a later block, no block is in
\* the image twice or out of order.
InOrder ==
  ~unanswered => \A i, j \in DOMAIN image : i < j => image[i] < image[j]

\* Blocks that were not given up are in the image once the script has gone on
\* behind them, with whatever failures: a download completed with all its
\* blocks accepted is short of none.
NoneMissing ==
  \A b \in 1 .. chunk - 1 \ given_up :
    \E i \in DOMAIN image : image[i] = b

\* So what the boot loader is given is the file, if no block was given up and
\* none was written unknown to the script.
FileArrives ==
  ~unanswered /\ given_up = {} => completed \subseteq {[i \in 1 .. Blocks |-> i]}

\* The script comes to an end, each time.
UploadEnds == []<>(script = "ended")
=============================================================================
