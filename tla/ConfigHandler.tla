--------------------------- MODULE ConfigHandler ---------------------------
(***************************************************************************)
(* ConfigHandlerImpl: one JSON document, with a section per kind of        *)
(* configuration, kept in one flash sector and rewritten as a whole by     *)
(* every write_config.  Reading the sector, erasing it and programming it  *)
(* are separate steps: nothing keeps two tasks from interleaving them, and *)
(* the power can fail between any two of them.                             *)
(***************************************************************************)
EXTENDS Integers

CONSTANTS
  Tasks,        \* the FreeRTOS tasks that call write_config
  Main,         \* the task that calls init when the device boots
  Writes,       \* Writes[t]: the sections task t writes
  Values,       \* the contents a section can have
  NoValue,      \* the section is missing from the document
  Erased,       \* the sector holds 0xFF only
  Unreadable,   \* the sector holds bytes that are not a JSON document
  EntrySize,    \* EntrySize[s][v]: bytes of "key":value and a separator
  NullSize,     \* bytes of the document without sections, null
  PageSize,     \* FLASH_PAGE_SIZE, the unit of programming
  SectorSize,   \* FLASH_SECTOR_SIZE, the unit of erasing
  Faults        \* what can go wrong: "error", "restart"

Sections == {"sensors", "wifi", "mqtt"}
Settings == Values \cup {NoValue}
Doc == [Sections -> Settings]
NullDoc == [s \in Sections |-> NoValue]

-----------------------------------------------------------------------------
(* Documents and the bytes they take *)

EntryLength(d, s) == IF d[s] = NoValue THEN 0 ELSE EntrySize[s][d[s]]

\* json_data.dump().length(): the braces and separators of an object, or null.
Length(d) ==
  IF d = NullDoc
  THEN NullSize
  ELSE 1 + EntryLength(d, "sensors") + EntryLength(d, "wifi") + EntryLength(d, "mqtt")

\* Mutation: the length is rounded down to pages before it is compared.
TooManyFullPages(d) == (Length(d) \div PageSize) * PageSize > SectorSize
TooLong(d) == Length(d) > SectorSize

NumberOfPages(d) == (Length(d) + PageSize - 1) \div PageSize

\* The pages programmed hold a zero byte after the document.
Terminated(d) == Length(d) < NumberOfPages(d) * PageSize

\* What json::parse, which takes a C string, can make of the sector.  Behind a
\* document that fills its last page come the 0xFF of the next page; behind
\* one that fills the sector comes whatever the stack holds.
Parse(image) ==
  IF image \notin Doc THEN {Unreadable}
  ELSE IF Terminated(image) THEN {image}
  ELSE IF Length(image) = SectorSize THEN {image, Unreadable}
  ELSE {Unreadable}

\* A document that could not be parsed counts as one without sections.
AsDoc(parsed) == IF parsed = Unreadable THEN NullDoc ELSE parsed

\* Mutation: every write starts from a new document.
OnlySetting(d, r) == [s \in Sections |-> IF s = r.section THEN r.value ELSE NoValue]
\* Mutation: the setting is inserted, which leaves an existing one alone.
InsertSetting(d, r) ==
  [s \in Sections |-> IF s = r.section /\ d[s] = NoValue THEN r.value ELSE d[s]]
\* json[section] = value.
WithSetting(d, r) == [s \in Sections |-> IF s = r.section THEN r.value ELSE d[s]]

\* Programming can only clear bits.  On bytes that are not erased it leaves a
\* mixture, which may or may not still be a document.
Fitting == {d \in Doc : Length(d) <= SectorSize}
Overlay(image, d) ==
  IF image \in {Erased, d} THEN {d}
  ELSE {Unreadable} \cup
       (IF image \in Doc
        THEN {m \in Fitting : \A s \in Sections : m[s] \in {image[s], d[s]}} ELSE {})

ASSUME ConfigAssumption ==
  /\ Main \in Tasks
  /\ Writes \in [Tasks -> SUBSET Sections]
  /\ NoValue \notin Values
  /\ Erased \notin Doc /\ Unreadable \notin Doc /\ Erased # Unreadable
  /\ EntrySize \in [Sections -> [Values -> Nat]]
  /\ NullSize \in Nat /\ PageSize \in Nat \ {0} /\ SectorSize \in Nat
  /\ ~TooLong(NullDoc) /\ Terminated(NullDoc)
  /\ Faults \subseteq {"error", "restart"}

-----------------------------------------------------------------------------
Images == Fitting \cup {Erased, Unreadable}
Requests == [section : Sections \cup {"none"}, value : Settings]
NoRequest == [section |-> "none", value |-> NoValue]

VARIABLES
  flash,      \* g_app_storage, the sector
  phase,      \* of the device: "boot" until init returns, then "up" or "failed"
  pc,         \* pc[t]: the step task t takes next in a call
  req,        \* req[t]: the section and the value of t's call, none in init
  json,       \* json[t]: the document t is about to write
  expected    \* history: the settings read_config may rightly report

vars == <<flash, phase, pc, req, json, expected>>

TypeOK ==
  /\ flash \in Images
  /\ phase \in {"boot", "up", "failed"}
  /\ pc \in [Tasks -> {"idle", "read", "erase", "program"}]
  /\ req \in [Tasks -> Requests]
  /\ json \in [Tasks -> Fitting]
  /\ expected \in [Sections -> SUBSET Settings]

Booting == [t \in Tasks |-> IF t = Main THEN "read" ELSE "idle"]

Init ==
  /\ flash \in {Erased, Unreadable}
  /\ phase = "boot"
  /\ pc = Booting
  /\ req = [t \in Tasks |-> NoRequest]
  /\ json = [t \in Tasks |-> NullDoc]
  /\ expected = [s \in Sections |-> {NoValue}]

-----------------------------------------------------------------------------
(* Calls *)

Goto(t, step) == pc' = [pc EXCEPT ![t] = step]

\* The call returns status.  When it is init, false ends the main task.
Return(t, status) ==
  /\ Goto(t, "idle")
  /\ req' = [req EXCEPT ![t] = NoRequest]
  /\ json' = [json EXCEPT ![t] = NullDoc]
  /\ phase' = IF phase # "boot" THEN phase ELSE IF status THEN "up" ELSE "failed"

\* write_config of section s.
Call(t, s, v) ==
  /\ phase = "up" /\ pc[t] = "idle"
  /\ Goto(t, "read")
  /\ req' = [req EXCEPT ![t] = [section |-> s, value |-> v]]
  /\ UNCHANGED <<flash, phase, json, expected>>

\* Mutation: init does not look at the result of the parse.
KeepsAnything(t, parsed) == req[t].section = "none"
\* init leaves a document that can be read alone.
KeepsDocument(t, parsed) == req[t].section = "none" /\ parsed # Unreadable

\* read_json_from_flash, the new setting, and the length check.
ReadJson(t) ==
  /\ pc[t] = "read"
  /\ \E parsed \in Parse(flash) :
       LET d == WithSetting(AsDoc(parsed), req[t])
       IN  \/ KeepsDocument(t, parsed) /\ Return(t, TRUE)
           \/ ~KeepsDocument(t, parsed) /\ TooLong(d) /\ Return(t, FALSE)
           \/ /\ ~KeepsDocument(t, parsed) /\ ~TooLong(d)
              /\ Goto(t, "erase")
              /\ json' = [json EXCEPT ![t] = d]
              /\ UNCHANGED <<phase, req>>
  /\ UNCHANGED <<flash, expected>>

-----------------------------------------------------------------------------
(* Flash operations, each under flash_safe_execute *)

\* A successful write replaces the setting; an interrupted one may have written
\* its own setting and may have lost all of them.
AfterWrite(t) ==
  [s \in Sections |-> IF s = req[t].section THEN {req[t].value} ELSE expected[s]]
AfterInterrupt(ts) ==
  [s \in Sections |-> expected[s] \cup
     UNION {{NoValue} \cup {v \in {req[t].value} : s = req[t].section} : t \in ts}]

EraseFlash(t) ==
  /\ pc[t] = "erase"
  /\ flash' = Erased
  /\ Goto(t, "program")
  /\ UNCHANGED <<phase, req, json, expected>>

\* Mutation: the sector is programmed although erasing it was reported to fail.
EraseUnchecked(t) ==
  /\ "error" \in Faults /\ pc[t] = "erase"
  /\ flash' \in {flash, Erased}
  /\ Goto(t, "program")
  /\ UNCHANGED <<phase, req, json, expected>>

\* flash_safe_execute gave up before the operation, or after it.
EraseFails(t) ==
  /\ "error" \in Faults /\ pc[t] = "erase"
  /\ flash' \in {flash, Erased}
  /\ Return(t, FALSE)
  /\ expected' = AfterInterrupt({t})

ProgramFlash(t) ==
  /\ pc[t] = "program"
  /\ flash' \in Overlay(flash, json[t])
  /\ Return(t, TRUE)
  /\ expected' = AfterWrite(t)

ProgramFails(t) ==
  /\ "error" \in Faults /\ pc[t] = "program"
  /\ flash' \in {flash} \cup Overlay(flash, json[t])
  /\ Return(t, FALSE)
  /\ expected' = AfterInterrupt({t})

\* Power failure or watchdog: an operation under way leaves the sector half done.
Restart ==
  LET cut == {t \in Tasks : pc[t] \in {"erase", "program"}}
  IN  /\ "restart" \in Faults
      /\ flash' \in {flash} \cup {u \in {Unreadable} : cut # {}}
      /\ expected' = AfterInterrupt(cut)
      /\ phase' = "boot" /\ pc' = Booting
      /\ req' = [t \in Tasks |-> NoRequest]
      /\ json' = [t \in Tasks |-> NullDoc]

Step(t) ==
  \/ ReadJson(t) \/ EraseFlash(t) \/ ProgramFlash(t)
  \/ EraseFails(t) \/ ProgramFails(t)

Next ==
  \/ \E t \in Tasks : Step(t) \/ \E s \in Writes[t], v \in Values : Call(t, s, v)
  \/ Restart

Spec == Init /\ [][Next]_vars

\* A task inside a call keeps running: flash_safe_execute returns within its
\* timeout of one second.
FairSpec == Spec /\ \A t \in Tasks : WF_vars(Step(t))

-----------------------------------------------------------------------------
(* Properties.  TypeOK says, besides the types, that no more than a sector is *)
(* ever written.                                                              *)

\* What read_config can report of section s now.
ReadConfig(s) == {AsDoc(parsed)[s] : parsed \in Parse(flash)}

Rewriting == \E t \in Tasks : pc[t] = "program"

\* read_config never reports a setting older than the last one stored: with
\* whatever errors and power failures, it is the last one write_config reported
\* stored, one whose write was interrupted since, or none.
NeverStale == \A s \in Sections : ReadConfig(s) \subseteq expected[s] \cup {NoValue}

\* A setting write_config reported stored stays readable, across restarts and
\* writes of other sections, until a flash operation is interrupted.
Durable == ~Rewriting => \A s \in Sections : ReadConfig(s) \subseteq expected[s]

\* However a power failure left the sector, once the restarts end the device
\* comes up, and with a document that can be read: init replaces what it cannot
\* read.
Recovers ==
  <>[][~Restart]_vars =>
    <>[](phase = "up" /\ (pc[Main] = "idle" => Unreadable \notin Parse(flash)))

\* The document as its callers see it: a write takes effect when the sector is
\* erased, and until it is programmed the document lives in the task.
Visible(image) == IF image \in Doc /\ Terminated(image) THEN image ELSE NullDoc
Stored ==
  IF Rewriting THEN json[CHOOSE t \in Tasks : pc[t] = "program"] ELSE Visible(flash)

\* No document that fits the sector ends exactly at the end of a page.
OffBoundary == \A d \in Doc : TooLong(d) \/ Terminated(d)

Store == INSTANCE ConfigStore WITH
           store <- Stored,
           Lossy <- (Faults # {} \/ ~OffBoundary)

\* One task's calls act on the store one setting at a time.
Atomic == Store!Spec
============================================================================
