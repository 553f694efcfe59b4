------------------------ MODULE ConfigHandlerProofs ------------------------
(***************************************************************************)
(* What holds of ConfigHandler for every set of tasks, settings, sizes and *)
(* faults.  Type correctness holds always; the other results are about     *)
(* tasks that exclude each other between reading the sector and having     *)
(* programmed it, Exclusive, because they are false otherwise.             *)
(***************************************************************************)
EXTENDS ConfigHandler, TLAPS

\* Between reading the sector and having programmed it a task is alone.  This is
\* what a lock around write_config would give, and what a single task gives.
Exclusive ==
  \A t, u \in Tasks :
    pc[t] \in {"erase", "program"} /\ pc[u] \in {"erase", "program"} => t = u

\* No document fills the sector to its last byte.
NeverFull == \A d \in Doc : Length(d) # SectorSize

-----------------------------------------------------------------------------
(* The helpers *)

\* Parsing gives the stored document or nothing (json::parse on the sector).
LEMMA ParseResult ==
  ASSUME NEW image \in Images
  PROVE  /\ Parse(image) \subseteq {image, Unreadable}
         /\ Parse(image) \subseteq Doc \cup {Unreadable}
BY ConfigAssumption DEF Parse, Images, Fitting

\* A discarded parse yields the empty document.
LEMMA AsDocType ==
  ASSUME NEW parsed \in Doc \cup {Unreadable}
  PROVE  AsDoc(parsed) \in Doc
BY DEF AsDoc, Doc, NullDoc, Settings

\* Setting a section yields a document.
LEMMA WithSettingType ==
  ASSUME NEW d \in Doc, NEW r \in Requests
  PROVE  WithSetting(d, r) \in Doc
BY DEF WithSetting, Doc, Requests

\* Lengths are numbers, so a document that passes the check fits.
LEMMA FittingDoc ==
  ASSUME NEW d \in Doc
  PROVE  d \in Fitting <=> ~TooLong(d)
<1>1. \A s \in Sections : EntryLength(d, s) \in Nat
  BY ConfigAssumption DEF EntryLength, Doc, Settings
<1>2. Length(d) \in Nat
  BY <1>1, ConfigAssumption DEF Length, Sections
<1> QED
  BY <1>2, ConfigAssumption DEF Fitting, TooLong

\* Programming leaves bytes that TypeOK knows.
LEMMA OverlayType ==
  ASSUME NEW image \in Images, NEW d \in Fitting
  PROVE  Overlay(image, d) \subseteq Images
BY DEF Overlay, Images

\* On an erased sector programming writes the document.
LEMMA OverlayErased ==
  ASSUME NEW d
  PROVE  Overlay(Erased, d) = {d}
BY DEF Overlay

LEMMA NoRequestType ==
  NoRequest \in Requests /\ NullDoc \in Doc /\ NullDoc \in Fitting
BY ConfigAssumption DEF NoRequest, Requests, NullDoc, Doc, Settings, Fitting, TooLong, Length

-----------------------------------------------------------------------------
(* Type correctness, for any number of tasks *)

\* What a return leaves behind.
LEMMA ReturnType ==
  ASSUME TypeOK, NEW t \in Tasks, NEW status \in BOOLEAN, Return(t, status)
  PROVE  /\ phase' \in {"boot", "up", "failed"}
         /\ pc' \in [Tasks -> {"idle", "read", "erase", "program"}]
         /\ req' \in [Tasks -> Requests]
         /\ json' \in [Tasks -> Fitting]
BY NoRequestType DEF TypeOK, Return, Goto

\* The histories stay sets of settings.
LEMMA HistoryType ==
  ASSUME TypeOK
  PROVE  /\ \A t \in Tasks : AfterWrite(t) \in [Sections -> SUBSET Settings]
         /\ \A ts \in SUBSET Tasks :
              AfterInterrupt(ts) \in [Sections -> SUBSET Settings]
<1>1. ASSUME NEW t \in Tasks
      PROVE  AfterWrite(t) \in [Sections -> SUBSET Settings]
  BY DEF TypeOK, AfterWrite, Requests
<1>2. ASSUME NEW ts \in SUBSET Tasks
      PROVE  AfterInterrupt(ts) \in [Sections -> SUBSET Settings]
  <2>1. ASSUME NEW s \in Sections
        PROVE  UNION {{NoValue} \cup {v \in {req[t].value} : s = req[t].section}
                        : t \in ts} \subseteq Settings
    BY DEF TypeOK, Requests, Settings
  <2> QED
    BY <2>1 DEF TypeOK, AfterInterrupt
<1> QED
  BY <1>1, <1>2

LEMMA TypeOKInit == Init => TypeOK
BY NoRequestType DEF Init, TypeOK, Booting, Images, Settings

LEMMA TypeOKStep == TypeOK /\ [Next]_vars => TypeOK'
<1> SUFFICES ASSUME TypeOK, [Next]_vars PROVE TypeOK'
  OBVIOUS
<1>1. ASSUME NEW t \in Tasks, NEW s \in Writes[t], NEW v \in Values, Call(t, s, v)
      PROVE  TypeOK'
  <2>1. [section |-> s, value |-> v] \in Requests
    BY ConfigAssumption DEF Requests, Settings
  <2> QED
    BY <1>1, <2>1 DEF Call, TypeOK, Goto
<1>2. ASSUME NEW t \in Tasks, ReadJson(t) PROVE TypeOK'
  <2>1. PICK parsed \in Parse(flash) :
          \/ KeepsDocument(t, parsed) /\ Return(t, TRUE)
          \/ Return(t, FALSE)
          \/ /\ Goto(t, "erase") /\ ~TooLong(WithSetting(AsDoc(parsed), req[t]))
             /\ json' = [json EXCEPT ![t] = WithSetting(AsDoc(parsed), req[t])]
             /\ UNCHANGED <<phase, req>>
    BY <1>2 DEF ReadJson
  <2>2. UNCHANGED <<flash, expected>>
    BY <1>2 DEF ReadJson
  <2>3. CASE Return(t, TRUE) \/ Return(t, FALSE)
    BY <2>2, <2>3, ReturnType DEF TypeOK
  <2>4. CASE /\ Goto(t, "erase") /\ ~TooLong(WithSetting(AsDoc(parsed), req[t]))
             /\ json' = [json EXCEPT ![t] = WithSetting(AsDoc(parsed), req[t])]
             /\ UNCHANGED <<phase, req>>
    <3>1. WithSetting(AsDoc(parsed), req[t]) \in Fitting
      BY <2>4, ParseResult, AsDocType, WithSettingType, FittingDoc DEF TypeOK
    <3> QED
      BY <2>2, <2>4, <3>1 DEF TypeOK, Goto
  <2> QED
    BY <2>1, <2>3, <2>4
<1>3. ASSUME NEW t \in Tasks, EraseFlash(t) PROVE TypeOK'
  BY <1>3 DEF EraseFlash, TypeOK, Goto, Images
<1>4. ASSUME NEW t \in Tasks, EraseFails(t) PROVE TypeOK'
  <2>1. flash' \in Images
    BY <1>4 DEF EraseFails, TypeOK, Images
  <2> QED
    BY <1>4, <2>1, ReturnType, HistoryType DEF EraseFails, TypeOK
<1>5. ASSUME NEW t \in Tasks, ProgramFlash(t) PROVE TypeOK'
  <2>1. flash' \in Images
    BY <1>5, OverlayType DEF ProgramFlash, TypeOK
  <2> QED
    BY <1>5, <2>1, ReturnType, HistoryType DEF ProgramFlash, TypeOK
<1>6. ASSUME NEW t \in Tasks, ProgramFails(t) PROVE TypeOK'
  <2>1. flash' \in Images
    BY <1>6, OverlayType DEF ProgramFails, TypeOK
  <2> QED
    BY <1>6, <2>1, ReturnType, HistoryType DEF ProgramFails, TypeOK
<1>7. CASE Restart
  <2>1. flash' \in Images
    BY <1>7 DEF Restart, TypeOK, Images
  <2>2. expected' \in [Sections -> SUBSET Settings]
    BY <1>7, HistoryType DEF Restart
  <2> QED
    BY <1>7, <2>1, <2>2, NoRequestType DEF Restart, TypeOK, Booting
<1>8. CASE UNCHANGED vars
  BY <1>8 DEF vars, TypeOK
<1> QED
  BY <1>1, <1>2, <1>3, <1>4, <1>5, <1>6, <1>7, <1>8 DEF Next, Step

\* Whatever the tasks, sizes and faults, the sector holds a document, erased
\* bytes or unreadable ones, and every task writes documents.
THEOREM TypeCorrect == Spec => []TypeOK
BY TypeOKInit, TypeOKStep, PTL DEF Spec

-----------------------------------------------------------------------------
(* When tasks exclude each other *)

\* One task is always alone, so the results below hold of it as they stand.
LEMMA OneTaskExclusive ==
  ASSUME Tasks = {Main}
  PROVE  Exclusive
BY DEF Exclusive

\* It is enough that no task reads the sector while another has read it and not
\* yet programmed it: a mutex that write_config takes before it reads, and init
\* with it, and gives back when it returns.
Locked ==
  [][\A t, u \in Tasks : ReadJson(t) => pc[u] \notin {"erase", "program"}]_vars

LEMMA LockExcludes == Spec /\ Locked => []Exclusive
<1>1. Init => Exclusive
  BY DEF Init, Booting, Exclusive
<1>2. ASSUME TypeOK, Exclusive, [Next]_vars,
             [\A t, u \in Tasks : ReadJson(t) => pc[u] \notin {"erase", "program"}]_vars
      PROVE  Exclusive'
  <2>1. CASE UNCHANGED vars
    BY <1>2, <2>1 DEF vars, Exclusive
  <2>2. CASE Restart
    BY <2>2 DEF Restart, Booting, Exclusive
  <2>3. ASSUME NEW t \in Tasks,
               ReadJson(t),
               \A u \in Tasks : pc[u] \notin {"erase", "program"}
        PROVE  Exclusive'
    <3>1. \A u \in Tasks : u # t => pc'[u] = pc[u]
      BY <1>2, <2>3 DEF ReadJson, Return, Goto, TypeOK
    <3> QED
      BY <2>3, <3>1 DEF Exclusive
  <2>4. ASSUME NEW t \in Tasks, NEW s \in Writes[t], NEW v \in Values, Call(t, s, v)
        PROVE  Exclusive'
    BY <1>2, <2>4 DEF Call, Goto, TypeOK, Exclusive
  <2>5. ASSUME NEW t \in Tasks,
               EraseFlash(t) \/ ProgramFlash(t) \/ EraseFails(t) \/ ProgramFails(t)
        PROVE  Exclusive'
    <3>1. pc[t] \in {"erase", "program"} /\ \A u \in Tasks : u # t => pc'[u] = pc[u]
      BY <1>2, <2>5
      DEF EraseFlash, ProgramFlash, EraseFails, ProgramFails, Return, Goto, TypeOK
    <3> QED
      BY <1>2, <3>1 DEF Exclusive
  <2> QED
    BY <1>2, <2>1, <2>2, <2>3, <2>4, <2>5 DEF Next, Step
<1> QED
  BY <1>1, <1>2, TypeCorrect, PTL DEF Spec, Locked

-----------------------------------------------------------------------------
(* What read_config may report.  Report(s) is what it may report of        *)
(* section s: the history, and with it NoValue when a document may be lost *)
(* for its length alone.                                                   *)

Report(s) == IF OffBoundary THEN expected[s] ELSE expected[s] \cup {NoValue}

\* The document about to be written has the requested setting in its section
\* and settings that may be reported in the others.
Honest(t) ==
  /\ ~TooLong(json[t])
  /\ \A s \in Sections :
       IF s = req[t].section THEN json[t][s] = req[t].value ELSE json[t][s] \in Report(s)

Readable == \A s \in Sections : ReadConfig(s) \subseteq Report(s)

ReportInv ==
  /\ TypeOK
  /\ ~Rewriting => Readable
  /\ Rewriting => flash = Erased
  /\ \A t \in Tasks : pc[t] \in {"erase", "program"} => Honest(t)

LEMMA ReadUnreadable ==
  ASSUME NEW s \in Sections
  PROVE  {AsDoc(parsed)[s] : parsed \in Parse(Erased)} = {NoValue}
         /\ {AsDoc(parsed)[s] : parsed \in Parse(Unreadable)} = {NoValue}
BY ConfigAssumption DEF AsDoc, Parse, NullDoc

\* A document just programmed reads back, or is lost where the lengths allow it.
LEMMA ReadBack ==
  ASSUME NEW d \in Doc, ~TooLong(d), NEW s \in Sections
  PROVE  {AsDoc(parsed)[s] : parsed \in Parse(d)}
           \subseteq IF OffBoundary THEN {d[s]} ELSE {d[s], NoValue}
BY ConfigAssumption DEF AsDoc, Parse, NullDoc, OffBoundary

\* A document stays honest while its task's call and the history are the same.
LEMMA HonestStays ==
  ASSUME NEW t \in Tasks, Honest(t),
         json'[t] = json[t], req'[t] = req[t], UNCHANGED expected
  PROVE  Honest(t)'
BY DEF Honest, Report, OffBoundary, TooLong, Length, EntryLength

\* A task that is writing is the only one: when it is done, nobody is.
LEMMA NobodyElse ==
  ASSUME Exclusive, NEW t \in Tasks, pc[t] \in {"erase", "program"},
         TypeOK, Goto(t, "idle")
  PROVE  /\ \A u \in Tasks : pc'[u] \notin {"erase", "program"}
         /\ Rewriting <=> pc[t] = "program"
         /\ ~Rewriting'
<1>1. \A u \in Tasks : pc'[u] \notin {"erase", "program"}
  BY DEF Exclusive, TypeOK, Goto
<1> QED
  BY <1>1 DEF Exclusive, Rewriting

LEMMA ReportInit == Init => ReportInv
<1> SUFFICES ASSUME Init PROVE ReportInv
  OBVIOUS
<1>1. TypeOK
  BY TypeOKInit
<1>2. \A s \in Sections : ReadConfig(s) = {NoValue} /\ Report(s) = {NoValue}
  BY ReadUnreadable DEF Init, ReadConfig, Report
<1>3. \A t \in Tasks : pc[t] \notin {"erase", "program"}
  BY DEF Init, Booting
<1> QED
  BY <1>1, <1>2, <1>3 DEF ReportInv, Readable, Rewriting

\* The history and the sector as they were, what may be read is as it was.
LEMMA ReadableStays ==
  ASSUME Readable, UNCHANGED <<flash, expected>>
  PROVE  Readable'
BY DEF Readable, ReadConfig, Report, OffBoundary

LEMMA ReportStep ==
  ASSUME Exclusive, Exclusive', ReportInv, [Next]_vars
  PROVE  ReportInv'
<1>0. TypeOK /\ TypeOK'
  BY TypeOKStep DEF ReportInv
\* An interruption only adds to what may be reported, NoValue among it.
<1>a. ASSUME NEW t \in Tasks, expected' = AfterInterrupt({t}), NEW s \in Sections
      PROVE  /\ Report(s) \subseteq Report(s)' /\ NoValue \in Report(s)'
             /\ s = req[t].section => req[t].value \in Report(s)'
  <2>1. expected'[s] = expected[s] \cup {NoValue}
                         \cup {v \in {req[t].value} : s = req[t].section}
    BY <1>a DEF AfterInterrupt
  <2> QED
    BY <2>1 DEF Report, OffBoundary
\* What a task that is done leaves is decided by what can be read.
<1>b. ASSUME NEW t \in Tasks, pc[t] \in {"erase", "program"}, Goto(t, "idle"), Readable'
      PROVE  ReportInv'
  BY <1>0, <1>b, NobodyElse DEF ReportInv
\* A task that starts, or returns from reading, disturbs nobody.
<1>c. ASSUME NEW t \in Tasks, pc[t] \in {"idle", "read"}, pc'[t] \in {"idle", "read"},
             UNCHANGED <<flash, expected>>,
             \A u \in Tasks : u # t =>
               pc'[u] = pc[u] /\ req'[u] = req[u] /\ json'[u] = json[u]
      PROVE  ReportInv'
  <2>1. Rewriting' <=> Rewriting
    BY <1>c DEF Rewriting
  <2>2. ASSUME NEW u \in Tasks, pc'[u] \in {"erase", "program"} PROVE Honest(u)'
    BY <1>c, <2>2, HonestStays DEF ReportInv
  <2> QED
    BY <1>0, <1>c, <2>1, <2>2, ReadableStays DEF ReportInv
<1>1. ASSUME NEW t \in Tasks, NEW s \in Writes[t], NEW v \in Values, Call(t, s, v)
      PROVE  ReportInv'
  BY <1>0, <1>1, <1>c DEF Call, Goto, TypeOK
<1>2. ASSUME NEW t \in Tasks, ReadJson(t) PROVE ReportInv'
  <2>1. PICK parsed \in Parse(flash) :
          LET d == WithSetting(AsDoc(parsed), req[t])
          IN  \/ Return(t, TRUE) \/ Return(t, FALSE)
              \/ /\ ~TooLong(d) /\ Goto(t, "erase")
                 /\ json' = [json EXCEPT ![t] = d]
                 /\ UNCHANGED <<phase, req>>
    BY <1>2 DEF ReadJson
  <2>2. UNCHANGED <<flash, expected>> /\ pc[t] = "read"
    BY <1>2 DEF ReadJson
  <2>3. CASE Return(t, TRUE) \/ Return(t, FALSE)
    BY <1>0, <1>c, <2>2, <2>3 DEF Return, Goto, TypeOK
  <2>4. CASE LET d == WithSetting(AsDoc(parsed), req[t])
             IN  /\ ~TooLong(d) /\ Goto(t, "erase")
                 /\ json' = [json EXCEPT ![t] = d]
                 /\ UNCHANGED <<phase, req>>
    <3> DEFINE d == WithSetting(AsDoc(parsed), req[t])
    <3>1. /\ pc'[t] = "erase" /\ json'[t] = d /\ req'[t] = req[t]
          /\ ~TooLong(d)
          /\ \A u \in Tasks : u # t => pc'[u] = pc[u]
      BY <2>4, <1>0 DEF Goto, TypeOK
    <3>2. \A u \in Tasks : u # t => pc'[u] \notin {"erase", "program"}
      BY <3>1 DEF Exclusive
    <3>3. ~Rewriting /\ ~Rewriting'
      BY <2>2, <3>1, <3>2 DEF Rewriting
    <3>4. Readable'
      BY <2>2, <3>3, ReadableStays DEF ReportInv
    <3>5. \A s \in Sections : AsDoc(parsed)[s] \in Report(s)'
      BY <2>2, <3>4 DEF ReadConfig, Readable
    <3>6. \A s \in Sections :
            d[s] = IF s = req[t].section THEN req[t].value ELSE AsDoc(parsed)[s]
      BY DEF WithSetting
    <3>7. Honest(t)'
      <4> HIDE DEF d
      <4>1. \A s \in Sections :
              IF s = req'[t].section THEN json'[t][s] = req'[t].value
              ELSE json'[t][s] \in Report(s)'
        BY <3>1, <3>5, <3>6
      <4>2. ~TooLong(json'[t])
        BY <3>1
      <4> QED
        BY <4>1, <4>2 DEF Honest, TooLong, Length, EntryLength
    <3> QED
      BY <1>0, <3>2, <3>3, <3>4, <3>7 DEF ReportInv
  <2> QED
    BY <2>1, <2>3, <2>4
<1>3. ASSUME NEW t \in Tasks, EraseFlash(t) PROVE ReportInv'
  <2>1. /\ pc[t] = "erase" /\ pc'[t] = "program"
        /\ flash' = Erased /\ UNCHANGED <<req, json, expected>>
    BY <1>3, <1>0 DEF EraseFlash, Goto, TypeOK
  <2>2. Honest(t)'
    BY <2>1, HonestStays DEF ReportInv
  <2>3. \A u \in Tasks : pc'[u] \in {"erase", "program"} => u = t
    BY <2>1 DEF Exclusive
  <2>4. Rewriting'
    BY <2>1 DEF Rewriting
  <2> QED
    BY <1>0, <2>1, <2>2, <2>3, <2>4 DEF ReportInv
<1>4. ASSUME NEW t \in Tasks, EraseFails(t) PROVE ReportInv'
  <2>1. /\ flash' \in {flash, Erased} /\ expected' = AfterInterrupt({t})
        /\ pc[t] = "erase" /\ Goto(t, "idle")
    BY <1>4 DEF EraseFails, Return
  <2>2. ~Rewriting
    BY <1>0, <2>1, NobodyElse
  <2>3. Readable'
    BY <2>1, <2>2, <1>a, ReadUnreadable DEF ReportInv, ReadConfig, Readable
  <2> QED
    BY <2>1, <2>3, <1>b
<1>5. ASSUME NEW t \in Tasks, ProgramFlash(t) PROVE ReportInv'
  <2>1. /\ pc[t] = "program" /\ Goto(t, "idle") /\ expected' = AfterWrite(t)
        /\ flash' = json[t] /\ Honest(t) /\ json[t] \in Doc
    BY <1>5, <1>0, OverlayErased
    DEF ProgramFlash, Return, TypeOK, ReportInv, Rewriting, Fitting
  <2>2. ASSUME NEW s \in Sections PROVE ReadConfig(s)' \subseteq Report(s)'
    <3>1. ReadConfig(s)' \subseteq
            IF OffBoundary THEN {json[t][s]} ELSE {json[t][s], NoValue}
      BY <2>1, ReadBack DEF ReadConfig, Honest
    <3>2. expected'[s] = IF s = req[t].section THEN {req[t].value} ELSE expected[s]
      BY <2>1 DEF AfterWrite
    <3> QED
      BY <2>1, <3>1, <3>2 DEF Honest, Report, OffBoundary
  <2> QED
    BY <2>1, <2>2, <1>b DEF Readable
<1>6. ASSUME NEW t \in Tasks, ProgramFails(t) PROVE ReportInv'
  <2>1. /\ pc[t] = "program" /\ Goto(t, "idle") /\ expected' = AfterInterrupt({t})
        /\ flash' \in {Erased, json[t]} /\ Honest(t) /\ json[t] \in Doc
    BY <1>6, <1>0, OverlayErased
    DEF ProgramFails, Return, TypeOK, ReportInv, Rewriting, Fitting
  <2>2. ASSUME NEW s \in Sections PROVE ReadConfig(s)' \subseteq Report(s)'
    <3>1. json[t][s] \in Report(s)' /\ NoValue \in Report(s)'
      BY <2>1, <1>a DEF Honest
    <3>2. ReadConfig(s)' \subseteq {json[t][s], NoValue}
      BY <2>1, ReadBack, ReadUnreadable DEF ReadConfig, Honest
    <3> QED
      BY <3>1, <3>2
  <2> QED
    BY <2>1, <2>2, <1>b DEF Readable
<1>7. CASE Restart
  <2> DEFINE cut == {t \in Tasks : pc[t] \in {"erase", "program"}}
  <2>1. /\ flash' \in {flash} \cup {u \in {Unreadable} : cut # {}}
        /\ expected' = AfterInterrupt(cut)
        /\ \A t \in Tasks : pc'[t] \notin {"erase", "program"}
    BY <1>7 DEF Restart, Booting
  <2>2. Readable'
    <3>1. CASE cut = {}
      <4>1. flash' = flash /\ ~Rewriting
        BY <2>1, <3>1 DEF Rewriting
      <4>2. expected' = expected
        BY <2>1, <3>1, <1>0 DEF AfterInterrupt, TypeOK
      <4> QED
        BY <4>1, <4>2, ReadableStays DEF ReportInv
    <3>2. ASSUME NEW t \in cut PROVE Readable'
      <4>1. cut = {t}
        BY <3>2 DEF Exclusive
      <4>2. expected' = AfterInterrupt({t})
        BY <2>1, <4>1
      <4>3. CASE Rewriting
        BY <2>1, <4>2, <4>3, <1>a, ReadUnreadable DEF ReportInv, ReadConfig, Readable
      <4>4. CASE ~Rewriting
        BY <2>1, <4>2, <4>4, <1>a, ReadUnreadable DEF ReportInv, ReadConfig, Readable
      <4> QED
        BY <4>3, <4>4
    <3> QED
      BY <3>1, <3>2
  <2> QED
    BY <1>0, <2>1, <2>2 DEF ReportInv, Rewriting
<1>8. CASE UNCHANGED vars
  <2>1. \A t \in Tasks : pc'[t] \in {"erase", "program"} => Honest(t)'
    BY <1>8, HonestStays DEF vars, ReportInv
  <2> QED
    BY <1>0, <1>8, <2>1, ReadableStays DEF vars, ReportInv, Rewriting
<1> QED
  BY <1>1, <1>2, <1>3, <1>4, <1>5, <1>6, <1>7, <1>8 DEF Next, Step

LEMMA ReportAlways == Spec /\ []Exclusive => []ReportInv
<1>1. Init => ReportInv
  BY ReportInit
<1>2. Exclusive /\ Exclusive' /\ ReportInv /\ [Next]_vars => ReportInv'
  BY ReportStep
<1> QED
  BY <1>1, <1>2, PTL DEF Spec

\* With any number of tasks that exclude each other, read_config never reports
\* a setting older than the last one that was stored, whatever errors, power
\* failures and document lengths there are.
THEOREM ReadsAreNeverStale == Spec /\ []Exclusive => []NeverStale
<1>1. ASSUME ReportInv PROVE NeverStale
  <2>1. CASE Rewriting
    BY <1>1, <2>1, ReadUnreadable DEF ReportInv, NeverStale, ReadConfig
  <2>2. CASE ~Rewriting
    BY <1>1, <2>2 DEF ReportInv, NeverStale, Report, Readable
  <2> QED
    BY <2>1, <2>2
<1> QED
  BY <1>1, ReportAlways, PTL

\* When moreover no document ends at the end of a page, a setting write_config
\* reported stored stays readable until a flash operation is interrupted.
THEOREM WritesAreDurable ==
  ASSUME OffBoundary
  PROVE  Spec /\ []Exclusive => []Durable
<1>1. ASSUME ReportInv PROVE Durable
  BY <1>1 DEF ReportInv, Durable, Report, Readable
<1> QED
  BY <1>1, ReportAlways, PTL

-----------------------------------------------------------------------------
(* Boots.  That a boot ends is a matter of fairness and checked by TLC, see    *)
(* Recovers; that it ends well is not.                                         *)

\* What init does not fail on, and what it and later writes leave: a document
\* that can be read.
Serviceable ==
  /\ phase # "failed"
  /\ phase = "up" /\ ~Rewriting => Unreadable \notin Parse(flash)

\* Until init returns only the main task is in a call; and a document about to
\* be programmed fits, on a sector that has been erased.
BootInv ==
  /\ TypeOK /\ Serviceable
  /\ phase = "boot" =>
       /\ pc[Main] # "idle" /\ req[Main] = NoRequest
       /\ \A t \in Tasks : t # Main => pc[t] = "idle"
  /\ Rewriting => flash = Erased

\* The empty document, which init writes, passes the check of the length.
LEMMA InitWritesNull ==
  ASSUME NEW image \in Images, Unreadable \in Parse(image), OffBoundary
  PROVE  /\ Parse(image) = {Unreadable}
         /\ WithSetting(AsDoc(Unreadable), NoRequest) = NullDoc
         /\ ~TooLong(NullDoc)
<1>1. Parse(image) = {Unreadable}
  BY ConfigAssumption DEF Parse, Images, Fitting, OffBoundary, TooLong
<1>2. WithSetting(AsDoc(Unreadable), NoRequest) = NullDoc
  BY DEF WithSetting, AsDoc, NoRequest, NullDoc, Sections
<1> QED
  BY <1>1, <1>2, ConfigAssumption

\* A document that fits is read back.
LEMMA FitsIsRead ==
  ASSUME OffBoundary, NEW d \in Fitting
  PROVE  Parse(d) = {d} /\ d # Unreadable
BY FittingDoc, ConfigAssumption DEF Parse, OffBoundary, Fitting

LEMMA BootInit == Init => BootInv
<1> SUFFICES ASSUME Init PROVE BootInv
  OBVIOUS
<1>1. TypeOK /\ \A t \in Tasks : pc[t] # "program"
  BY TypeOKInit DEF Init, Booting
<1> QED
  BY <1>1, ConfigAssumption DEF Init, Booting, BootInv, Serviceable, Rewriting

LEMMA BootStep ==
  ASSUME OffBoundary, "error" \notin Faults,
         Exclusive, Exclusive', BootInv, [Next]_vars
  PROVE  BootInv'
<1>0. TypeOK /\ TypeOK'
  BY TypeOKStep DEF BootInv
\* Returning true is fine where the sector holds a document that can be read.
<1>r. ASSUME NEW t \in Tasks, pc[t] # "idle", Return(t, TRUE), ~Rewriting',
             Unreadable \notin Parse(flash')
      PROVE  BootInv'
  <2>1. phase' = "up"
    BY <1>r DEF Return, BootInv, Serviceable, TypeOK
  <2>2. Parse(flash)' = Parse(flash')
    BY DEF Parse, Terminated, NumberOfPages, Length, EntryLength
  <2> QED
    BY <1>0, <1>r, <2>1, <2>2 DEF BootInv, Serviceable
<1>1. ASSUME NEW t \in Tasks, NEW s \in Writes[t], NEW v \in Values, Call(t, s, v)
      PROVE  BootInv'
  <2>1. /\ phase = "up" /\ phase' = "up" /\ flash' = flash
        /\ Rewriting' <=> Rewriting
    BY <1>0, <1>1 DEF Call, Goto, TypeOK, Rewriting
  <2>2. Parse(flash)' = Parse(flash)
    BY <2>1 DEF Parse, Terminated, NumberOfPages, Length, EntryLength
  <2> QED
    BY <1>0, <2>1, <2>2 DEF BootInv, Serviceable
<1>2. ASSUME NEW t \in Tasks, ReadJson(t) PROVE BootInv'
  <2>0. pc[t] = "read" /\ flash' = flash
    BY <1>2 DEF ReadJson
  <2>p. Parse(flash)' = Parse(flash) /\ Parse(flash') = Parse(flash)
    BY <2>0 DEF Parse, Terminated, NumberOfPages, Length, EntryLength
  <2>1. PICK parsed \in Parse(flash) :
          LET d == WithSetting(AsDoc(parsed), req[t])
          IN  \/ KeepsDocument(t, parsed) /\ Return(t, TRUE)
              \/ ~KeepsDocument(t, parsed) /\ TooLong(d) /\ Return(t, FALSE)
              \/ /\ Goto(t, "erase")
                 /\ json' = [json EXCEPT ![t] = d]
                 /\ UNCHANGED <<phase, req>>
    BY <1>2 DEF ReadJson
  <2>2. CASE phase = "up"
    <3>1. phase' = "up" /\ (Rewriting' <=> Rewriting)
      BY <1>0, <2>0, <2>1, <2>2 DEF Return, Goto, TypeOK, Rewriting
    <3> QED
      BY <1>0, <2>0, <2>p, <2>2, <3>1 DEF BootInv, Serviceable
  <2>3. CASE phase = "boot"
    <3>1. /\ t = Main /\ req[t] = NoRequest /\ ~Rewriting
          /\ \A u \in Tasks : u # Main => pc[u] = "idle"
      BY <2>0, <2>3 DEF BootInv, Rewriting
    <3>2. KeepsDocument(t, parsed) <=> parsed # Unreadable
      BY <3>1 DEF KeepsDocument, NoRequest
    <3>3. CASE parsed # Unreadable
      <4>1. Unreadable \notin Parse(flash)
        BY <1>0, <3>3, <2>1, InitWritesNull DEF TypeOK
      <4>2. Return(t, TRUE) \/ (Goto(t, "erase") /\ UNCHANGED <<phase, req>>)
        BY <2>1, <3>2, <3>3
      <4>3. ~Rewriting'
        BY <1>0, <3>1, <4>2 DEF Return, Goto, TypeOK, Rewriting
      <4>4. CASE Return(t, TRUE)
        BY <2>0, <2>p, <4>1, <4>3, <4>4, <1>r
      <4>5. CASE Goto(t, "erase") /\ UNCHANGED <<phase, req>>
        BY <1>0, <2>3, <3>1, <4>3, <4>5 DEF Goto, TypeOK, BootInv, Serviceable
      <4> QED
        BY <4>2, <4>4, <4>5
    <3>4. CASE parsed = Unreadable
      <4>1. ~TooLong(WithSetting(AsDoc(parsed), req[t]))
        BY <1>0, <2>1, <3>1, <3>4, InitWritesNull DEF TypeOK
      <4>2. Goto(t, "erase") /\ UNCHANGED <<phase, req>>
        BY <2>1, <3>2, <3>4, <4>1
      <4> QED
        BY <1>0, <2>3, <3>1, <4>2 DEF Goto, TypeOK, BootInv, Serviceable, Rewriting
    <3> QED
      BY <3>3, <3>4
  <2> QED
    BY <1>0, <2>2, <2>3 DEF TypeOK, BootInv, Serviceable
<1>3. ASSUME NEW t \in Tasks, EraseFlash(t) PROVE BootInv'
  <2>1. /\ pc[t] = "erase" /\ pc'[t] = "program" /\ flash' = Erased
        /\ UNCHANGED <<phase, req>> /\ \A u \in Tasks : u # t => pc'[u] = pc[u]
    BY <1>3, <1>0 DEF EraseFlash, Goto, TypeOK
  <2>2. Rewriting'
    BY <2>1 DEF Rewriting
  <2> QED
    BY <1>0, <2>1, <2>2, ConfigAssumption DEF BootInv, Serviceable
<1>4. ASSUME NEW t \in Tasks, ProgramFlash(t) PROVE BootInv'
  <2>0. pc[t] = "program" /\ Return(t, TRUE) /\ flash' \in Overlay(flash, json[t])
    BY <1>4 DEF ProgramFlash
  <2>1. flash' = json[t] /\ json[t] \in Fitting
    BY <1>0, <2>0, OverlayErased DEF TypeOK, BootInv, Rewriting
  <2>2. ~Rewriting'
    BY <1>0, <2>0, NobodyElse DEF Return
  <2> QED
    BY <2>0, <2>1, <2>2, <1>r, FitsIsRead
<1>5. ASSUME NEW t \in Tasks PROVE ~EraseFails(t) /\ ~ProgramFails(t)
  BY DEF EraseFails, ProgramFails
<1>6. CASE Restart
  BY <1>0, <1>6, ConfigAssumption DEF Restart, Booting, BootInv, Serviceable, Rewriting
<1>7. CASE UNCHANGED vars
  <2>1. Parse(flash)' = Parse(flash)
    BY <1>7 DEF vars, Parse, Terminated, NumberOfPages, Length, EntryLength
  <2> QED
    BY <1>0, <1>7, <2>1 DEF vars, BootInv, Serviceable, Rewriting
<1> QED
  BY <1>1, <1>2, <1>3, <1>4, <1>5, <1>6, <1>7 DEF Next, Step

\* However many power failures there have been, and whatever they left in the
\* sector, no boot fails as long as the flash operations do not, and a device
\* that has come up has a document that can be read: init replaces any other.
THEOREM BootsSucceed ==
  ASSUME OffBoundary, "error" \notin Faults
  PROVE  Spec /\ []Exclusive => []Serviceable
<1>1. Init => BootInv
  BY BootInit
<1>2. Exclusive /\ Exclusive' /\ BootInv /\ [Next]_vars => BootInv'
  BY BootStep
<1>3. BootInv => Serviceable
  BY DEF BootInv
<1> QED
  BY <1>1, <1>2, <1>3, PTL DEF Spec

-----------------------------------------------------------------------------
(* ConfigHandler implements ConfigStore *)

\* The document in a task's hands differs from the stored one by one setting.
StoreInv ==
  /\ TypeOK
  /\ \A t \in Tasks : req[t] \in [section : Sections, value : Values] \cup {NoRequest}
  /\ Rewriting => flash = Erased
  /\ \A t \in Tasks :
       /\ pc[t] = "erase" => json[t] = WithSetting(Visible(flash), req[t])
       /\ pc[t] \in {"erase", "program"} => ~TooLong(json[t])

LEMMA VisibleType ==
  ASSUME NEW image
  PROVE  /\ Visible(image) \in Doc
         /\ Visible(Erased) = NullDoc /\ Visible(Unreadable) = NullDoc
BY NoRequestType, ConfigAssumption DEF Visible

\* What parsing yields is the visible document, unless it fills the sector.
LEMMA ParseVisible ==
  ASSUME NeverFull, NEW image \in Images, NEW parsed \in Parse(image)
  PROVE  AsDoc(parsed) = Visible(image)
BY ConfigAssumption DEF NeverFull, Parse, AsDoc, Visible

LEMMA StoreInvInit == Init => StoreInv
<1> SUFFICES ASSUME Init PROVE StoreInv
  OBVIOUS
<1>1. \A t \in Tasks : pc[t] \notin {"erase", "program"} /\ req[t] = NoRequest
  BY DEF Init, Booting
<1> QED
  BY <1>1, TypeOKInit DEF StoreInv, Rewriting

\* The last two conjuncts, while the sector and the task's call are the same.
LEMMA HandsStay ==
  ASSUME NEW t \in Tasks, UNCHANGED flash, json'[t] = json[t], req'[t] = req[t]
  PROVE  /\ json[t] = WithSetting(Visible(flash), req[t]) =>
              (json[t] = WithSetting(Visible(flash), req[t]))'
         /\ ~TooLong(json[t]) => ~TooLong(json[t])'
BY DEF WithSetting, Visible, TooLong, Length, EntryLength, Terminated, NumberOfPages

LEMMA StoreInvStep ==
  ASSUME NeverFull, Exclusive, Exclusive', StoreInv, [Next]_vars
  PROVE  StoreInv'
<1>0. TypeOK /\ TypeOK'
  BY TypeOKStep DEF StoreInv
<1>b. ASSUME NEW t \in Tasks, NEW status \in BOOLEAN,
             pc[t] \in {"erase", "program"}, Return(t, status)
      PROVE  StoreInv'
  <2>1. /\ req'[t] = NoRequest /\ \A u \in Tasks : u # t => req'[u] = req[u]
        /\ Goto(t, "idle")
    BY <1>0, <1>b DEF Return, TypeOK
  <2>2. ~Rewriting' /\ \A u \in Tasks : pc'[u] \notin {"erase", "program"}
    BY <1>0, <1>b, <2>1, NobodyElse
  <2> QED
    BY <1>0, <2>1, <2>2 DEF StoreInv
<1>c. ASSUME NEW t \in Tasks, pc[t] \in {"idle", "read"}, pc'[t] \in {"idle", "read"},
             UNCHANGED flash,
             req'[t] \in [section : Sections, value : Values] \cup {NoRequest},
             \A u \in Tasks : u # t =>
               pc'[u] = pc[u] /\ req'[u] = req[u] /\ json'[u] = json[u]
      PROVE  StoreInv'
  <2>1. Rewriting' <=> Rewriting
    BY <1>c DEF Rewriting
  <2>2. ASSUME NEW u \in Tasks, u # t
        PROVE  /\ pc'[u] = "erase" => (json[u] = WithSetting(Visible(flash), req[u]))'
               /\ pc'[u] \in {"erase", "program"} => ~TooLong(json[u])'
    BY <1>c, <2>2, HandsStay DEF StoreInv
  <2>3. \A u \in Tasks : req'[u] \in [section : Sections, value : Values] \cup {NoRequest}
    BY <1>c DEF StoreInv
  <2> QED
    BY <1>0, <1>c, <2>1, <2>2, <2>3 DEF StoreInv
<1>1. ASSUME NEW t \in Tasks, NEW s \in Writes[t], NEW v \in Values, Call(t, s, v)
      PROVE  StoreInv'
  <2>1. req'[t] = [section |-> s, value |-> v] /\ s \in Sections
    BY <1>0, <1>1, ConfigAssumption DEF Call, TypeOK
  <2>2. /\ pc[t] = "idle" /\ pc'[t] = "read" /\ UNCHANGED flash
        /\ \A u \in Tasks : u # t =>
             pc'[u] = pc[u] /\ req'[u] = req[u] /\ json'[u] = json[u]
    BY <1>0, <1>1 DEF Call, Goto, TypeOK
  <2> QED
    BY <2>1, <2>2, <1>c
<1>2. ASSUME NEW t \in Tasks, ReadJson(t) PROVE StoreInv'
  <2>1. PICK parsed \in Parse(flash) :
          LET d == WithSetting(AsDoc(parsed), req[t])
          IN  \/ Return(t, TRUE) \/ Return(t, FALSE)
              \/ /\ ~TooLong(d) /\ Goto(t, "erase")
                 /\ json' = [json EXCEPT ![t] = d]
                 /\ UNCHANGED <<phase, req>>
    BY <1>2 DEF ReadJson
  <2>2. UNCHANGED flash /\ pc[t] = "read"
    BY <1>2 DEF ReadJson
  <2>3. CASE Return(t, TRUE) \/ Return(t, FALSE)
    BY <1>0, <1>c, <2>2, <2>3 DEF Return, Goto, TypeOK
  <2>4. ASSUME Goto(t, "erase"), UNCHANGED <<phase, req>>,
               ~TooLong(WithSetting(AsDoc(parsed), req[t])),
               json' = [json EXCEPT ![t] = WithSetting(AsDoc(parsed), req[t])]
        PROVE  StoreInv'
    <3>1. /\ pc'[t] = "erase" /\ json'[t] = WithSetting(AsDoc(parsed), req[t])
          /\ \A u \in Tasks : u # t => pc'[u] = pc[u]
      BY <2>4, <1>0 DEF Goto, TypeOK
    <3>2. \A u \in Tasks : u # t => pc'[u] \notin {"erase", "program"}
      BY <3>1 DEF Exclusive
    <3>3. AsDoc(parsed) = Visible(flash')
      BY <2>2, <1>0, ParseVisible DEF TypeOK
    <3>4. json'[t] = WithSetting(Visible(flash'), req'[t])
      BY <2>4, <3>1, <3>3
    <3>5. ~TooLong(json'[t])
      BY <2>4, <3>1
    <3>6. ~Rewriting'
      BY <3>1, <3>2 DEF Rewriting
    <3>7. \A u \in Tasks : req'[u] \in [section : Sections, value : Values] \cup {NoRequest}
      BY <2>4 DEF StoreInv
    <3>8. /\ (json[t] = WithSetting(Visible(flash), req[t]))'
          /\ ~TooLong(json[t])'
      BY <3>4, <3>5 DEF WithSetting, Visible, TooLong, Length, EntryLength, Terminated,
         NumberOfPages
    <3> QED
      BY <1>0, <3>2, <3>6, <3>7, <3>8 DEF StoreInv
  <2> QED
    BY <2>1, <2>3, <2>4
<1>3. ASSUME NEW t \in Tasks, EraseFlash(t) PROVE StoreInv'
  <2>1. /\ pc[t] = "erase" /\ pc'[t] = "program" /\ flash' = Erased
        /\ UNCHANGED <<req, json>>
    BY <1>3, <1>0 DEF EraseFlash, Goto, TypeOK
  <2>2. \A u \in Tasks : pc'[u] \in {"erase", "program"} => u = t
    BY <2>1 DEF Exclusive
  <2> QED
    BY <1>0, <2>1, <2>2 DEF StoreInv, TooLong, Length, EntryLength
<1>4. ASSUME NEW t \in Tasks, EraseFails(t) \/ ProgramFlash(t) \/ ProgramFails(t)
      PROVE  StoreInv'
  BY <1>4, <1>b DEF EraseFails, ProgramFlash, ProgramFails
<1>5. ASSUME Restart PROVE StoreInv'
  <2>1. \A t \in Tasks : pc'[t] \notin {"erase", "program"} /\ req'[t] = NoRequest
    BY <1>5 DEF Restart, Booting
  <2> QED
    BY <1>0, <2>1 DEF StoreInv, Rewriting
<1>6. CASE UNCHANGED vars
  <2>1. ASSUME NEW t \in Tasks
        PROVE  /\ pc'[t] = "erase" => (json[t] = WithSetting(Visible(flash), req[t]))'
               /\ pc'[t] \in {"erase", "program"} => ~TooLong(json[t])'
    BY <1>6, HandsStay DEF vars, StoreInv
  <2> QED
    BY <1>0, <1>6, <2>1 DEF vars, StoreInv, Rewriting
<1> QED
  BY <1>1, <1>2, <1>3, <1>4, <1>5, <1>6 DEF Next, Step

LEMMA StoreInit == Init => Store!Init
<1> SUFFICES ASSUME Init PROVE Store!Init
  OBVIOUS
<1>1. Stored = Visible(flash)
  BY DEF Init, Booting, Stored, Rewriting
<1>2. Visible(flash) = NullDoc
  BY VisibleType DEF Init
<1> QED
  BY <1>1, <1>2 DEF Store!Init, Store!EmptyStore, NullDoc

\* The document is in the hands of the one task between the two flash operations,
\* and in the sector otherwise.
LEMMA StoredOf ==
  ASSUME Exclusive
  PROVE  /\ \A t \in Tasks : pc[t] = "program" => Stored = json[t]
         /\ ~Rewriting => Stored = Visible(flash)
<1>1. ASSUME NEW t \in Tasks, pc[t] = "program"
      PROVE  (CHOOSE u \in Tasks : pc[u] = "program") = t
  BY <1>1 DEF Exclusive
<1> QED
  BY <1>1 DEF Stored, Rewriting

\* The same of the state after a step.
LEMMA StoredAfter ==
  ASSUME Exclusive'
  PROVE  /\ \A t \in Tasks : pc'[t] = "program" => Stored' = json'[t]
         /\ ~Rewriting' => Stored' = Visible(flash')
<1>1. ASSUME NEW t \in Tasks, pc'[t] = "program"
      PROVE  (CHOOSE u \in Tasks : pc'[u] = "program") = t
  BY <1>1 DEF Exclusive
<1> QED
  BY <1>1 DEF Stored, Rewriting, Visible, Terminated, Length, EntryLength, NumberOfPages

\* Every step of the handler is an update of one section, a loss of the store,
\* or invisible.
LEMMA StoreStep ==
  ASSUME NeverFull, Exclusive, Exclusive', StoreInv, StoreInv', [Next]_vars
  PROVE  [Store!Next]_Stored
<1>0. TypeOK /\ TypeOK'
  BY DEF StoreInv
<1>l. ASSUME Stored' = NullDoc, Faults # {} \/ ~OffBoundary PROVE Store!Next
  BY <1>l DEF Store!Next, Store!Lose, Store!EmptyStore, NullDoc
\* Steps that program nothing and leave the sector and the documents alone.
<1>c. ASSUME NEW t \in Tasks, UNCHANGED flash,
             pc[t] # "program", pc'[t] # "program",
             \A u \in Tasks : u # t => pc'[u] = pc[u] /\ json'[u] = json[u]
      PROVE  Stored' = Stored
  <2>1. CASE Rewriting
    <3>1. PICK u \in Tasks : pc[u] = "program" /\ u # t
      BY <1>c, <2>1 DEF Rewriting
    <3> QED
      BY <1>c, <3>1, StoredOf, StoredAfter
  <2>2. CASE ~Rewriting
    <3>1. ~Rewriting'
      BY <1>c, <2>2 DEF Rewriting
    <3> QED
      BY <1>c, <2>2, <3>1, StoredOf, StoredAfter
  <2> QED
    BY <2>1, <2>2
<1>1. ASSUME NEW t \in Tasks, NEW s \in Writes[t], NEW v \in Values, Call(t, s, v)
      PROVE  Stored' = Stored
  BY <1>1, <1>0, <1>c DEF Call, Goto, TypeOK
<1>2. ASSUME NEW t \in Tasks, ReadJson(t) PROVE Stored' = Stored
  BY <1>2, <1>0, <1>c DEF ReadJson, Return, Goto, TypeOK
<1>3. ASSUME NEW t \in Tasks, EraseFlash(t) PROVE [Store!Next]_Stored
  <2>1. pc[t] = "erase" /\ pc'[t] = "program" /\ json' = json
    BY <1>3, <1>0 DEF EraseFlash, Goto, TypeOK
  <2>2. ~Rewriting
    BY <2>1 DEF Rewriting, Exclusive
  <2>3. Stored = Visible(flash) /\ Stored' = json[t]
    BY <2>1, <2>2, StoredOf, StoredAfter
  <2>4. Stored \in Doc /\ Stored' = WithSetting(Stored, req[t])
    BY <2>1, <2>3, VisibleType DEF StoreInv
  <2>5. CASE req[t] = NoRequest
    <3>1. Stored' = Stored
      BY <2>4, <2>5 DEF WithSetting, NoRequest, Doc, Sections
    <3> QED
      BY <3>1
  <2>6. CASE req[t] \in [section : Sections, value : Values]
    <3>1. Stored' = [Stored EXCEPT ![req[t].section] = req[t].value]
      BY <2>4, <2>6 DEF WithSetting, Doc
    <3>2. req[t].section \in Sections /\ req[t].value \in Values
      BY <2>6
    <3> QED
      BY <3>1, <3>2 DEF Store!Next, Store!Update
  <2> QED
    BY <2>5, <2>6 DEF StoreInv
<1>4. ASSUME NEW t \in Tasks, EraseFails(t) PROVE [Store!Next]_Stored
  <2>1. /\ pc[t] = "erase" /\ Goto(t, "idle") /\ flash' \in {flash, Erased}
        /\ Faults # {}
    BY <1>4 DEF EraseFails, Return
  <2>2. ~Rewriting /\ ~Rewriting'
    BY <1>0, <2>1, NobodyElse
  <2> QED
    BY <2>1, <2>2, <1>l, StoredOf, StoredAfter, VisibleType
<1>5. ASSUME NEW t \in Tasks, ProgramFlash(t) \/ ProgramFails(t)
      PROVE  [Store!Next]_Stored
  <2>1. /\ pc[t] = "program" /\ Goto(t, "idle") /\ json[t] \in Doc
        /\ ~TooLong(json[t])
        /\ flash' \in {Erased, json[t]} /\ (flash' = Erased => Faults # {})
    BY <1>5, <1>0, OverlayErased, ConfigAssumption
    DEF ProgramFlash, ProgramFails, Return, TypeOK, StoreInv, Rewriting, Fitting
  <2>2. ~Rewriting'
    BY <1>0, <2>1, NobodyElse
  <2>3. Stored = json[t] /\ Stored' = Visible(flash')
    BY <2>1, <2>2, StoredOf, StoredAfter
  <2>4. Visible(json[t]) = json[t] \/ (Visible(json[t]) = NullDoc /\ ~OffBoundary)
    BY <2>1 DEF Visible, OffBoundary
  <2> QED
    BY <2>1, <2>3, <2>4, <1>l, VisibleType
<1>6. ASSUME Restart PROVE [Store!Next]_Stored
  <2>1. ~Rewriting' /\ Faults # {} /\ flash' \in {flash, Unreadable}
    BY <1>6, ConfigAssumption DEF Restart, Booting, Rewriting
  <2>2. Stored' = Visible(flash')
    BY <2>1, StoredAfter
  <2>3. Stored' = Stored \/ Stored' = NullDoc
    BY <2>1, <2>2, StoredOf, VisibleType DEF StoreInv
  <2> QED
    BY <2>1, <2>3, <1>l
<1>7. CASE UNCHANGED vars
  <2>1. Stored' = Stored
    BY <1>7, StoredOf, StoredAfter DEF vars, Rewriting
  <2> QED
    BY <2>1
<1> QED
  BY <1>1, <1>2, <1>3, <1>4, <1>5, <1>6, <1>7 DEF Next, Step

\* With any number of tasks that exclude each other, the handler is a store of
\* independent settings: a write changes its own section, and the only other
\* thing that can happen, when a flash operation is interrupted or a document
\* ends at the end of a page, is that the whole store is emptied.
THEOREM ImplementsStore ==
  ASSUME NeverFull
  PROVE  Spec /\ []Exclusive => Atomic
<1>1. Init => StoreInv /\ Store!Init
  BY StoreInvInit, StoreInit
<1>2. Exclusive /\ Exclusive' /\ StoreInv /\ [Next]_vars => StoreInv'
  BY StoreInvStep
<1>3. Exclusive /\ Exclusive' /\ StoreInv /\ StoreInv' /\ [Next]_vars => [Store!Next]_Stored
  BY StoreStep
<1> QED
  BY <1>1, <1>2, <1>3, PTL DEF Spec, Atomic, Store!Spec

\* What a lock in write_config would achieve for the device, whose button task
\* and lwIP thread both write: no setting is stale, and those stored are kept as
\* a store of independent settings keeps them.
COROLLARY LockIsEnough ==
  ASSUME OffBoundary, NeverFull
  PROVE  Spec /\ Locked => []NeverStale /\ []Durable /\ Atomic
BY LockExcludes, ReadsAreNeverStale, WritesAreDurable, ImplementsStore, PTL

\* The same of a single task, which is what the code has until a second one writes.
COROLLARY OneTaskIsEnough ==
  ASSUME Tasks = {Main}, OffBoundary, NeverFull
  PROVE  Spec => []NeverStale /\ []Durable /\ Atomic
BY OneTaskExclusive, ReadsAreNeverStale, WritesAreDurable, ImplementsStore, PTL
============================================================================
