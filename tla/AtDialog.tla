------------------------------ MODULE AtDialog ------------------------------
(***************************************************************************)
(* The dialogs with the SIM7670G on Serial1 (modem_client.cpp,             *)
(* gps_client.cpp), one at a time under the modem lock: initialization,    *)
(* status poll, the three ways of sending an SMS, and a GNSS poll.  A      *)
(* dialog is the list of steps it still has to take; a step writes a       *)
(* command and reads lines up to an OK, an ERROR or a timeout.  Serial1    *)
(* loses nothing, but an answer may come after its client gave up on it:   *)
(* then the next command's purge drops what has arrived of it, and the     *)
(* rest is read as the answer to that command.                             *)
(***************************************************************************)
EXTENDS Naturals, SequencesExt

CONSTANTS
  Kinds,        \* the dialogs of this instance
  Parts,        \* parts of a text beyond one segment
  Tries,        \* kModemInitRetries
  MaxDialogs,   \* bound: dialogs
  MaxLate,      \* bound: answers given up on though they are still to come
  MaxFaults     \* bound: refused commands, failed writes and unsolicited lines

ASSUME AtDialogAssumption ==
  /\ Kinds \subseteq {"init", "poll", "gsm", "ucs2", "long", "gnss"}
  /\ Parts \in Nat \ {0} /\ Tries \in Nat \ {0}
  /\ {MaxDialogs, MaxLate, MaxFaults} \subseteq Nat

VARIABLES
  kinds,      \* the dialogs so far; a send's message is named by its position
  todo,       \* the steps the current dialog has left
  phase,      \* "idle", "send", or the lines awaited: "reply", "prompt", "confirm"
  got,        \* the last line of the reply that was not OK (scratch_)
  haveCmgs,   \* submitData has seen +CMGS
  ok,         \* no step that decides the current or last dialog has failed
  fields,     \* status fields of this dialog: the answer each was taken from
  gnss,       \* the GNSS status published last: "none", "present" or "absent"
  restartRequired, \* the poll task has not power-cycled the receiver yet
  tx,         \* what the modem has not read yet
  line,       \* lines on their way to the client or in its receive buffer
  dev,        \* settings of the modem, and the text it is being given
  sent,       \* messages the modem has accepted
  unset,      \* receive settings of which a command was refused, not written or taken
              \* for a part of a text, and none written since
  used        \* how much of the bounds is used

clientVars == <<kinds, todo, phase, got, haveCmgs, ok, fields, gnss, restartRequired>>
modemVars  == <<dev, sent>>
vars == <<clientVars, tx, line, modemVars, unset, used>>

Sends == {"gsm", "ucs2", "long"}

Fields == {"none", "cpin", "csq", "cesq", "cereg", "creg", "cgatt", "cops", "smsMe",
           "smsSm", "cclk", "imei", "fw", "powered", "mode", "fix", "sats"}

\* A line, the command it answers, and what a CPMS?, CGNSSPWR? or CGNSSMODE? answer says.
Line(t, cmd, v) == [t |-> t, of |-> cmd, v |-> v]
NoLine == Line("none", "none", FALSE)

\* What is written: a command, the text for the prompt, or a text without its Ctrl-Z.
Written(cmd, msg, part) == [cmd |-> cmd, msg |-> msg, part |-> part]
NoInput == Written("none", 0, 0)

-----------------------------------------------------------------------------
(* The scripts of the dialogs. *)

\* may: the dialog goes on whatever happens; must: it ends when the step fails,
\* after the steps of `undo'; blind: as may, and the reply is awaited even when
\* nothing was written.  The other roles are named for the code they stand for.
Step(cmd, role, field, undo) ==
  [cmd |-> cmd, role |-> role, field |-> field, undo |-> undo, part |-> 0, tries |-> Tries]

May(cmd)        == Step(cmd, "may", "none", <<>>)
Blind(cmd)      == Step(cmd, "blind", "none", <<>>)
Must(cmd, undo) == Step(cmd, "must", "none", undo)
Ask(cmd, field) == Step(cmd, "may", field, <<>>)

RestoreCharset == <<May("CSCS=UCS2")>>
RestoreMode    == <<Blind("CMGF=1")>> \o RestoreCharset

(* Plausible bugs, used only to show that the properties notice them. *)

\* A failed submission leaves the mode and charset as the send set them.
SubmitNoUndo(part, undo) == [Step("CMGS", "submit", "none", <<>>) EXCEPT !.part = part]

\* The receiver is not powered off before its antenna gets its bias.
RestartUncycled ==
  <<Must("CGDRT", <<>>), Must("CGSETV", <<>>), Step("CGNSSPWR?", "ensure", "none", <<>>)>>

\* A signal line is parsed without looking at its prefix.
ReadableByShape ==
  [none |-> {}, cpin |-> {"CPIN?"}, csq |-> {"CSQ", "CESQ", "urc"}, cesq |-> {"CESQ"},
   cereg |-> {"CREG?", "CEREG?"}, creg |-> {"CREG?", "CEREG?"}, cops |-> {"COPS?"},
   smsMe |-> {"CPMS?"}, smsSm |-> {"CPMS?"}, cclk |-> {"CCLK?"}, imei |-> {"CGSN", "GSN"},
   powered |-> {"CGNSSPWR?"}, mode |-> {"CGNSSMODE?"}, fix |-> {"CGPSINFO"},
   sats |-> {"CGNSSINFO"}]

\* The outcome of a submission is not looked at.
DecidesHopeful(good) == Head(todo).role \in {"must", "probe", "cycle"} /\ ~good

-----------------------------------------------------------------------------

Submit(part, undo) == [Step("CMGS", "submit", "none", undo) EXCEPT !.part = part]

\* What the wait for SMS DONE reads, the purge of the next command would drop.
InitScript ==
  <<Step("AT", "probe", "none", <<>>), May("ATE0"), May("ATV1"), May("CMEE"),
    May("CMGF=1"), May("CSCS=UCS2"), May("CSDH"), May("CPMS=ME"), May("CNMI")>>

PollScript ==
  <<Must("AT", <<>>), Ask("CPIN?", "cpin"), Ask("CSQ", "csq"), Ask("CESQ", "cesq"),
    Ask("CEREG?", "cereg"), Ask("CREG?", "creg"), Ask("CGATT?", "cgatt"),
    Ask("COPS?", "cops"), Step("CPMS?", "counters", "smsMe", <<>>), Ask("CCLK?", "cclk"),
    Step("CGSN", "imei", "imei", <<>>), Ask("CGMR", "fw")>>

GsmScript ==
  <<Blind("AT"), Must("CMGF=1", <<>>), Must("CSCS=GSM", RestoreCharset),
    Must("CSMP=GSM", RestoreCharset), Submit(1, RestoreCharset)>> \o RestoreCharset

Ucs2Script ==
  <<Blind("AT"), Must("CMGF=1", <<>>), Must("CSCS=UCS2", <<>>), Must("CSMP=UCS2", <<>>),
    Submit(1, <<>>)>>

\* Later parts are submitted though an earlier one failed; of LongScript.
LongScriptOnwards ==
  <<Blind("AT"), Must("CMGF=0", RestoreMode)>>
  \o [p \in 1 .. Parts |->
        Submit(p, [q \in 1 .. Parts - p |-> Submit(p + q, RestoreMode)] \o RestoreMode)]
  \o RestoreMode

LongScript ==
  <<Blind("AT"), Must("CMGF=0", RestoreMode)>>
  \o [p \in 1 .. Parts |-> Submit(p, RestoreMode)] \o RestoreMode

EnsurePowered ==
  <<Must("CGDRT", <<>>), Must("CGSETV", <<>>), Step("CGNSSPWR?", "ensure", "none", <<>>)>>

GnssRestart == <<Step("CGNSSPWR?", "cycle", "none", <<>>)>> \o EnsurePowered

GnssPoll ==
  <<Must("AT", <<>>)>> \o EnsurePowered \o
  <<Ask("CGNSSPWR?", "powered"), Ask("CGNSSMODE?", "mode"), Ask("CGPSINFO", "fix"),
    Ask("CGNSSINFO", "sats")>>

Script(kind) ==
  CASE kind = "init" -> InitScript
    [] kind = "poll" -> PollScript
    [] kind = "gsm"  -> GsmScript
    [] kind = "ucs2" -> Ucs2Script
    [] kind = "long" -> LongScript
    [] kind = "gnss" -> (IF restartRequired THEN GnssRestart ELSE <<>>) \o GnssPoll

-----------------------------------------------------------------------------

TypeOK ==
  /\ kinds \in Seq(Kinds) /\ Len(kinds) <= MaxDialogs
  /\ phase \in {"idle", "send", "reply", "prompt", "confirm"}
  /\ phase = "idle" <=> todo = <<>>
  /\ \A i \in DOMAIN todo : todo[i].field \in Fields /\ todo[i].tries \in 1 .. Tries
  /\ ok \in BOOLEAN /\ haveCmgs \in BOOLEAN /\ restartRequired \in BOOLEAN
  /\ \A f \in fields : f.field \in Fields
  /\ gnss \in {"none", "present", "absent"}
  /\ dev.input = NoInput \/ dev.input.part \in 1 .. Parts
  /\ unset \subseteq {"mode", "charset"}
  /\ used.late <= MaxLate /\ used.errors + used.urcs <= MaxFaults

\* The ESP has restarted beside a modem that is not set up for SMS, and whose
\* receiver was left running without bias at its antenna.
Init ==
  /\ kinds = <<>> /\ todo = <<>> /\ phase = "idle"
  /\ got = NoLine /\ haveCmgs = FALSE /\ ok = TRUE
  /\ fields = {} /\ gnss = "none" /\ restartRequired = TRUE
  /\ tx = <<>> /\ line = <<>> /\ sent = <<>>
  /\ dev = [mode |-> "pdu", charset |-> "GSM", dcs |-> "GSM", store |-> "ME",
            route |-> "off", volt |-> "off", power |-> "on", biased |-> FALSE,
            input |-> NoInput, clean |-> TRUE]
  /\ unset = {"mode", "charset"}
  /\ used = [late |-> 0, errors |-> 0, urcs |-> 0]

-----------------------------------------------------------------------------
(* The client. *)

Kind == Last(kinds)
Msg  == Len(kinds)

\* The answers the parser of a field accepts; the others are told by their
\* prefix, and it is the attach flag and the firmware that take any line.
Readable ==
  [none |-> {}, cpin |-> {"CPIN?"}, csq |-> {"CSQ"}, cesq |-> {"CESQ"},
   cereg |-> {"CREG?", "CEREG?"}, creg |-> {"CREG?", "CEREG?"}, cops |-> {"COPS?"},
   smsMe |-> {"CPMS?"}, smsSm |-> {"CPMS?"}, cclk |-> {"CCLK?"}, imei |-> {"CGSN", "GSN"},
   powered |-> {"CGNSSPWR?"}, mode |-> {"CGNSSMODE?"}, fix |-> {"CGPSINFO"},
   sats |-> {"CGNSSINFO"}]

Parsed(field) ==
  /\ got # NoLine
  /\ field \in {"cgatt", "fw"} \/ got.of \in Readable[field]

\* parseCgnssPwrLine and parseCgnssModeLine of the ensurePowered steps.
SaysOn(cmd) == got.of = cmd /\ got.v

PowerOn == <<Must("CGNSSPWR=1", <<>>), May("CGNSSMODE=3")>>

Retry(step) == IF step.tries = 1 THEN <<>> ELSE <<[step EXCEPT !.tries = @ - 1]>>

\* What is left to do after the step succeeded or failed.
Follow(good) ==
  LET step == Head(todo)
      rest == Tail(todo)
      cmd  == step.cmd
  IN  CASE step.role \in {"may", "blind"} -> rest
        [] step.role \in {"must", "submit"} -> IF good THEN rest ELSE step.undo
        [] step.role = "probe" ->
             IF good THEN rest ELSE IF Retry(step) = <<>> THEN <<>> ELSE Retry(step) \o rest
        [] step.role = "counters" ->
             IF good THEN <<Step("CPMS=SM", "store", "none", <<>>), May("CPMS=ME")>> \o rest
             ELSE rest
        [] step.role = "store" -> IF good THEN <<Ask("CPMS?", "smsSm")>> \o rest ELSE rest
        [] step.role = "imei" ->
             IF good /\ Parsed("imei") THEN rest ELSE <<Ask("GSN", "imei")>> \o rest
        [] step.role = "cycle" ->
             IF ~good \/ got.of # cmd THEN <<>>
             ELSE IF got.v THEN <<Must("CGNSSPWR=0", <<>>)>> \o rest ELSE rest
        [] step.role = "ensure" ->
             IF good /\ SaysOn(cmd) THEN <<Step("CGNSSMODE?", "mode", "none", <<>>)>> \o rest
             ELSE PowerOn \o rest
        [] step.role = "mode" ->
             IF good /\ SaysOn(cmd) THEN rest ELSE <<May("CGNSSMODE=3")>> \o rest

\* The steps whose failure is the dialog's.
Decides(good) ==
  LET step == Head(todo)
  IN  \/ step.role \in {"must", "submit"} /\ ~good
      \/ step.role = "probe" /\ ~good /\ step.tries = 1
      \/ step.role = "cycle" /\ (~good \/ got.of # step.cmd)

\* The dialog goes on with `left', or ends: the poll tasks publish what they have.
Proceed(left, fails) ==
  /\ todo' = left
  /\ phase' = IF left = <<>> THEN "idle" ELSE "send"
  /\ ok' = (ok /\ ~fails)
  /\ gnss' = IF Kind = "gnss" /\ left = <<>>
             THEN IF ok' THEN "present" ELSE "absent" ELSE gnss
  /\ restartRequired' =
       (restartRequired /\ ~(Kind = "gnss" /\ left # <<>> /\ Head(left).cmd = "AT"))
  /\ got' = NoLine
  /\ haveCmgs' = FALSE
  /\ UNCHANGED kinds

Taken(field) ==
  IF Parsed(field) THEN {[field |-> field, of |-> got.of, v |-> got.v]} ELSE {}

Succeeded ==
  /\ Proceed(Follow(TRUE), Decides(TRUE))
  /\ fields' = fields \cup Taken(Head(todo).field)

Failed == Proceed(Follow(FALSE), Decides(FALSE)) /\ UNCHANGED fields

\* channel_.purge drops what has arrived.
Purge == \E n \in 0 .. Len(line) : line' = SubSeq(line, n + 1, Len(line))

Start(kind) ==
  /\ phase = "idle"
  /\ Len(kinds) < MaxDialogs
  /\ kinds' = Append(kinds, kind)
  /\ todo' = Script(kind)
  /\ phase' = "send"
  /\ ok' = TRUE
  /\ fields' = {}
  /\ UNCHANGED <<got, haveCmgs, gnss, restartRequired, tx, line, modemVars, unset, used>>

\* syncTask makes a new GNSS poll task.
RestartGnssTask ==
  /\ phase = "idle" /\ ~restartRequired /\ Len(kinds) < MaxDialogs
  /\ restartRequired' = TRUE
  /\ UNCHANGED <<kinds, todo, phase, got, haveCmgs, ok, fields, gnss, tx, line, modemVars,
                 unset, used>>

\* What a command sets, as the receive settings are concerned.
Concerns(cmd) ==
  CASE cmd = "CMGF=1" -> {"mode"} [] cmd = "CSCS=UCS2" -> {"charset"} [] OTHER -> {}

\* sendCommand; the lines of submitData follow a CMGS.
Send ==
  /\ phase = "send"
  /\ Purge
  /\ tx' = Append(tx, Written(Head(todo).cmd, Msg, Head(todo).part))
  /\ phase' = IF Head(todo).role = "submit" THEN "prompt" ELSE "reply"
  /\ unset' = unset \ Concerns(Head(todo).cmd)
  /\ UNCHANGED <<kinds, todo, got, haveCmgs, ok, fields, gnss, restartRequired,
                 modemVars, used>>

Faulty == used.errors + used.urcs < MaxFaults
Err == Faulty /\ used' = [used EXCEPT !.errors = @ + 1]

\* A command that could not be written changes nothing that would have to be undone.
Unsent ==
  LET step == Head(todo)
  IN  CASE step.cmd = "CMGF=0"   -> RestoreCharset
        [] step.cmd = "CSCS=GSM" -> <<>>
        [] OTHER                 -> Follow(FALSE)

SendFails ==
  /\ phase = "send"
  /\ Err
  /\ Purge
  /\ IF Head(todo).role = "blind"
     THEN \* the reply is awaited all the same
          /\ phase' = "reply"
          /\ UNCHANGED <<kinds, todo, got, haveCmgs, ok, fields, gnss, restartRequired>>
     ELSE Proceed(Unsent, Decides(FALSE)) /\ UNCHANGED fields
  /\ unset' = unset \cup Concerns(Head(todo).cmd)
  /\ UNCHANGED <<tx, modemVars>>

\* One line of readResponse.
Reply ==
  /\ phase = "reply" /\ line # <<>>
  /\ line' = Tail(line)
  /\ \/ Head(line).t = "ok" /\ Succeeded
     \/ Head(line).t = "error" /\ Failed
     \/ /\ Head(line).t \notin {"ok", "error"}
        /\ got' = Head(line)
        /\ UNCHANGED <<kinds, todo, phase, haveCmgs, ok, fields, gnss, restartRequired>>
  /\ UNCHANGED <<tx, modemVars, unset, used>>

\* One line of submitData before the prompt: an OK that is still on its way is skipped.
AwaitPrompt ==
  /\ phase = "prompt" /\ line # <<>>
  /\ line' = Tail(line)
  /\ \/ /\ Head(line).t = "prompt"
        /\ phase' = "confirm"
        /\ tx' = Append(tx, Written("body", Msg, Head(todo).part))
        /\ UNCHANGED <<kinds, todo, got, haveCmgs, ok, fields, gnss, restartRequired>>
     \/ Head(line).t = "error" /\ Failed /\ UNCHANGED tx
     \/ Head(line).t \notin {"prompt", "error"} /\ UNCHANGED <<clientVars, tx>>
  /\ UNCHANGED <<modemVars, unset, used>>

\* The text, or the Ctrl-Z after it, cannot be written.
BodyFails ==
  /\ phase = "prompt" /\ line # <<>> /\ Head(line).t = "prompt"
  /\ Err
  /\ line' = Tail(line)
  /\ tx' \in {tx, Append(tx, Written("text", Msg, Head(todo).part))}
  /\ Failed
  /\ UNCHANGED <<modemVars, unset>>

\* One line of submitData after the text: only an OK after +CMGS is a success.
AwaitConfirmation ==
  /\ phase = "confirm" /\ line # <<>>
  /\ line' = Tail(line)
  /\ \/ /\ Head(line).t = "cmgs"
        /\ haveCmgs' = TRUE
        /\ UNCHANGED <<kinds, todo, phase, got, ok, fields, gnss, restartRequired>>
     \/ Head(line).t = "ok" /\ haveCmgs /\ Succeeded
     \/ Head(line).t = "ok" /\ ~haveCmgs /\ Failed
     \/ Head(line).t = "error" /\ Failed
     \/ Head(line).t \notin {"cmgs", "ok", "error"} /\ UNCHANGED clientVars
  /\ UNCHANGED <<tx, modemVars, unset, used>>

\* No line will come any more: the modem has nothing to answer, or waits for a text.
Silent ==
  /\ line = <<>>
  /\ \/ tx = <<>>
     \/ dev.input # NoInput /\ \A i \in DOMAIN tx : tx[i].cmd # "body"

Waiting == phase \in {"reply", "prompt", "confirm"}

TimesOut ==
  /\ Waiting /\ Silent
  /\ Failed
  /\ UNCHANGED <<tx, line, modemVars, unset, used>>

\* readLine gives up on a line that comes later.  The modem may as well have read
\* the command: its answer is on its way as long as it takes.
GivesUp ==
  /\ Waiting /\ ~Silent /\ tx = <<>>
  /\ used.late < MaxLate
  /\ used' = [used EXCEPT !.late = @ + 1]
  /\ Failed
  /\ UNCHANGED <<tx, line, modemVars, unset>>

-----------------------------------------------------------------------------
(* The modem, from what the client makes of its answers. *)

\* What a command sets; a receiver that was off is started with or without bias at
\* its antenna.
Effect(cmd) ==
  [dev EXCEPT
     !.mode    = CASE cmd = "CMGF=0" -> "pdu" [] cmd = "CMGF=1" -> "text" [] OTHER -> @,
     !.charset = CASE cmd = "CSCS=GSM" -> "GSM" [] cmd = "CSCS=UCS2" -> "UCS2" [] OTHER -> @,
     !.dcs     = CASE cmd = "CSMP=GSM" -> "GSM" [] cmd = "CSMP=UCS2" -> "UCS2" [] OTHER -> @,
     !.store   = CASE cmd = "CPMS=SM" -> "SM" [] cmd = "CPMS=ME" -> "ME" [] OTHER -> @,
     !.route   = IF cmd = "CGDRT" THEN "on" ELSE @,
     !.volt    = IF cmd = "CGSETV" THEN "on" ELSE @,
     !.power   = CASE cmd = "CGNSSPWR=0" -> "off" [] cmd = "CGNSSPWR=1" -> "on" [] OTHER -> @,
     !.biased  = IF cmd = "CGNSSPWR=1" /\ dev.power = "off"
                 THEN dev.route = "on" /\ dev.volt = "on" ELSE @]

Queries == {"CPIN?", "CSQ", "CESQ", "CEREG?", "CREG?", "CGATT?", "COPS?", "CPMS?", "CCLK?",
            "CGSN", "GSN", "CGMR", "CGNSSPWR?", "CGNSSMODE?", "CGPSINFO", "CGNSSINFO"}

\* The data line of an answer; the GNSS mode is either the wanted one or not.
Says(cmd) ==
  CASE cmd = "CPMS?"      -> {dev.store = "SM"}
    [] cmd = "CGNSSPWR?"  -> {dev.power = "on"}
    [] cmd = "CGNSSMODE?" -> BOOLEAN
    [] OTHER              -> {FALSE}

OK(cmd)    == Line("ok", cmd, FALSE)
Error(cmd) == Line("error", cmd, FALSE)

Answers(cmd) ==
  IF cmd \in Queries THEN {<<Line("data", cmd, v), OK(cmd)>> : v \in Says(cmd)}
  ELSE {<<OK(cmd)>>}

\* How the message of a send is to be encoded, and how the modem encodes it.
Encoding(kind) == CASE kind = "gsm" -> "GSM" [] kind = "ucs2" -> "UCS2" [] kind = "long" -> "PDU"
Encoded ==
  IF dev.mode = "pdu" THEN "PDU" ELSE IF dev.charset = dev.dcs THEN dev.charset ELSE "mixed"

\* CMGS fits the mode it is given in.
Understood(w) == (kinds[w.msg] = "long") = (dev.mode = "pdu")

Command(w) ==
  /\ w.cmd \notin {"CMGS", "body", "text"}
  /\ dev' = Effect(w.cmd)
  /\ \E answer \in Answers(w.cmd) : line' = line \o answer
  /\ UNCHANGED <<sent, unset>>

OpensInput(w) ==
  /\ w.cmd = "CMGS"
  /\ IF Understood(w)
     THEN /\ dev' = [dev EXCEPT !.input = w, !.clean = TRUE]
          /\ line' = Append(line, Line("prompt", w.cmd, FALSE))
     ELSE UNCHANGED dev /\ line' = Append(line, Error(w.cmd))
  /\ UNCHANGED <<sent, unset>>

TakesText(w) ==
  /\ w.cmd = "body"
  /\ sent' = Append(sent, [msg |-> w.msg, part |-> w.part, to |-> dev.input.msg,
                           of |-> dev.input.part, whole |-> dev.clean, as |-> Encoded])
  /\ dev' = [dev EXCEPT !.input = NoInput, !.clean = TRUE]
  /\ line' = line \o <<Line("cmgs", w.cmd, FALSE), OK(w.cmd)>>
  /\ UNCHANGED unset

\* A command written while the modem waits for a text becomes part of it.
Swallowed(w) ==
  /\ w.cmd # "body"
  /\ dev' = [dev EXCEPT !.clean = FALSE]
  /\ unset' = unset \cup Concerns(w.cmd)
  /\ UNCHANGED <<line, sent>>

ModemAnswers ==
  /\ tx # <<>>
  /\ tx' = Tail(tx)
  /\ IF dev.input # NoInput
     THEN TakesText(Head(tx)) \/ Swallowed(Head(tx))
     ELSE \/ Command(Head(tx)) \/ OpensInput(Head(tx))
          \/ /\ Head(tx).cmd \in {"body", "text"}
             /\ line' = Append(line, Error(Head(tx).cmd))
             /\ UNCHANGED <<modemVars, unset>>
  /\ UNCHANGED <<clientVars, used>>

ModemRefuses ==
  /\ tx # <<>>
  /\ Err
  /\ \/ dev.input = NoInput /\ UNCHANGED dev
     \/ Head(tx).cmd = "body" /\ dev' = [dev EXCEPT !.input = NoInput, !.clean = TRUE]
  /\ tx' = Tail(tx)
  /\ line' = Append(line, Error(Head(tx).cmd))
  /\ unset' = unset \cup Concerns(Head(tx).cmd)
  /\ UNCHANGED <<clientVars, sent>>

\* A new-message or network report, between or within answers.
Urc ==
  /\ Faulty
  /\ used' = [used EXCEPT !.urcs = @ + 1]
  /\ \E i \in 1 .. Len(line) + 1 : line' = InsertAt(line, i, Line("data", "urc", FALSE))
  /\ UNCHANGED <<clientVars, tx, modemVars, unset>>

-----------------------------------------------------------------------------

Client == Send \/ Reply \/ AwaitPrompt \/ AwaitConfirmation \/ TimesOut

Next ==
  \/ \E kind \in Kinds : Start(kind)
  \/ RestartGnssTask
  \/ Client \/ SendFails \/ BodyFails \/ GivesUp
  \/ ModemAnswers \/ ModemRefuses \/ Urc

Spec == Init /\ [][Next]_vars

-----------------------------------------------------------------------------

Idle == phase = "idle"

\* An SMS is reported as sent only when the modem accepted every part of it, each
\* whole and under its own CMGS, in the charset it was written in.  The charset can
\* be wrong when an answer came late, as the refusal of a setting may be purged; the
\* rest only when a third answer did, as the prompt of an earlier send may be read.
SuccessMeansSent ==
  Idle /\ kinds # <<>> /\ Kind \in Sends /\ ok =>
    \A p \in 1 .. (IF Kind = "long" THEN Parts ELSE 1) :
      \E i \in DOMAIN sent :
        /\ sent[i].msg = Msg /\ sent[i].part = p
        /\ used.late <= 2 => sent[i].to = Msg /\ sent[i].of = p /\ sent[i].whole
        /\ used.late = 0 \/ (used.late <= 2 /\ used.errors = 0) => sent[i].as = Encoding(Kind)

\* The modem takes the parts of a message in order, each once: a failed part is
\* the end of the message, and nothing is submitted again.
PartsInOrder ==
  \A i \in DOMAIN sent :
    sent[i].part = 1 + Cardinality({j \in 1 .. i - 1 : sent[j].msg = sent[i].msg})

\* Receiving relies on text mode and UCS2: both hold again after every dialog, unless
\* the modem was not set back (`unset') or waits for a text no one will finish.
RestoredAfterDialog ==
  Idle /\ tx = <<>> /\ dev.input = NoInput =>
    /\ "mode" \in unset \/ dev.mode = "text"
    /\ "charset" \in unset \/ dev.charset = "UCS2"

\* However late the answers are, a status field is never taken from the answer to
\* another question; the two registrations are told apart by nothing but their
\* place, and the counters of the two stores by nothing but the store selected.
AnswersFit ==
  \A f \in fields :
    \/ f.field \in {"cgatt", "fw"}
    \/ f.field \in {"cereg", "creg"} /\ f.of \in {"CEREG?", "CREG?"}
    \/ f.field = "imei" /\ f.of \in {"CGSN", "GSN"}
    \/ f.field \in {"smsMe", "smsSm"} /\ f.of = "CPMS?"
       /\ (f.v = (f.field = "smsSm") \/ used.late > 0 \/ used.errors > 0)
    \/ <<f.field, f.of>> \in
         {<<"cpin", "CPIN?">>, <<"csq", "CSQ">>, <<"cesq", "CESQ">>, <<"cops", "COPS?">>,
          <<"cclk", "CCLK?">>, <<"powered", "CGNSSPWR?">>, <<"mode", "CGNSSMODE?">>,
          <<"fix", "CGPSINFO">>, <<"sats", "CGNSSINFO">>}

\* A published GNSS status is of a receiver that was started with bias at its
\* antenna, also when it had been left running without; late answers aside.
StartedWithBias == gnss = "present" /\ used.late = 0 => dev.biased

=============================================================================
