---------------------------- MODULE AtDialogProofs ----------------------------
(***************************************************************************)
(* Theorems about AtDialog, for every choice of dialogs, any number of     *)
(* parts and retries, any number of dialogs, late answers and faults.  The *)
(* invariants build on one another: types; the prompts and the texts they  *)
(* are given; the receive settings a send is to restore; the parts of a    *)
(* message; how many answers can be about; the charset a message is sent   *)
(* in; which answer a status field is taken from; the receiver's bias.     *)
(***************************************************************************)
EXTENDS AtDialog, FunctionTheorems, FiniteSetTheorems, TLAPS

-----------------------------------------------------------------------------
(* Sequences, element by element. *)

LEMMA AppendFacts ==
  ASSUME NEW S, NEW s \in Seq(S), NEW e \in S
  PROVE  /\ Append(s, e) \in Seq(S) /\ Append(s, e) # <<>>
         /\ Len(Append(s, e)) = Len(s) + 1
         /\ \A i \in 1 .. Len(s) : Append(s, e)[i] = s[i]
         /\ Append(s, e)[Len(s) + 1] = e
OBVIOUS

LEMMA TailFacts ==
  ASSUME NEW S, NEW s \in Seq(S), s # <<>>
  PROVE  /\ Tail(s) \in Seq(S) /\ Len(Tail(s)) = Len(s) - 1
         /\ Len(s) \in Nat \ {0} /\ Head(s) = s[1] /\ Head(s) \in S
         /\ \A i \in 1 .. Len(Tail(s)) : Tail(s)[i] = s[i + 1]
OBVIOUS

LEMMA JoinFacts ==
  ASSUME NEW S, NEW s \in Seq(S), NEW t \in Seq(S)
  PROVE  /\ s \o t \in Seq(S) /\ Len(s \o t) = Len(s) + Len(t)
         /\ \A i \in 1 .. Len(s) : (s \o t)[i] = s[i]
         /\ \A i \in 1 .. Len(t) : (s \o t)[Len(s) + i] = t[i]
OBVIOUS

LEMMA Restricted ==
  ASSUME NEW S, NEW T, NEW s \in Seq(S), \A i \in 1 .. Len(s) : s[i] \in T
  PROVE  s \in Seq(T)
OBVIOUS

LEMMA EmptyFacts == Len(<<>>) = 0 /\ \A i \in 1 .. Len(<<>>) : FALSE
OBVIOUS

LEMMA NoneLeft ==
  ASSUME NEW S, NEW s \in Seq(S), Len(s) = 0
  PROVE  s = <<>>
OBVIOUS

\* Places after an inserted element.
LEMMA Slide ==
  \A m \in Nat : \A n \in 1 .. m + 1, a \in 1 .. m + 1 :
    a # n /\ ~(a < n) => a - 1 \in n .. m /\ (a - 1) + 1 = a /\ a - 1 \in 1 .. m
OBVIOUS

LEMMA DropFacts ==
  ASSUME NEW S, NEW s \in Seq(S), NEW n \in 0 .. Len(s)
  PROVE  /\ SubSeq(s, n + 1, Len(s)) \in Seq(S)
         /\ Len(SubSeq(s, n + 1, Len(s))) = Len(s) - n
         /\ \A i \in 1 .. Len(s) - n : SubSeq(s, n + 1, Len(s))[i] = s[i + n]
OBVIOUS

LEMMA InsertFacts ==
  ASSUME NEW S, NEW s \in Seq(S), NEW n \in 1 .. Len(s) + 1, NEW e \in S
  PROVE  /\ InsertAt(s, n, e) \in Seq(S) /\ Len(InsertAt(s, n, e)) = Len(s) + 1
         /\ \A i \in 1 .. n - 1 : InsertAt(s, n, e)[i] = s[i]
         /\ InsertAt(s, n, e)[n] = e
         /\ \A i \in n .. Len(s) : InsertAt(s, n, e)[i + 1] = s[i]
<1> DEFINE a == SubSeq(s, 1, n - 1)
           b == <<e>>
           c == SubSeq(s, n, Len(s))
<1>1. a \in Seq(S) /\ Len(a) = n - 1 /\ \A i \in 1 .. n - 1 : a[i] = s[i]
  OBVIOUS
<1>2. b \in Seq(S) /\ Len(b) = 1 /\ b[1] = e
  OBVIOUS
<1>3. c \in Seq(S) /\ Len(c) = Len(s) + 1 - n
      /\ \A i \in 1 .. Len(s) + 1 - n : c[i] = s[n + i - 1]
  OBVIOUS
<1>4. InsertAt(s, n, e) = (a \o b) \o c
  BY DEF InsertAt
<1> HIDE DEF a, b, c
<1> DEFINE d == a \o b
<1>5. d \in Seq(S) /\ Len(d) = n /\ d[n] = e /\ \A i \in 1 .. n - 1 : d[i] = s[i]
  <2>1. d \in Seq(S) /\ Len(d) = n
    <3>1. a \o b \in Seq(S) /\ Len(a \o b) = Len(a) + Len(b)
      BY <1>1, <1>2, JoinFacts
    <3>2. Len(a) + Len(b) = n
      BY <1>1, <1>2
    <3> HIDE <1>1, <1>2
    <3> QED
      BY <3>1, <3>2
  <2>2. d[Len(a) + 1] = b[1]
    BY <1>1, <1>2, JoinFacts
  <2>3. \A i \in 1 .. n - 1 : d[i] = s[i]
    BY <1>1, <1>2, JoinFacts
  <2> QED
    BY <1>1, <1>2, <2>1, <2>2, <2>3
<1>6. InsertAt(s, n, e) = d \o c
  BY <1>4
<1> HIDE DEF d
<1>7. d \o c \in Seq(S) /\ Len(d \o c) = Len(s) + 1
  BY <1>3, <1>5, JoinFacts
<1>8. \A i \in 1 .. n : (d \o c)[i] = d[i]
  BY <1>3, <1>5, JoinFacts
<1>9. ASSUME NEW i \in n .. Len(s)
      PROVE  (d \o c)[i + 1] = s[i]
  <2>1. i + 1 - n \in 1 .. Len(c) /\ Len(d) + (i + 1 - n) = i + 1 /\ n + (i + 1 - n) - 1 = i
    BY <1>3, <1>5
  <2>2. (d \o c)[Len(d) + (i + 1 - n)] = c[i + 1 - n]
    BY <2>1, <1>3, <1>5, JoinFacts
  <2>3. c[i + 1 - n] = s[n + (i + 1 - n) - 1]
    BY <2>1, <1>3
  <2> QED
    BY <2>1, <2>2, <2>3
<1> QED
  BY <1>5, <1>6, <1>7, <1>8, <1>9

-----------------------------------------------------------------------------
(* The scripts. *)

Roles == {"may", "blind", "must", "submit", "probe", "counters", "store", "imei", "cycle",
          "ensure", "mode"}

Commands ==
  Queries \cup
  {"AT", "ATE0", "ATV1", "CMEE", "CMGF=0", "CMGF=1", "CSCS=GSM", "CSCS=UCS2", "CSMP=GSM",
   "CSMP=UCS2", "CSDH", "CPMS=ME", "CPMS=SM", "CNMI", "CMGS", "CGDRT", "CGSETV",
   "CGNSSPWR=0", "CGNSSPWR=1", "CGNSSMODE=3"}

Undos == {<<>>, RestoreCharset, RestoreMode}

StepSet == [cmd : Commands, role : Roles, field : Fields,
            undo : Undos, part : 0 .. Parts, tries : 1 .. Tries]

\* What only a send writes.
SendOnly == {"CMGF=0", "CSCS=GSM", "CSMP=GSM", "CSMP=UCS2", "CMGS", "body", "text"}

\* The steps of the dialogs that send nothing.
PlainSteps ==
  {step \in StepSet : step.undo = <<>> /\ step.cmd \notin SendOnly /\ step.role # "submit"}

LengthOf(kind) == CASE kind = "gsm" -> 6 [] kind = "ucs2" -> 5 [] kind = "long" -> Parts + 4

\* The step of a send after which there are left - 1 more.
StepOf(kind, left) ==
  CASE kind = "gsm"  -> GsmScript[7 - left]
    [] kind = "ucs2" -> Ucs2Script[6 - left]
    [] kind = "long" -> LongScript[Parts + 5 - left]

LEMMA StepTyped ==
  ASSUME NEW cmd \in Commands, NEW role \in Roles, NEW field \in Fields,
         NEW undo \in Undos
  PROVE  /\ Step(cmd, role, field, undo) \in StepSet
         /\ Step(cmd, role, field, undo).cmd = cmd
         /\ Step(cmd, role, field, undo).role = role
         /\ Step(cmd, role, field, undo).field = field
         /\ Step(cmd, role, field, undo).undo = undo
         /\ Step(cmd, role, field, undo).part = 0
BY AtDialogAssumption DEF Step, StepSet

LEMMA PlainTyped ==
  ASSUME NEW cmd \in Commands \ SendOnly, NEW role \in Roles \ {"submit"}, NEW field \in Fields
  PROVE  Step(cmd, role, field, <<>>) \in PlainSteps
BY StepTyped DEF PlainSteps, Undos

LEMMA SubmitTyped ==
  ASSUME NEW part \in 1 .. Parts, NEW undo \in Undos
  PROVE  /\ Submit(part, undo) \in StepSet
         /\ Submit(part, undo).cmd = "CMGS" /\ Submit(part, undo).role = "submit"
         /\ Submit(part, undo).field = "none"
         /\ Submit(part, undo).undo = undo /\ Submit(part, undo).part = part
<1>1. "CMGS" \in Commands /\ "submit" \in Roles /\ "none" \in Fields /\ 0 \in 0 .. Parts /\ Tries \in 1 .. Tries
      /\ part \in 0 .. Parts
  BY AtDialogAssumption DEF Commands, Roles, Fields
<1>2. Submit(part, undo) = [cmd |-> "CMGS", role |-> "submit", field |-> "none", undo |-> undo,
                           part |-> part, tries |-> Tries]
  BY DEF Submit, Step
<1>3. Submit(part, undo).cmd = "CMGS" /\ Submit(part, undo).role = "submit"
      /\ Submit(part, undo).field = "none" /\ Submit(part, undo).undo = undo
      /\ Submit(part, undo).part = part
  BY <1>2
<1>4. Submit(part, undo) \in StepSet
  BY <1>1, <1>2 DEF StepSet
<1> QED
  BY <1>3, <1>4

LEMMA Restores ==
  /\ Len(RestoreCharset) = 1 /\ RestoreCharset[1] = May("CSCS=UCS2")
  /\ Len(RestoreMode) = 2 /\ RestoreMode[1] = Blind("CMGF=1")
  /\ RestoreMode[2] = May("CSCS=UCS2")
BY DEF RestoreCharset, RestoreMode

LEMMA GsmSteps ==
  /\ Len(GsmScript) = 6
  /\ GsmScript[1] = Blind("AT") /\ GsmScript[2] = Must("CMGF=1", <<>>)
  /\ GsmScript[3] = Must("CSCS=GSM", RestoreCharset)
  /\ GsmScript[4] = Must("CSMP=GSM", RestoreCharset)
  /\ GsmScript[5] = Submit(1, RestoreCharset) /\ GsmScript[6] = May("CSCS=UCS2")
BY DEF GsmScript, RestoreCharset

LEMMA Ucs2Steps ==
  /\ Len(Ucs2Script) = 5
  /\ Ucs2Script[1] = Blind("AT") /\ Ucs2Script[2] = Must("CMGF=1", <<>>)
  /\ Ucs2Script[3] = Must("CSCS=UCS2", <<>>) /\ Ucs2Script[4] = Must("CSMP=UCS2", <<>>)
  /\ Ucs2Script[5] = Submit(1, <<>>)
BY DEF Ucs2Script

LEMMA LongSteps ==
  /\ Len(LongScript) = Parts + 4
  /\ LongScript[1] = Blind("AT") /\ LongScript[2] = Must("CMGF=0", RestoreMode)
  /\ \A p \in 1 .. Parts : LongScript[p + 2] = Submit(p, RestoreMode)
  /\ LongScript[Parts + 3] = Blind("CMGF=1") /\ LongScript[Parts + 4] = May("CSCS=UCS2")
BY AtDialogAssumption DEF LongScript, RestoreCharset, RestoreMode

\* What a dialog has left: of a send it is the end of its script.
SendShape(left) ==
  /\ Len(left) <= LengthOf(Kind)
  /\ \A i \in 1 .. Len(left) : left[i] = StepOf(Kind, Len(left) + 1 - i)

ScriptedAs(left) ==
  /\ left \in Seq(StepSet)
  /\ left # <<>> => /\ kinds # <<>>
                   /\ IF Kind \in Sends THEN SendShape(left) ELSE left \in Seq(PlainSteps)

\* The steps of the sends, and the parts their submissions carry.
LEMMA GsmStepOf ==
  /\ LengthOf("gsm") = 6
  /\ StepOf("gsm", 6) = Blind("AT") /\ StepOf("gsm", 5) = Must("CMGF=1", <<>>)
  /\ StepOf("gsm", 4) = Must("CSCS=GSM", RestoreCharset)
  /\ StepOf("gsm", 3) = Must("CSMP=GSM", RestoreCharset)
  /\ StepOf("gsm", 2) = Submit(1, RestoreCharset) /\ StepOf("gsm", 1) = May("CSCS=UCS2")
BY GsmSteps DEF StepOf, LengthOf

LEMMA Ucs2StepOf ==
  /\ LengthOf("ucs2") = 5
  /\ StepOf("ucs2", 5) = Blind("AT") /\ StepOf("ucs2", 4) = Must("CMGF=1", <<>>)
  /\ StepOf("ucs2", 3) = Must("CSCS=UCS2", <<>>)
  /\ StepOf("ucs2", 2) = Must("CSMP=UCS2", <<>>) /\ StepOf("ucs2", 1) = Submit(1, <<>>)
BY Ucs2Steps DEF StepOf, LengthOf

LEMMA LongStepOf ==
  /\ LengthOf("long") = Parts + 4
  /\ StepOf("long", Parts + 4) = Blind("AT")
  /\ StepOf("long", Parts + 3) = Must("CMGF=0", RestoreMode)
  /\ \A n \in 3 .. Parts + 2 : StepOf("long", n) = Submit(Parts + 3 - n, RestoreMode)
  /\ StepOf("long", 2) = Blind("CMGF=1") /\ StepOf("long", 1) = May("CSCS=UCS2")
<1>1. StepOf("long", Parts + 4) = LongScript[1] /\ StepOf("long", Parts + 3) = LongScript[2]
      /\ StepOf("long", 2) = LongScript[Parts + 3] /\ StepOf("long", 1) = LongScript[Parts + 4]
  <2>1. Parts + 5 - (Parts + 4) = 1 /\ Parts + 5 - (Parts + 3) = 2
        /\ Parts + 5 - 2 = Parts + 3 /\ Parts + 5 - 1 = Parts + 4
    BY AtDialogAssumption
  <2> QED
    BY <2>1 DEF StepOf
<1>2. ASSUME NEW n \in 3 .. Parts + 2
      PROVE  StepOf("long", n) = Submit(Parts + 3 - n, RestoreMode)
  <2>1. Parts + 3 - n \in 1 .. Parts /\ (Parts + 3 - n) + 2 = Parts + 5 - n
    BY AtDialogAssumption
  <2>2. StepOf("long", n) = LongScript[(Parts + 3 - n) + 2]
    BY <2>1 DEF StepOf
  <2> QED
    BY <2>1, <2>2, LongSteps
<1> QED
  BY <1>1, <1>2, LongSteps DEF LengthOf

LEMMA PlainAnswers ==
  /\ Step("CPMS=SM", "store", "none", <<>>) \in PlainSteps /\ May("CPMS=ME") \in PlainSteps
  /\ Ask("CPMS?", "smsSm") \in PlainSteps /\ Ask("GSN", "imei") \in PlainSteps
  /\ Must("CGNSSPWR=0", <<>>) \in PlainSteps /\ Must("CGNSSPWR=1", <<>>) \in PlainSteps
  /\ Step("CGNSSMODE?", "mode", "none", <<>>) \in PlainSteps
  /\ May("CGNSSMODE=3") \in PlainSteps
<1>1. {"CPMS=SM", "CPMS=ME", "CPMS?", "GSN", "CGNSSPWR=0", "CGNSSPWR=1", "CGNSSMODE?",
       "CGNSSMODE=3"} \subseteq Commands \ SendOnly
  BY DEF Commands, Queries, SendOnly
<1>2. {"store", "may", "must", "mode"} \subseteq Roles \ {"submit"}
      /\ {"none", "smsSm", "imei"} \subseteq Fields
  BY DEF Roles, Fields
<1> QED
  BY <1>1, <1>2, PlainTyped DEF May, Ask, Must

LEMMA PlainPairs ==
  ASSUME NEW a \in PlainSteps, NEW b \in PlainSteps
  PROVE  <<a>> \in Seq(PlainSteps) /\ <<a, b>> \in Seq(PlainSteps)
OBVIOUS

\* A dialog that sends nothing goes on sending nothing.
LEMMA PlainFollow ==
  ASSUME todo \in Seq(PlainSteps), todo # <<>>, NEW good \in BOOLEAN
  PROVE  Follow(good) \in Seq(PlainSteps)
<1> DEFINE step == Head(todo)
           rest == Tail(todo)
<1>1. step \in PlainSteps /\ rest \in Seq(PlainSteps)
  OBVIOUS
<1>2. step.role \in Roles \ {"submit"} /\ step.undo = <<>> /\ step.tries \in 1 .. Tries
  BY <1>1 DEF PlainSteps, StepSet
<1>3. <<>> \in Seq(PlainSteps)
  OBVIOUS
<1>4. PowerOn \in Seq(PlainSteps)
  BY PlainAnswers, PlainPairs DEF PowerOn
<1>5. Retry(step) \in Seq(PlainSteps)
  <2>1. CASE step.tries = 1
    BY <2>1, <1>3 DEF Retry
  <2>2. CASE step.tries # 1
    <3>1. step.tries - 1 \in 1 .. Tries
      BY <2>2, <1>2, AtDialogAssumption
    <3>2. [step EXCEPT !.tries = @ - 1] \in PlainSteps
      BY <3>1, <1>1 DEF PlainSteps, StepSet
    <3> QED
      BY <2>2, <3>2, PlainPairs DEF Retry
  <2> QED
    BY <2>1, <2>2
<1>6. \A first \in Seq(PlainSteps) : first \o rest \in Seq(PlainSteps)
  BY <1>1
<1>7. CASE step.role \in {"may", "blind", "must"}
  BY <1>1, <1>2, <1>3, <1>7 DEF Follow
<1>8. CASE step.role = "probe"
  BY <1>1, <1>3, <1>5, <1>6, <1>8 DEF Follow
<1>9. CASE step.role = "counters"
  BY <1>1, <1>6, <1>9, PlainAnswers, PlainPairs DEF Follow
<1>10. CASE step.role = "store"
  BY <1>1, <1>6, <1>10, PlainAnswers, PlainPairs DEF Follow
<1>11. CASE step.role = "imei"
  BY <1>1, <1>6, <1>11, PlainAnswers, PlainPairs DEF Follow
<1>12. CASE step.role = "cycle"
  BY <1>1, <1>3, <1>6, <1>12, PlainAnswers, PlainPairs DEF Follow
<1>13. CASE step.role = "ensure"
  BY <1>1, <1>4, <1>6, <1>13, PlainAnswers, PlainPairs DEF Follow
<1>14. CASE step.role = "mode"
  BY <1>1, <1>6, <1>14, PlainAnswers, PlainPairs DEF Follow
<1> QED
  BY <1>2, <1>7, <1>8, <1>9, <1>10, <1>11, <1>12, <1>13, <1>14 DEF Roles

LEMMA GnssScripts ==
  /\ EnsurePowered \in Seq(PlainSteps) /\ GnssRestart \in Seq(PlainSteps)
  /\ GnssPoll \in Seq(PlainSteps) /\ GnssPoll # <<>>
<1>1. {"AT", "CGDRT", "CGSETV", "CGNSSPWR?", "CGNSSMODE?", "CGPSINFO", "CGNSSINFO"}
      \subseteq Commands \ SendOnly
  BY DEF Commands, Queries, SendOnly
<1>2. {"may", "must", "cycle", "ensure"} \subseteq Roles \ {"submit"}
  BY DEF Roles
<1>3. {"none", "powered", "mode", "fix", "sats"} \subseteq Fields
  BY DEF Fields
<1>4. \A cmd \in Commands \ SendOnly, role \in Roles \ {"submit"}, field \in Fields :
        Step(cmd, role, field, <<>>) \in PlainSteps
  BY PlainTyped
<1>5. EnsurePowered \in Seq(PlainSteps)
  BY <1>1, <1>2, <1>3, <1>4 DEF EnsurePowered, Must
<1>6. GnssRestart \in Seq(PlainSteps)
  <2>1. <<Step("CGNSSPWR?", "cycle", "none", <<>>)>> \in Seq(PlainSteps)
    BY <1>1, <1>2, <1>3, <1>4
  <2> QED
    BY <2>1, <1>5, JoinFacts DEF GnssRestart
<1>7. GnssPoll \in Seq(PlainSteps) /\ GnssPoll # <<>>
  <2>1. <<Must("AT", <<>>)>> \in Seq(PlainSteps) /\ Len(<<Must("AT", <<>>)>>) = 1
    BY <1>1, <1>2, <1>3, <1>4 DEF Must
  <2>2. <<Ask("CGNSSPWR?", "powered"), Ask("CGNSSMODE?", "mode"), Ask("CGPSINFO", "fix"),
          Ask("CGNSSINFO", "sats")>> \in Seq(PlainSteps)
    BY <1>1, <1>2, <1>3, <1>4 DEF Ask
  <2> HIDE DEF Must, Ask
  <2>3. <<Must("AT", <<>>)>> \o EnsurePowered \in Seq(PlainSteps)
        /\ Len(<<Must("AT", <<>>)>> \o EnsurePowered) # 0
    BY <2>1, <1>5, JoinFacts
  <2> QED
    BY <2>2, <2>3, JoinFacts DEF GnssPoll
<1> QED
  BY <1>5, <1>6, <1>7

LEMMA PlainScripts ==
  ASSUME NEW kind \in {"init", "poll", "gnss"}
  PROVE  Script(kind) \in Seq(PlainSteps) /\ Script(kind) # <<>>
<1>1. {"AT", "ATE0", "ATV1", "CMEE", "CMGF=1", "CSCS=UCS2", "CSDH", "CPMS=ME", "CNMI", "CPIN?",
       "CSQ", "CESQ", "CEREG?", "CREG?", "CGATT?", "COPS?", "CPMS?", "CCLK?", "CGSN", "CGMR"}
      \subseteq Commands \ SendOnly
  BY DEF Commands, Queries, SendOnly
<1>2. {"may", "must", "probe", "counters", "imei"} \subseteq Roles \ {"submit"}
  BY DEF Roles
<1>3. {"none", "cpin", "csq", "cesq", "cereg", "creg", "cgatt", "cops", "smsMe", "cclk", "imei",
       "fw", "powered", "mode", "fix", "sats"} \subseteq Fields
  BY DEF Fields
<1>4. \A cmd \in Commands \ SendOnly, role \in Roles \ {"submit"}, field \in Fields :
        Step(cmd, role, field, <<>>) \in PlainSteps
  BY PlainTyped
<1>5. InitScript \in Seq(PlainSteps) /\ InitScript # <<>>
  BY <1>1, <1>2, <1>3, <1>4 DEF InitScript, May
<1>6. PollScript \in Seq(PlainSteps) /\ PollScript # <<>>
  BY <1>1, <1>2, <1>3, <1>4 DEF PollScript, Must, Ask
<1>7. GnssRestart \in Seq(PlainSteps) /\ GnssPoll \in Seq(PlainSteps) /\ GnssPoll # <<>>
  BY GnssScripts
<1>8. CASE kind = "gnss"
  <2>1. Script(kind) = (IF restartRequired THEN GnssRestart ELSE <<>>) \o GnssPoll
    BY <1>8 DEF Script
  <2>2. (IF restartRequired THEN GnssRestart ELSE <<>>) \in Seq(PlainSteps)
    BY <1>7
  <2> QED
    BY <2>1, <2>2, <1>7, JoinFacts
<1> QED
  BY <1>5, <1>6, <1>8 DEF Script

-----------------------------------------------------------------------------
(* The steps of a send, by the number of steps that are left. *)

\* What is left after a step failed, and after its command could not be written.
LeftAfterFailure(kind, left) ==
  IF kind = "gsm" THEN IF left = 6 THEN 5 ELSE IF left \in 2 .. 4 THEN 1 ELSE 0
  ELSE IF kind = "ucs2" THEN IF left = 5 THEN 4 ELSE 0
  ELSE IF left \in {1, 2, Parts + 4} THEN left - 1 ELSE 2

LeftAfterUnsent(kind, left) ==
  IF kind = "gsm" /\ left = 4 THEN 0
  ELSE IF kind = "long" /\ left = Parts + 3 THEN 1
  ELSE LeftAfterFailure(kind, left)

LEMMA LeftValues ==
  /\ LeftAfterFailure("gsm", 6) = 5 /\ LeftAfterUnsent("gsm", 6) = 5
  /\ LeftAfterFailure("gsm", 5) = 0 /\ LeftAfterUnsent("gsm", 5) = 0
  /\ LeftAfterFailure("gsm", 4) = 1 /\ LeftAfterUnsent("gsm", 4) = 0
  /\ \A n \in 2 .. 3 : LeftAfterFailure("gsm", n) = 1 /\ LeftAfterUnsent("gsm", n) = 1
  /\ LeftAfterFailure("gsm", 1) = 0 /\ LeftAfterUnsent("gsm", 1) = 0
  /\ LeftAfterFailure("ucs2", 5) = 4 /\ LeftAfterUnsent("ucs2", 5) = 4
  /\ \A n \in 1 .. 4 : LeftAfterFailure("ucs2", n) = 0 /\ LeftAfterUnsent("ucs2", n) = 0
  /\ LeftAfterFailure("long", Parts + 4) = Parts + 3
  /\ LeftAfterUnsent("long", Parts + 4) = Parts + 3
  /\ LeftAfterFailure("long", Parts + 3) = 2 /\ LeftAfterUnsent("long", Parts + 3) = 1
  /\ \A n \in 3 .. Parts + 2 :
       LeftAfterFailure("long", n) = 2 /\ LeftAfterUnsent("long", n) = 2
  /\ LeftAfterFailure("long", 2) = 1 /\ LeftAfterUnsent("long", 2) = 1
  /\ LeftAfterFailure("long", 1) = 0 /\ LeftAfterUnsent("long", 1) = 0
BY AtDialogAssumption DEF LeftAfterFailure, LeftAfterUnsent

LEMMA SendScripts ==
  ASSUME NEW kind \in Sends
  PROVE  /\ Script(kind) \in Seq(StepSet) /\ Script(kind) # <<>>
         /\ Len(Script(kind)) = LengthOf(kind) /\ LengthOf(kind) \in Nat
         /\ \A i \in 1 .. Len(Script(kind)) :
              Script(kind)[i] = StepOf(kind, Len(Script(kind)) + 1 - i)
<1>1. {"AT", "CMGF=0", "CMGF=1", "CSCS=GSM", "CSCS=UCS2", "CSMP=GSM", "CSMP=UCS2"} \subseteq Commands
      /\ {"may", "blind", "must"} \subseteq Roles /\ "none" \in Fields
      /\ {<<>>, RestoreCharset, RestoreMode} \subseteq Undos
  BY DEF Commands, Roles, Fields, Undos
<1>2. \A cmd \in Commands, undo \in Undos :
        May(cmd) \in StepSet /\ Blind(cmd) \in StepSet /\ Must(cmd, undo) \in StepSet
  BY <1>1, StepTyped DEF May, Blind, Must
<1>3. /\ May("CSCS=UCS2") \in StepSet /\ Blind("AT") \in StepSet /\ Blind("CMGF=1") \in StepSet
      /\ Must("CMGF=1", <<>>) \in StepSet /\ Must("CSCS=GSM", RestoreCharset) \in StepSet
      /\ Must("CSMP=GSM", RestoreCharset) \in StepSet /\ Must("CSCS=UCS2", <<>>) \in StepSet
      /\ Must("CSMP=UCS2", <<>>) \in StepSet /\ Must("CMGF=0", RestoreMode) \in StepSet
  BY <1>1, <1>2
<1>4. 1 \in 1 .. Parts /\ \A p \in 1 .. Parts, undo \in Undos : Submit(p, undo) \in StepSet
  BY AtDialogAssumption, SubmitTyped
<1>5. Submit(1, RestoreCharset) \in StepSet /\ Submit(1, <<>>) \in StepSet
      /\ \A p \in 1 .. Parts : Submit(p, RestoreMode) \in StepSet
  BY <1>1, <1>4
<1>6. GsmScript \in Seq(StepSet)
  BY <1>3, <1>5, JoinFacts DEF GsmScript, RestoreCharset
<1>7. Ucs2Script \in Seq(StepSet)
  BY <1>3, <1>5 DEF Ucs2Script
<1>8. LongScript \in Seq(StepSet)
  <2>1. <<Blind("AT"), Must("CMGF=0", RestoreMode)>> \in Seq(StepSet)
    BY <1>3
  <2>2. [p \in 1 .. Parts |-> Submit(p, RestoreMode)] \in Seq(StepSet)
    BY <1>5, AtDialogAssumption
  <2>3. RestoreMode \in Seq(StepSet)
    BY <1>3, JoinFacts DEF RestoreMode, RestoreCharset
  <2> QED
    BY <2>1, <2>2, <2>3, JoinFacts DEF LongScript
<1>9. ASSUME NEW i \in 1 .. 6 PROVE GsmScript[i] = StepOf("gsm", 6 + 1 - i)
  <2>1. 7 - (6 + 1 - i) = i
    OBVIOUS
  <2> QED
    BY <2>1 DEF StepOf
<1>10. ASSUME NEW i \in 1 .. 5 PROVE Ucs2Script[i] = StepOf("ucs2", 5 + 1 - i)
  <2>1. 6 - (5 + 1 - i) = i
    OBVIOUS
  <2> QED
    BY <2>1 DEF StepOf
<1>11. ASSUME NEW i \in 1 .. Parts + 4 PROVE LongScript[i] = StepOf("long", Parts + 4 + 1 - i)
  <2>1. Parts + 5 - (Parts + 4 + 1 - i) = i
    BY AtDialogAssumption
  <2> QED
    BY <2>1 DEF StepOf
<1>12. CASE kind = "gsm"
  <2>1. Script(kind) = GsmScript
    BY <1>12 DEF Script
  <2>2. 6 \in Nat /\ 6 # 0
    OBVIOUS
  <2> QED
    BY <1>6, <1>9, <1>12, <2>1, <2>2, GsmSteps, GsmStepOf
<1>13. CASE kind = "ucs2"
  <2>1. Script(kind) = Ucs2Script
    BY <1>13 DEF Script
  <2>2. 5 \in Nat /\ 5 # 0
    OBVIOUS
  <2> QED
    BY <1>7, <1>10, <1>13, <2>1, <2>2, Ucs2Steps, Ucs2StepOf
<1>14. CASE kind = "long"
  <2>1. Script(kind) = LongScript
    BY <1>14 DEF Script
  <2>2. Parts + 4 \in Nat \ {0}
    BY AtDialogAssumption
  <2> QED
    BY <1>8, <1>11, <1>14, <2>1, <2>2, LongSteps, LongStepOf
<1> QED
  BY <1>12, <1>13, <1>14 DEF Sends

LEMMA FollowByRole ==
  ASSUME todo # <<>>, NEW good \in BOOLEAN
  PROVE  /\ Head(todo).role \in {"may", "blind"} =>
              Follow(good) = Tail(todo) /\ ~Decides(good)
         /\ Head(todo).role \in {"must", "submit"} =>
              /\ Follow(good) = (IF good THEN Tail(todo) ELSE Head(todo).undo)
              /\ Decides(good) <=> ~good
<1>1. ASSUME Head(todo).role \in {"may", "blind"}
      PROVE  Follow(good) = Tail(todo) /\ ~Decides(good)
  BY <1>1 DEF Follow, Decides
<1>2. ASSUME Head(todo).role \in {"must", "submit"}
      PROVE  Follow(good) = (IF good THEN Tail(todo) ELSE Head(todo).undo)
             /\ (Decides(good) <=> ~good)
  BY <1>2 DEF Follow, Decides
<1> QED
  BY <1>1, <1>2

LEMMA SendHead ==
  ASSUME ScriptedAs(todo), todo # <<>>, Kind \in Sends
  PROVE  /\ Len(todo) \in 1 .. LengthOf(Kind)
         /\ Head(todo) = StepOf(Kind, Len(todo))
         /\ SendShape(Tail(todo)) /\ Len(Tail(todo)) = Len(todo) - 1
         /\ Tail(todo) \in Seq(StepSet)
<1>1. todo \in Seq(StepSet) /\ SendShape(todo)
  BY DEF ScriptedAs
<1>2. /\ Tail(todo) \in Seq(StepSet) /\ Len(Tail(todo)) = Len(todo) - 1
      /\ Len(todo) \in Nat \ {0} /\ Head(todo) = todo[1]
      /\ \A i \in 1 .. Len(Tail(todo)) : Tail(todo)[i] = todo[i + 1]
  BY <1>1, TailFacts
<1>3. LengthOf(Kind) \in Nat
  BY AtDialogAssumption DEF LengthOf, Sends
<1>4. Len(todo) \in 1 .. LengthOf(Kind)
  BY <1>1, <1>2, <1>3 DEF SendShape
<1>5. Head(todo) = StepOf(Kind, Len(todo))
  <2>1. todo[1] = StepOf(Kind, Len(todo) + 1 - 1)
    BY <1>1, <1>2 DEF SendShape
  <2>2. Len(todo) + 1 - 1 = Len(todo)
    BY <1>2
  <2> QED
    BY <1>2, <2>1, <2>2
<1>6. ASSUME NEW i \in 1 .. Len(Tail(todo))
      PROVE  Tail(todo)[i] = StepOf(Kind, Len(Tail(todo)) + 1 - i)
  <2>1. todo[i + 1] = StepOf(Kind, Len(todo) + 1 - (i + 1))
    BY <1>1, <1>2 DEF SendShape
  <2>2. Len(todo) + 1 - (i + 1) = Len(Tail(todo)) + 1 - i
    <3>1. \A n \in Nat, k \in Nat : n + 1 - (k + 1) = (n - 1) + 1 - k
      OBVIOUS
    <3>2. Len(todo) \in Nat /\ i \in Nat /\ Len(Tail(todo)) = Len(todo) - 1
      BY <1>2
    <3> QED
      BY <3>1, <3>2
  <2> QED
    BY <1>2, <2>1, <2>2
<1>7. Len(Tail(todo)) <= LengthOf(Kind)
  BY <1>2, <1>3, <1>4
<1> QED
  BY <1>2, <1>4, <1>5, <1>6, <1>7 DEF SendShape

LEMMA UndoShape ==
  /\ Len(<<>>) = 0 /\ <<>> \in Seq(StepSet)
  /\ Len(RestoreCharset) = 1 /\ RestoreCharset \in Seq(StepSet)
  /\ Len(RestoreMode) = 2 /\ RestoreMode \in Seq(StepSet)
  /\ Kind \in Sends => SendShape(<<>>)
  /\ Kind \in {"gsm", "long"} => SendShape(RestoreCharset)
  /\ Kind = "long" => SendShape(RestoreMode)
<1>1. May("CSCS=UCS2") \in StepSet /\ Blind("CMGF=1") \in StepSet
  <2>1. "CSCS=UCS2" \in Commands /\ "CMGF=1" \in Commands /\ {"may", "blind"} \subseteq Roles
        /\ "none" \in Fields /\ <<>> \in Undos
    BY DEF Commands, Roles, Fields, Undos
  <2> QED
    BY <2>1, StepTyped DEF May, Blind
<1>2. Len(RestoreCharset) = 1 /\ RestoreCharset \in Seq(StepSet)
  BY <1>1 DEF RestoreCharset
<1>3. Len(RestoreMode) = 2 /\ RestoreMode \in Seq(StepSet)
  BY <1>1 DEF RestoreMode, RestoreCharset
<1>4. Kind \in Sends => LengthOf(Kind) \in Nat \ 0 .. 4
  BY AtDialogAssumption DEF LengthOf, Sends
<1>5. Kind \in Sends => SendShape(<<>>)
  BY <1>4 DEF SendShape
<1>6. Kind \in {"gsm", "long"} => SendShape(RestoreCharset)
  <2>1. Kind \in {"gsm", "long"} => StepOf(Kind, 1) = May("CSCS=UCS2")
    BY GsmStepOf, LongStepOf
  <2>2. ASSUME NEW i \in 1 .. 1 PROVE i = 1 /\ 1 + 1 - i = 1
    OBVIOUS
  <2> QED
    BY <1>2, <1>4, <2>1, <2>2, Restores DEF SendShape, Sends
<1>7. Kind = "long" => SendShape(RestoreMode)
  <2>1. ASSUME NEW i \in 1 .. 2 PROVE (i = 1 /\ 2 + 1 - i = 2) \/ (i = 2 /\ 2 + 1 - i = 1)
    OBVIOUS
  <2> QED
    BY <1>3, <1>4, <2>1, Restores, LongStepOf DEF SendShape, Sends
<1> QED
  BY <1>2, <1>3, <1>5, <1>6, <1>7

\* The command, role and undo of each step of a send.
StepIs(step, cmd, role, undo) ==
  step.cmd = cmd /\ step.role = role /\ step.undo = undo /\ step.field = "none"

LEMMA GsmFields ==
  /\ Blind("AT").cmd = "AT" /\ Blind("AT").role = "blind"
  /\ StepIs(Must("CMGF=1", <<>>), "CMGF=1", "must", <<>>)
  /\ StepIs(Must("CSCS=GSM", RestoreCharset), "CSCS=GSM", "must", RestoreCharset)
  /\ StepIs(Must("CSMP=GSM", RestoreCharset), "CSMP=GSM", "must", RestoreCharset)
  /\ May("CSCS=UCS2").cmd = "CSCS=UCS2" /\ May("CSCS=UCS2").role = "may"
BY DEF StepIs, May, Blind, Must, Step

LEMMA Ucs2Fields ==
  /\ Blind("AT").cmd = "AT" /\ Blind("AT").role = "blind"
  /\ StepIs(Must("CMGF=1", <<>>), "CMGF=1", "must", <<>>)
  /\ StepIs(Must("CSCS=UCS2", <<>>), "CSCS=UCS2", "must", <<>>)
  /\ StepIs(Must("CSMP=UCS2", <<>>), "CSMP=UCS2", "must", <<>>)
BY DEF StepIs, Blind, Must, Step

LEMMA LongFields ==
  /\ Blind("AT").cmd = "AT" /\ Blind("AT").role = "blind"
  /\ StepIs(Must("CMGF=0", RestoreMode), "CMGF=0", "must", RestoreMode)
  /\ Blind("CMGF=1").cmd = "CMGF=1" /\ Blind("CMGF=1").role = "blind"
  /\ May("CSCS=UCS2").cmd = "CSCS=UCS2" /\ May("CSCS=UCS2").role = "may"
BY DEF StepIs, May, Blind, Must, Step

LEMMA GsmHead ==
  ASSUME ScriptedAs(todo), todo # <<>>, Kind = "gsm"
  PROVE  /\ Len(todo) \in 1 .. 6
         /\ Len(todo) = 6 => Head(todo).cmd = "AT" /\ Head(todo).role = "blind"
         /\ Len(todo) = 5 => StepIs(Head(todo), "CMGF=1", "must", <<>>)
         /\ Len(todo) = 4 => StepIs(Head(todo), "CSCS=GSM", "must", RestoreCharset)
         /\ Len(todo) = 3 => StepIs(Head(todo), "CSMP=GSM", "must", RestoreCharset)
         /\ Len(todo) = 2 => /\ StepIs(Head(todo), "CMGS", "submit", RestoreCharset)
                            /\ Head(todo).part = 1
         /\ Len(todo) = 1 => Head(todo).cmd = "CSCS=UCS2" /\ Head(todo).role = "may"
<1>1. Kind \in Sends
  BY DEF Sends
<1>2. Len(todo) \in 1 .. 6 /\ Head(todo) = StepOf("gsm", Len(todo))
  BY <1>1, SendHead, GsmStepOf
<1>3. Len(todo) = 2 => Head(todo) = Submit(1, RestoreCharset)
  BY <1>2, GsmStepOf
<1>4. RestoreCharset \in Undos /\ 1 \in 1 .. Parts
  BY AtDialogAssumption DEF Undos
<1>5. Len(todo) = 2 => /\ StepIs(Head(todo), "CMGS", "submit", RestoreCharset)
                       /\ Head(todo).part = 1
  BY <1>3, <1>4, SubmitTyped DEF StepIs
<1> QED
  BY <1>2, <1>5, GsmStepOf, GsmFields DEF StepIs

LEMMA Ucs2Head ==
  ASSUME ScriptedAs(todo), todo # <<>>, Kind = "ucs2"
  PROVE  /\ Len(todo) \in 1 .. 5
         /\ Len(todo) = 5 => Head(todo).cmd = "AT" /\ Head(todo).role = "blind"
         /\ Len(todo) = 4 => StepIs(Head(todo), "CMGF=1", "must", <<>>)
         /\ Len(todo) = 3 => StepIs(Head(todo), "CSCS=UCS2", "must", <<>>)
         /\ Len(todo) = 2 => StepIs(Head(todo), "CSMP=UCS2", "must", <<>>)
         /\ Len(todo) = 1 => StepIs(Head(todo), "CMGS", "submit", <<>>) /\ Head(todo).part = 1
<1>1. Kind \in Sends
  BY DEF Sends
<1>2. Len(todo) \in 1 .. 5 /\ Head(todo) = StepOf("ucs2", Len(todo))
  BY <1>1, SendHead, Ucs2StepOf
<1>3. Len(todo) = 1 => Head(todo) = Submit(1, <<>>)
  BY <1>2, Ucs2StepOf
<1>4. <<>> \in Undos /\ 1 \in 1 .. Parts
  BY AtDialogAssumption DEF Undos
<1>5. Len(todo) = 1 => StepIs(Head(todo), "CMGS", "submit", <<>>) /\ Head(todo).part = 1
  BY <1>3, <1>4, SubmitTyped DEF StepIs
<1> QED
  BY <1>2, <1>5, Ucs2StepOf, Ucs2Fields DEF StepIs

LEMMA LongHead ==
  ASSUME ScriptedAs(todo), todo # <<>>, Kind = "long"
  PROVE  /\ Len(todo) \in 1 .. Parts + 4
         /\ Len(todo) = Parts + 4 => Head(todo).cmd = "AT" /\ Head(todo).role = "blind"
         /\ Len(todo) = Parts + 3 => StepIs(Head(todo), "CMGF=0", "must", RestoreMode)
         /\ Len(todo) \in 3 .. Parts + 2 =>
              /\ StepIs(Head(todo), "CMGS", "submit", RestoreMode)
              /\ Head(todo).part = Parts + 3 - Len(todo)
         /\ Len(todo) = 2 => Head(todo).cmd = "CMGF=1" /\ Head(todo).role = "blind"
         /\ Len(todo) = 1 => Head(todo).cmd = "CSCS=UCS2" /\ Head(todo).role = "may"
<1>1. Kind \in Sends
  BY DEF Sends
<1>2. Len(todo) \in 1 .. Parts + 4 /\ Head(todo) = StepOf("long", Len(todo))
  BY <1>1, SendHead, LongStepOf
<1>3. ASSUME Len(todo) \in 3 .. Parts + 2
      PROVE  /\ StepIs(Head(todo), "CMGS", "submit", RestoreMode)
             /\ Head(todo).part = Parts + 3 - Len(todo)
  <2>1. Head(todo) = Submit(Parts + 3 - Len(todo), RestoreMode)
    BY <1>2, <1>3, LongStepOf
  <2>2. RestoreMode \in Undos /\ Parts + 3 - Len(todo) \in 1 .. Parts
    BY <1>3, AtDialogAssumption DEF Undos
  <2> QED
    BY <2>1, <2>2, SubmitTyped DEF StepIs
<1> QED
  BY <1>2, <1>3, LongStepOf, LongFields DEF StepIs

LEMMA LongCases ==
  \A n \in 1 .. Parts + 4 :
    n = 1 \/ n = 2 \/ n \in 3 .. Parts + 2 \/ n = Parts + 3 \/ n = Parts + 4
BY AtDialogAssumption

\* What a send has left after a step: of its script, a shorter end.
LEMMA SendFollow ==
  ASSUME ScriptedAs(todo), todo # <<>>, Kind \in Sends
  PROVE  /\ Follow(TRUE) = Tail(todo) /\ Len(Follow(TRUE)) = Len(todo) - 1
         /\ Len(Follow(FALSE)) = LeftAfterFailure(Kind, Len(todo))
         /\ Len(Unsent) = LeftAfterUnsent(Kind, Len(todo))
         /\ ScriptedAs(Follow(TRUE)) /\ ScriptedAs(Follow(FALSE)) /\ ScriptedAs(Unsent)
         /\ ~Decides(TRUE)
         /\ Decides(FALSE) <=> Head(todo).role \in {"must", "submit"}
         /\ Head(todo).role \in {"must", "submit", "may", "blind"}
<1> DEFINE n == Len(todo)
           Fits(left, k) == Len(left) = k /\ ScriptedAs(left)
<1>1. kinds # <<>>
  BY DEF ScriptedAs
<1>2. \A left : left \in Seq(StepSet) /\ SendShape(left) => ScriptedAs(left)
  BY <1>1 DEF ScriptedAs
<1>3. Fits(Tail(todo), n - 1)
  BY <1>2, SendHead
<1>4. Fits(<<>>, 0)
  BY <1>2, UndoShape
<1>5. Kind \in {"gsm", "long"} => Fits(RestoreCharset, 1)
  BY <1>2, UndoShape
<1>6. Kind = "long" => Fits(RestoreMode, 2)
  BY <1>2, UndoShape
<1>7. ASSUME Head(todo).role \in {"may", "blind"}
      PROVE  /\ Follow(TRUE) = Tail(todo) /\ ~Decides(TRUE)
             /\ Follow(FALSE) = Tail(todo) /\ ~Decides(FALSE)
  BY <1>7, FollowByRole
<1>8. ASSUME Head(todo).role \in {"must", "submit"}
      PROVE  /\ Follow(TRUE) = Tail(todo) /\ ~Decides(TRUE)
             /\ Follow(FALSE) = Head(todo).undo /\ Decides(FALSE)
  <2>1. Follow(TRUE) = Tail(todo) /\ ~Decides(TRUE)
    BY <1>8, FollowByRole
  <2>2. Follow(FALSE) = Head(todo).undo /\ Decides(FALSE)
    BY <1>8, FollowByRole
  <2> QED
    BY <2>1, <2>2
<1> HIDE DEF Fits
<1> DEFINE Bad == /\ Head(todo).role \in {"must", "submit", "may", "blind"}
                  /\ Fits(Follow(FALSE), LeftAfterFailure(Kind, n))
                  /\ Fits(Unsent, LeftAfterUnsent(Kind, n))
<1>9. ASSUME Kind = "gsm" PROVE Bad
  <2>1. n \in 1 .. 6 /\ Parts + 3 \in Nat
    BY <1>9, GsmHead, AtDialogAssumption
  <2>2. CASE n = 6
    <3>1. Head(todo).cmd = "AT" /\ Head(todo).role = "blind"
      BY <1>9, <2>2, GsmHead
    <3>2. Follow(FALSE) = Tail(todo) /\ Unsent = Tail(todo)
      BY <3>1, <1>7 DEF Unsent
    <3>3. n - 1 = 5
      BY <2>2
    <3>4. Fits(Tail(todo), 5)
      BY <1>3, <3>3
    <3> QED
      BY <1>9, <2>2, <3>1, <3>2, <3>4, LeftValues
  <2>3. CASE n = 5
    <3>1. StepIs(Head(todo), "CMGF=1", "must", <<>>)
      BY <1>9, <2>3, GsmHead
    <3>2. Follow(FALSE) = <<>> /\ Unsent = <<>>
      BY <3>1, <1>8 DEF Unsent, StepIs
    <3> QED
      BY <1>4, <1>9, <2>3, <3>1, <3>2, LeftValues DEF StepIs
  <2>4. CASE n = 4
    <3>1. StepIs(Head(todo), "CSCS=GSM", "must", RestoreCharset)
      BY <1>9, <2>4, GsmHead
    <3>2. Follow(FALSE) = RestoreCharset /\ Unsent = <<>>
      BY <3>1, <1>8 DEF Unsent, StepIs
    <3> QED
      BY <1>4, <1>5, <1>9, <2>4, <3>1, <3>2, LeftValues DEF StepIs
  <2>5. CASE n \in 2 .. 3
    <3>1. /\ Head(todo).role \in {"must", "submit"} /\ Head(todo).undo = RestoreCharset
          /\ Head(todo).cmd \notin {"CMGF=0", "CSCS=GSM"}
      BY <1>9, <2>5, GsmHead DEF StepIs
    <3>2. Follow(FALSE) = RestoreCharset /\ Unsent = RestoreCharset
      BY <3>1, <1>8 DEF Unsent
    <3> QED
      BY <1>5, <1>9, <2>5, <3>1, <3>2, LeftValues
  <2>6. CASE n = 1
    <3>1. Head(todo).cmd = "CSCS=UCS2" /\ Head(todo).role = "may"
      BY <1>9, <2>6, GsmHead
    <3>2. Follow(FALSE) = Tail(todo) /\ Unsent = Tail(todo)
      BY <3>1, <1>7 DEF Unsent
    <3>3. n - 1 = 0
      BY <2>6
    <3>4. Fits(Tail(todo), 0)
      BY <1>3, <3>3
    <3> QED
      BY <1>9, <2>6, <3>1, <3>2, <3>4, LeftValues
  <2>7. n = 6 \/ n = 5 \/ n = 4 \/ n \in 2 .. 3 \/ n = 1
    BY <2>1
  <2> QED
    BY <2>2, <2>3, <2>4, <2>5, <2>6, <2>7
<1>10. ASSUME Kind = "ucs2" PROVE Bad
  <2>1. n \in 1 .. 5
    BY <1>10, Ucs2Head
  <2>2. CASE n = 5
    <3>1. Head(todo).cmd = "AT" /\ Head(todo).role = "blind"
      BY <1>10, <2>2, Ucs2Head
    <3>2. Follow(FALSE) = Tail(todo) /\ Unsent = Tail(todo)
      BY <3>1, <1>7 DEF Unsent
    <3>3. n - 1 = 4
      BY <2>2
    <3>4. Fits(Tail(todo), 4)
      BY <1>3, <3>3
    <3> QED
      BY <1>10, <2>2, <3>1, <3>2, <3>4, LeftValues
  <2>3. CASE n \in 1 .. 4
    <3>1. /\ Head(todo).role \in {"must", "submit"} /\ Head(todo).undo = <<>>
          /\ Head(todo).cmd \notin {"CMGF=0", "CSCS=GSM"}
      BY <1>10, <2>3, Ucs2Head DEF StepIs
    <3>2. Follow(FALSE) = <<>> /\ Unsent = <<>>
      BY <3>1, <1>8 DEF Unsent
    <3> QED
      BY <1>4, <1>10, <2>3, <3>1, <3>2, LeftValues
  <2>4. n = 5 \/ n \in 1 .. 4
    BY <2>1
  <2> QED
    BY <2>2, <2>3, <2>4
<1>11. ASSUME Kind = "long" PROVE Bad
  <2>1. n \in 1 .. Parts + 4 /\ Parts \in Nat \ {0}
    BY <1>11, LongHead, AtDialogAssumption
  <2>2. CASE n = Parts + 4
    <3>1. Head(todo).cmd = "AT" /\ Head(todo).role = "blind"
      BY <1>11, <2>2, LongHead
    <3>2. Follow(FALSE) = Tail(todo) /\ Unsent = Tail(todo)
      BY <3>1, <1>7 DEF Unsent
    <3>3. LeftAfterFailure("long", n) = n - 1 /\ LeftAfterUnsent("long", n) = n - 1
      BY <2>1, <2>2, LeftValues
    <3> QED
      BY <1>3, <1>11, <3>1, <3>2, <3>3
  <2>3. CASE n = Parts + 3
    <3>1. StepIs(Head(todo), "CMGF=0", "must", RestoreMode)
      BY <1>11, <2>3, LongHead
    <3>2. Follow(FALSE) = RestoreMode /\ Unsent = RestoreCharset
      BY <3>1, <1>8 DEF Unsent, StepIs
    <3>3. LeftAfterFailure("long", n) = 2 /\ LeftAfterUnsent("long", n) = 1
      BY <2>1, <2>3, LeftValues
    <3> QED
      BY <1>5, <1>6, <1>11, <3>1, <3>2, <3>3 DEF StepIs
  <2>4. CASE n \in 3 .. Parts + 2
    <3>1. StepIs(Head(todo), "CMGS", "submit", RestoreMode)
      BY <1>11, <2>4, LongHead
    <3>2. Follow(FALSE) = RestoreMode /\ Unsent = RestoreMode
      BY <3>1, <1>8 DEF Unsent, StepIs
    <3>3. LeftAfterFailure("long", n) = 2 /\ LeftAfterUnsent("long", n) = 2
      BY <2>1, <2>4, LeftValues
    <3> QED
      BY <1>6, <1>11, <3>1, <3>2, <3>3 DEF StepIs
  <2>5. CASE n \in {1, 2}
    <3>1. Head(todo).cmd \in {"CSCS=UCS2", "CMGF=1"} /\ Head(todo).role \in {"may", "blind"}
      BY <1>11, <2>5, LongHead
    <3>2. Follow(FALSE) = Tail(todo) /\ Unsent = Tail(todo)
      BY <3>1, <1>7 DEF Unsent
    <3>3. LeftAfterFailure("long", n) = n - 1 /\ LeftAfterUnsent("long", n) = n - 1
      <4>1. 2 - 1 = 1 /\ 1 - 1 = 0
        OBVIOUS
      <4>2. CASE n = 1
        BY <4>1, <4>2, LeftValues
      <4>3. CASE n = 2
        BY <4>1, <4>3, LeftValues
      <4> QED
        BY <2>5, <4>2, <4>3
    <3> QED
      BY <1>3, <1>11, <3>1, <3>2, <3>3
  <2>6. n = Parts + 4 \/ n = Parts + 3 \/ n \in 3 .. Parts + 2 \/ n \in {1, 2}
    <3>1. \A k \in 1 .. Parts + 4 :
            k = Parts + 4 \/ k = Parts + 3 \/ k \in 3 .. Parts + 2 \/ k \in {1, 2}
      BY AtDialogAssumption
    <3> QED
      BY <2>1, <3>1
  <2> QED
    BY <2>2, <2>3, <2>4, <2>5, <2>6
<1>12. Bad
  BY <1>9, <1>10, <1>11 DEF Sends
<1>13. Follow(TRUE) = Tail(todo) /\ ~Decides(TRUE)
       /\ (Decides(FALSE) <=> Head(todo).role \in {"must", "submit"})
  BY <1>7, <1>8, <1>12
<1> QED
  BY <1>3, <1>12, <1>13 DEF Fits

\* Whatever the dialog: what is left after a step is what a dialog can have left.
LEMMA FollowScripted ==
  ASSUME ScriptedAs(todo), todo # <<>>
  PROVE  /\ ScriptedAs(Follow(TRUE)) /\ ScriptedAs(Follow(FALSE)) /\ ScriptedAs(Unsent)
         /\ Head(todo) \in StepSet
         /\ Head(todo).role = "submit" => Kind \in Sends
<1>1. Head(todo) \in StepSet
  BY DEF ScriptedAs
<1>2. CASE Kind \in Sends
  BY <1>1, <1>2, SendFollow
<1>3. CASE Kind \notin Sends
  <2>1. todo \in Seq(PlainSteps) /\ kinds # <<>>
    BY <1>3 DEF ScriptedAs
  <2>2. Head(todo) \in PlainSteps
    BY <2>1
  <2>3. Head(todo).role # "submit" /\ Head(todo).cmd \notin SendOnly
    BY <2>2 DEF PlainSteps
  <2>4. Follow(TRUE) \in Seq(PlainSteps) /\ Follow(FALSE) \in Seq(PlainSteps)
    BY <2>1, PlainFollow
  <2>5. Unsent = Follow(FALSE)
    BY <2>3 DEF Unsent, SendOnly
  <2>6. \A left \in Seq(PlainSteps) : ScriptedAs(left)
    <3>1. Seq(PlainSteps) \subseteq Seq(StepSet)
      BY DEF PlainSteps
    <3> QED
      BY <2>1, <3>1, <1>3 DEF ScriptedAs
  <2> QED
    BY <1>1, <2>3, <2>4, <2>5, <2>6
<1> QED
  BY <1>2, <1>3

-----------------------------------------------------------------------------
(* Types. *)

Names == Commands \cup {"body", "text", "urc"}

LineSet == [t : {"data", "ok", "error", "prompt", "cmgs"}, of : Names, v : BOOLEAN]

WriteSet == [cmd : Commands \cup {"body", "text"}, msg : Nat, part : Nat]

DevSet ==
  [mode : {"pdu", "text"}, charset : {"GSM", "UCS2"}, dcs : {"GSM", "UCS2"}, store : {"ME", "SM"},
   route : {"off", "on"}, volt : {"off", "on"}, power : {"off", "on"}, biased : BOOLEAN,
   input : WriteSet \cup {NoInput}, clean : BOOLEAN]

SentSet ==
  [msg : Nat, part : Nat, to : Nat, of : Nat, whole : BOOLEAN,
   as : {"PDU", "GSM", "UCS2", "mixed"}]

Phases == {"idle", "send", "reply", "prompt", "confirm"}

ClientTyped ==
  /\ kinds \in Seq(Kinds) /\ Len(kinds) <= MaxDialogs
  /\ ScriptedAs(todo)
  /\ phase \in Phases /\ (phase = "idle" <=> todo = <<>>)
  /\ phase = "reply" => Head(todo).role # "submit"
  /\ phase \in {"prompt", "confirm"} => Head(todo).role = "submit"
  /\ got \in LineSet \cup {NoLine}
  /\ haveCmgs \in BOOLEAN /\ (haveCmgs => phase = "confirm")
  /\ ok \in BOOLEAN /\ restartRequired \in BOOLEAN
  /\ gnss \in {"none", "present", "absent"}

FieldsTyped == fields \subseteq [field : Fields, of : Names, v : BOOLEAN]

\* What is on its way to the modem was written by a dialog there has been.
Known(w) == w.msg \in 1 .. Len(kinds) /\ (w.cmd = "CMGS" => w.part \in 1 .. Parts)

WritesTyped == tx \in Seq(WriteSet) /\ \A k \in 1 .. Len(tx) : Known(tx[k])

LinesTyped == line \in Seq(LineSet)

ModemTyped ==
  /\ dev \in DevSet
  /\ dev.input # NoInput => /\ dev.input.cmd = "CMGS" /\ dev.input.part \in 1 .. Parts
                           /\ dev.input.msg \in 1 .. Len(kinds)
  /\ sent \in Seq(SentSet)

CountsTyped ==
  /\ unset \subseteq {"mode", "charset"}
  /\ used \in [late : Nat, errors : Nat, urcs : Nat]
  /\ used.late <= MaxLate /\ used.errors + used.urcs <= MaxFaults

Typed ==
  ClientTyped /\ FieldsTyped /\ WritesTyped /\ LinesTyped /\ ModemTyped /\ CountsTyped

LEMMA TypedInit == Init => Typed
<1> SUFFICES ASSUME Init PROVE Typed
  OBVIOUS
<1> USE DEF Init
<1>1. ClientTyped
  <2>1. ScriptedAs(todo)
    BY DEF ScriptedAs
  <2>2. kinds \in Seq(Kinds) /\ Len(kinds) <= MaxDialogs
    BY AtDialogAssumption
  <2> QED
    BY <2>1, <2>2 DEF ClientTyped, Phases
<1>2. FieldsTyped /\ WritesTyped /\ LinesTyped
  BY DEF FieldsTyped, WritesTyped, LinesTyped
<1>3. ModemTyped
  BY DEF ModemTyped, DevSet
<1>4. CountsTyped
  BY AtDialogAssumption DEF CountsTyped
<1> QED
  BY <1>1, <1>2, <1>3, <1>4 DEF Typed

\* The dialog goes on, or ends.
LEMMA ProceedTyped ==
  ASSUME ClientTyped, todo # <<>>, NEW left, ScriptedAs(left), NEW fails \in BOOLEAN,
         Proceed(left, fails)
  PROVE  ClientTyped'
<1>1. kinds' = kinds /\ todo' = left /\ got' = NoLine /\ haveCmgs' = FALSE
      /\ phase' = (IF left = <<>> THEN "idle" ELSE "send")
  BY DEF Proceed
<1>2. ok' \in BOOLEAN /\ restartRequired' \in BOOLEAN /\ gnss' \in {"none", "present", "absent"}
  BY DEF Proceed, ClientTyped
<1>3. ScriptedAs(todo)'
  BY <1>1 DEF ScriptedAs, SendShape, Kind
<1> QED
  BY <1>1, <1>2, <1>3 DEF ClientTyped, Phases

LEMMA FollowTyped ==
  ASSUME ClientTyped, todo # <<>>,
         \/ Proceed(Follow(TRUE), Decides(TRUE)) \/ Proceed(Follow(FALSE), Decides(FALSE))
         \/ Proceed(Unsent, Decides(FALSE))
  PROVE  ClientTyped'
<1>1. ScriptedAs(Follow(TRUE)) /\ ScriptedAs(Follow(FALSE)) /\ ScriptedAs(Unsent)
  BY FollowScripted DEF ClientTyped
<1>2. Decides(TRUE) \in BOOLEAN /\ Decides(FALSE) \in BOOLEAN
  BY DEF Decides
<1>3. CASE Proceed(Follow(TRUE), Decides(TRUE))
  <2>1. PICK left : left = Follow(TRUE)
    OBVIOUS
  <2>2. PICK fails \in BOOLEAN : fails = Decides(TRUE)
    BY <1>2
  <2> QED
    BY <1>1, <1>3, <2>1, <2>2, ProceedTyped DEF Proceed
<1>4. CASE Proceed(Follow(FALSE), Decides(FALSE))
  <2>1. PICK left : left = Follow(FALSE)
    OBVIOUS
  <2>2. PICK fails \in BOOLEAN : fails = Decides(FALSE)
    BY <1>2
  <2> QED
    BY <1>1, <1>4, <2>1, <2>2, ProceedTyped DEF Proceed
<1>5. CASE Proceed(Unsent, Decides(FALSE))
  <2>1. PICK left : left = Unsent
    OBVIOUS
  <2>2. PICK fails \in BOOLEAN : fails = Decides(FALSE)
    BY <1>2
  <2> QED
    BY <1>1, <1>5, <2>1, <2>2, ProceedTyped DEF Proceed
<1> QED
  BY <1>3, <1>4, <1>5

\* Lines are read and purged from the front.
LEMMA LineShrinks ==
  ASSUME LinesTyped
  PROVE  /\ Purge => LinesTyped'
         /\ line # <<>> => Head(line) \in LineSet /\ Tail(line) \in Seq(LineSet)
<1>1. ASSUME Purge PROVE LinesTyped'
  <2>1. PICK n \in 0 .. Len(line) : line' = SubSeq(line, n + 1, Len(line))
    BY <1>1 DEF Purge
  <2> QED
    BY <2>1, DropFacts DEF LinesTyped
<1>2. line # <<>> => Head(line) \in LineSet /\ Tail(line) \in Seq(LineSet)
  BY TailFacts DEF LinesTyped
<1> QED
  BY <1>1, <1>2

LEMMA Writes ==
  ASSUME ClientTyped, WritesTyped, todo # <<>>, kinds' = kinds,
         NEW cmd \in Commands \cup {"body", "text"},
         cmd = "CMGS" => Head(todo).part \in 1 .. Parts,
         tx' = Append(tx, Written(cmd, Msg, Head(todo).part))
  PROVE  WritesTyped'
<1> DEFINE w == Written(cmd, Msg, Head(todo).part)
<1>1. Head(todo).part \in Nat
  <2>1. Head(todo) \in StepSet
    BY DEF ClientTyped, ScriptedAs
  <2> QED
    BY <2>1, AtDialogAssumption DEF StepSet
<1>2. Len(kinds) \in Nat \ {0} /\ Msg = Len(kinds)
  BY DEF ClientTyped, ScriptedAs, Msg
<1>3. w \in WriteSet /\ w.msg = Len(kinds) /\ w.cmd = cmd /\ w.part = Head(todo).part
  BY <1>1, <1>2 DEF Written, WriteSet
<1> HIDE DEF w
<1>4. tx' = Append(tx, w)
  BY DEF w
<1>5. /\ tx' \in Seq(WriteSet) /\ Len(tx') = Len(tx) + 1 /\ tx'[Len(tx) + 1] = w
      /\ \A k \in 1 .. Len(tx) : tx'[k] = tx[k]
  BY <1>3, <1>4, AppendFacts DEF WritesTyped
<1>6. Known(w)
  BY <1>2, <1>3 DEF Known
<1>7. ASSUME NEW k \in 1 .. Len(tx') PROVE Known(tx'[k])
  <2>1. CASE k = Len(tx) + 1
    BY <2>1, <1>5, <1>6
  <2>2. CASE k # Len(tx) + 1
    <3>1. k \in 1 .. Len(tx)
      <4>1. \A a \in Nat : \A b \in 1 .. a + 1 : b # a + 1 => b \in 1 .. a
        OBVIOUS
      <4>2. Len(tx) \in Nat
        BY DEF WritesTyped
      <4> QED
        BY <2>2, <4>1, <4>2, <1>5
    <3> QED
      BY <3>1, <1>5 DEF WritesTyped
  <2> QED
    BY <2>1, <2>2
<1> QED
  BY <1>5, <1>7 DEF WritesTyped, Known

\* The step of a submission carries its part.
LEMMA SubmitPart ==
  ASSUME ClientTyped, todo # <<>>
  PROVE  /\ Head(todo).role = "submit" <=> Head(todo).cmd = "CMGS"
         /\ Head(todo).role = "submit" => Head(todo).part \in 1 .. Parts /\ Kind \in Sends
         /\ Head(todo).cmd \in Commands
<1>1. ScriptedAs(todo)
  BY DEF ClientTyped
<1>2. Head(todo) \in StepSet /\ Parts \in Nat \ {0}
  BY <1>1, AtDialogAssumption DEF ScriptedAs
<1>3. Head(todo).cmd \in Commands
  BY <1>2 DEF StepSet
<1>4. CASE Kind \notin Sends
  <2>1. Head(todo) \in PlainSteps
    BY <1>1, <1>4 DEF ScriptedAs
  <2> QED
    BY <2>1, <1>3 DEF PlainSteps, SendOnly
<1>5. CASE Kind = "gsm"
  BY <1>1, <1>2, <1>3, <1>5, GsmHead DEF StepIs, Sends
<1>6. CASE Kind = "ucs2"
  BY <1>1, <1>2, <1>3, <1>6, Ucs2Head DEF StepIs, Sends
<1>7. CASE Kind = "long"
  <2>1. Len(todo) \in 1 .. Parts + 4
    BY <1>1, <1>7, LongHead
  <2>2. \A k \in 1 .. Parts + 4 :
            k = Parts + 4 \/ k = Parts + 3 \/ k \in 3 .. Parts + 2 \/ k = 2 \/ k = 1
    BY <1>2
  <2>3. \A k \in 3 .. Parts + 2 : Parts + 3 - k \in 1 .. Parts
    BY <1>2
  <2>4. CASE Len(todo) \in 3 .. Parts + 2
    BY <1>1, <1>3, <1>7, <2>3, <2>4, LongHead DEF StepIs, Sends
  <2>5. CASE Len(todo) \in {1, 2, Parts + 3, Parts + 4}
    BY <1>1, <1>3, <1>7, <2>5, LongHead DEF StepIs
  <2> QED
    BY <2>1, <2>2, <2>4, <2>5
<1> QED
  BY <1>4, <1>5, <1>6, <1>7 DEF Sends

LEMMA FinishTyped ==
  ASSUME Typed, todo # <<>>, Succeeded \/ Failed
  PROVE  ClientTyped' /\ FieldsTyped' /\ kinds' = kinds
<1>1. ClientTyped' /\ kinds' = kinds
  <2>1. ClientTyped'
    BY FollowTyped DEF Typed, Succeeded, Failed
  <2> QED
    BY <2>1 DEF Succeeded, Failed, Proceed
<1>2. FieldsTyped'
  <2>1. CASE Failed
    BY <2>1 DEF Failed, Typed, FieldsTyped
  <2>2. CASE Succeeded
    <3>1. Head(todo).field \in Fields
      <4>1. Head(todo) \in StepSet
        BY FollowScripted DEF Typed, ClientTyped
      <4> QED
        BY <4>1 DEF StepSet
    <3>2. got \in LineSet \cup {NoLine}
      BY DEF Typed, ClientTyped
    <3>3. Taken(Head(todo).field) \subseteq [field : Fields, of : Names, v : BOOLEAN]
      <4>1. CASE got = NoLine
        BY <4>1 DEF Taken, Parsed
      <4>2. CASE got # NoLine
        BY <3>1, <3>2, <4>2 DEF Taken, LineSet
      <4> QED
        BY <4>1, <4>2
    <3> QED
      BY <2>2, <3>3 DEF Succeeded, Typed, FieldsTyped
  <2> QED
    BY <2>1, <2>2
<1> QED
  BY <1>1, <1>2

LEMMA OneLineTyped ==
  ASSUME NEW t \in {"data", "ok", "error", "prompt", "cmgs"}, NEW cmd \in Names, NEW v \in BOOLEAN
  PROVE  /\ Line(t, cmd, v) \in LineSet /\ Line(t, cmd, v).t = t
         /\ Line(t, cmd, v).of = cmd /\ Line(t, cmd, v).v = v
BY DEF Line, LineSet

\* An unsolicited line, between the others.
LEMMA UrcInserts ==
  ASSUME Urc
  PROVE  \E n \in 1 .. Len(line) + 1, e \in LineSet :
           e.t = "data" /\ e.of = "urc" /\ line' = InsertAt(line, n, e)
<1>1. PICK n \in 1 .. Len(line) + 1 : line' = InsertAt(line, n, Line("data", "urc", FALSE))
  BY DEF Urc
<1>2. "urc" \in Names
  BY DEF Names
<1>3. /\ Line("data", "urc", FALSE) \in LineSet /\ Line("data", "urc", FALSE).t = "data"
      /\ Line("data", "urc", FALSE).of = "urc"
  BY <1>2 DEF Line, LineSet
<1> QED
  BY <1>1, <1>3

LEMMA ErrorTyped ==
  ASSUME NEW cmd \in Names
  PROVE  \E e \in LineSet : e = Line("error", cmd, FALSE) /\ e.t = "error" /\ e.of = cmd
<1>1. /\ Line("error", cmd, FALSE) \in LineSet /\ Line("error", cmd, FALSE).t = "error"
      /\ Line("error", cmd, FALSE).of = cmd
  BY DEF Line, LineSet
<1> QED
  BY <1>1

LEMMA EffectTyped ==
  ASSUME dev \in DevSet, NEW cmd \in Commands \cup {"body", "text"}
  PROVE  Effect(cmd) \in DevSet /\ Effect(cmd).input = dev.input
<1>1. Effect(cmd) \in DevSet
  BY ZenonT(30) DEF Effect, DevSet
<1>2. Effect(cmd).input = dev.input
  BY DEF Effect, DevSet
<1> QED
  BY <1>1, <1>2

LEMMA AnswersTyped ==
  ASSUME dev \in DevSet, NEW cmd \in Commands
  PROVE  /\ OK(cmd) \in LineSet /\ Error(cmd) \in LineSet
         /\ Answers(cmd) \subseteq Seq(LineSet)
<1>1. cmd \in Names
  BY DEF Names
<1>2. OK(cmd) \in LineSet /\ Error(cmd) \in LineSet
  BY <1>1, OneLineTyped DEF OK, Error
<1>3. CASE cmd \in Queries
  <2>1. Says(cmd) \subseteq BOOLEAN
    BY DEF Says
  <2>2. \A v \in Says(cmd) : Line("data", cmd, v) \in LineSet
    BY <1>1, <2>1, OneLineTyped
  <2>3. \A v \in Says(cmd) : <<Line("data", cmd, v), OK(cmd)>> \in Seq(LineSet)
    BY <1>2, <2>2
  <2> QED
    BY <1>2, <1>3, <2>3 DEF Answers
<1>4. CASE cmd \notin Queries
  BY <1>2, <1>4 DEF Answers
<1> QED
  BY <1>2, <1>3, <1>4

LEMMA WritesShrink ==
  ASSUME WritesTyped, tx # <<>>, kinds' = kinds, tx' = Tail(tx)
  PROVE  WritesTyped' /\ Head(tx) \in WriteSet /\ Known(Head(tx))
<1>1. /\ Tail(tx) \in Seq(WriteSet) /\ Len(Tail(tx)) = Len(tx) - 1
      /\ Len(tx) \in Nat \ {0} /\ Head(tx) = tx[1] /\ Head(tx) \in WriteSet
      /\ \A i \in 1 .. Len(Tail(tx)) : Tail(tx)[i] = tx[i + 1]
  BY TailFacts DEF WritesTyped
<1>2. ASSUME NEW k \in 1 .. Len(tx') PROVE Known(tx'[k])
  <2>1. k + 1 \in 1 .. Len(tx) /\ tx'[k] = tx[k + 1]
    BY <1>1
  <2> QED
    BY <2>1 DEF WritesTyped
<1>3. Known(Head(tx))
  BY <1>1 DEF WritesTyped
<1> QED
  BY <1>1, <1>2, <1>3 DEF WritesTyped, Known

\* Only the client moves: nothing is written, and what is counted keeps its bounds.
LEMMA ModemStays ==
  ASSUME ModemTyped, kinds' = kinds, dev' = dev, sent' = sent
  PROVE  ModemTyped'
BY DEF ModemTyped

LEMMA WritesStay ==
  ASSUME WritesTyped, kinds' = kinds, tx' = tx
  PROVE  WritesTyped'
BY DEF WritesTyped, Known

LEMMA ErrTyped ==
  ASSUME CountsTyped, Err, unset' \subseteq {"mode", "charset"}
  PROVE  CountsTyped' /\ used' = [used EXCEPT !.errors = @ + 1]
<1>1. used' = [used EXCEPT !.errors = @ + 1] /\ used.errors + used.urcs < MaxFaults
  BY DEF Err, Faulty
<1>2. MaxFaults \in Nat
  BY AtDialogAssumption
<1> QED
  BY <1>1, <1>2 DEF CountsTyped

LEMMA StartTyped ==
  ASSUME Typed, NEW kind \in Kinds, Start(kind)
  PROVE  Typed'
<1>1. /\ kinds' = Append(kinds, kind) /\ todo' = Script(kind) /\ phase' = "send" /\ ok' = TRUE
      /\ fields' = {} /\ got' = got /\ haveCmgs' = haveCmgs /\ gnss' = gnss
      /\ restartRequired' = restartRequired /\ tx' = tx /\ line' = line /\ dev' = dev
      /\ sent' = sent /\ unset' = unset /\ used' = used /\ Len(kinds) < MaxDialogs
      /\ phase = "idle"
  BY DEF Start, modemVars
<1>2. /\ kinds' \in Seq(Kinds) /\ Len(kinds') = Len(kinds) + 1 /\ Len(kinds) \in Nat
      /\ kinds' # <<>> /\ Last(kinds') = kind /\ Len(kinds') <= MaxDialogs
  <2>1. MaxDialogs \in Nat
    BY AtDialogAssumption
  <2>2. kinds \in Seq(Kinds)
    BY DEF Typed, ClientTyped
  <2>3. /\ Append(kinds, kind) \in Seq(Kinds) /\ Append(kinds, kind) # <<>>
        /\ Len(Append(kinds, kind)) = Len(kinds) + 1 /\ Append(kinds, kind)[Len(kinds) + 1] = kind
    BY <2>2, AppendFacts
  <2> QED
    BY <1>1, <2>1, <2>2, <2>3 DEF Last
<1>3. Script(kind) # <<>> /\ ScriptedAs(todo)'
  <2>1. kind \in {"init", "poll", "gsm", "ucs2", "long", "gnss"}
    BY AtDialogAssumption
  <2>2. CASE kind \notin Sends
    <3>1. Script(kind) \in Seq(PlainSteps) /\ Script(kind) # <<>>
      BY <2>1, <2>2, PlainScripts DEF Sends
    <3>2. Seq(PlainSteps) \subseteq Seq(StepSet)
      BY DEF PlainSteps
    <3> QED
      BY <1>1, <1>2, <2>2, <3>1, <3>2 DEF ScriptedAs, Kind
  <2>3. CASE kind \in Sends
    <3>1. /\ Script(kind) \in Seq(StepSet) /\ Script(kind) # <<>>
          /\ Len(Script(kind)) = LengthOf(kind) /\ LengthOf(kind) \in Nat
          /\ \A i \in 1 .. Len(Script(kind)) :
               Script(kind)[i] = StepOf(kind, Len(Script(kind)) + 1 - i)
      BY <2>3, SendScripts
    <3> HIDE DEF Script
    <3>2. SendShape(todo)'
      BY <1>1, <1>2, <3>1 DEF SendShape, Kind
    <3> QED
      BY <1>1, <1>2, <2>3, <3>1, <3>2 DEF ScriptedAs, Kind
  <2> QED
    BY <2>2, <2>3
<1>4. ClientTyped'
  BY <1>1, <1>2, <1>3 DEF Typed, ClientTyped, Phases
<1>5. FieldsTyped' /\ LinesTyped' /\ CountsTyped'
  BY <1>1 DEF Typed, FieldsTyped, LinesTyped, CountsTyped
<1>6. 1 .. Len(kinds) \subseteq 1 .. Len(kinds')
  BY <1>2
<1>7. WritesTyped' /\ ModemTyped'
  BY <1>1, <1>6 DEF Typed, WritesTyped, Known, ModemTyped
<1> QED
  BY <1>4, <1>5, <1>7 DEF Typed

LEMMA BusyTodo ==
  ASSUME ClientTyped, phase # "idle"
  PROVE  todo # <<>> /\ kinds # <<>> /\ Head(todo) \in StepSet /\ ScriptedAs(todo)
BY FollowScripted DEF ClientTyped, ScriptedAs

LEMMA ConcernsTyped ==
  ASSUME NEW cmd
  PROVE  Concerns(cmd) \subseteq {"mode", "charset"}
BY DEF Concerns

LEMMA SendTyped ==
  ASSUME Typed, Send
  PROVE  Typed'
<1>1. /\ phase = "send" /\ Purge
      /\ tx' = Append(tx, Written(Head(todo).cmd, Msg, Head(todo).part))
      /\ phase' = (IF Head(todo).role = "submit" THEN "prompt" ELSE "reply")
      /\ unset' = unset \ Concerns(Head(todo).cmd)
      /\ kinds' = kinds /\ todo' = todo /\ got' = got /\ haveCmgs' = haveCmgs /\ ok' = ok
      /\ fields' = fields /\ gnss' = gnss /\ restartRequired' = restartRequired
      /\ dev' = dev /\ sent' = sent /\ used' = used
  BY DEF Send, modemVars
<1>2. todo # <<>> /\ ClientTyped
  BY <1>1, BusyTodo DEF Typed
<1>3. ClientTyped'
  BY <1>1, <1>2 DEF ClientTyped, Phases, ScriptedAs, SendShape, Kind
<1>4. WritesTyped'
  <2>1. Head(todo).cmd \in Commands /\ (Head(todo).cmd = "CMGS" => Head(todo).part \in 1 .. Parts)
    BY <1>2, SubmitPart
  <2>2. PICK cmd \in Commands : cmd = Head(todo).cmd
    BY <2>1
  <2> QED
    BY <1>1, <1>2, <2>1, <2>2, Writes DEF Typed
<1>5. LinesTyped' /\ FieldsTyped'
  BY <1>1, LineShrinks DEF Typed, FieldsTyped
<1>6. ModemTyped'
  BY <1>1, ModemStays DEF Typed
<1>7. CountsTyped'
  BY <1>1 DEF Typed, CountsTyped
<1> QED
  BY <1>3, <1>4, <1>5, <1>6, <1>7 DEF Typed

LEMMA SendFailsTyped ==
  ASSUME Typed, SendFails
  PROVE  Typed'
<1>1. /\ phase = "send" /\ Err /\ Purge /\ unset' = unset \cup Concerns(Head(todo).cmd)
      /\ tx' = tx /\ dev' = dev /\ sent' = sent
  BY DEF SendFails, modemVars
<1>2. todo # <<>> /\ ClientTyped
  BY <1>1, BusyTodo DEF Typed
<1>3. ClientTyped' /\ FieldsTyped' /\ kinds' = kinds
  <2>1. CASE Head(todo).role = "blind"
    BY <1>1, <1>2, <2>1
    DEF SendFails, Typed, ClientTyped, FieldsTyped, Phases, ScriptedAs, SendShape, Kind
  <2>2. CASE Head(todo).role # "blind"
    <3>1. Proceed(Unsent, Decides(FALSE)) /\ fields' = fields
      BY <2>2 DEF SendFails
    <3> QED
      BY <1>2, <3>1, FollowTyped DEF Typed, FieldsTyped, Proceed
  <2> QED
    BY <2>1, <2>2
<1>4. LinesTyped' /\ WritesTyped' /\ ModemTyped'
  BY <1>1, <1>3, LineShrinks, WritesStay, ModemStays DEF Typed
<1>5. CountsTyped'
  <2>1. unset' \subseteq {"mode", "charset"}
    BY <1>1, ConcernsTyped DEF Typed, CountsTyped
  <2> QED
    BY <1>1, <2>1, ErrTyped DEF Typed
<1> QED
  BY <1>3, <1>4, <1>5 DEF Typed

LEMMA ReplyTyped ==
  ASSUME Typed, Reply
  PROVE  Typed'
<1>1. /\ phase = "reply" /\ line # <<>> /\ line' = Tail(line)
      /\ tx' = tx /\ dev' = dev /\ sent' = sent /\ unset' = unset /\ used' = used
  BY DEF Reply, modemVars
<1>2. todo # <<>> /\ ClientTyped
  BY <1>1, BusyTodo DEF Typed
<1>3. Head(line) \in LineSet /\ LinesTyped'
  BY <1>1, LineShrinks DEF Typed, LinesTyped
<1>4. ClientTyped' /\ FieldsTyped' /\ kinds' = kinds
  <2>1. CASE Succeeded \/ Failed
    BY <1>2, <2>1, FinishTyped
  <2>2. CASE /\ got' = Head(line) /\ kinds' = kinds /\ todo' = todo /\ phase' = phase
             /\ haveCmgs' = haveCmgs /\ ok' = ok /\ fields' = fields /\ gnss' = gnss
             /\ restartRequired' = restartRequired
    BY <1>2, <1>3, <2>2
    DEF Typed, ClientTyped, FieldsTyped, Phases, ScriptedAs, SendShape, Kind
  <2> QED
    BY <2>1, <2>2 DEF Reply
<1>5. WritesTyped' /\ ModemTyped' /\ CountsTyped'
  BY <1>1, <1>4, WritesStay, ModemStays DEF Typed, CountsTyped
<1> QED
  BY <1>3, <1>4, <1>5 DEF Typed

LEMMA AwaitPromptTyped ==
  ASSUME Typed, AwaitPrompt
  PROVE  Typed'
<1>1. /\ phase = "prompt" /\ line # <<>> /\ line' = Tail(line)
      /\ dev' = dev /\ sent' = sent /\ unset' = unset /\ used' = used
  BY DEF AwaitPrompt, modemVars
<1>2. todo # <<>> /\ ClientTyped
  BY <1>1, BusyTodo DEF Typed
<1>3. LinesTyped'
  BY <1>1, LineShrinks DEF Typed, LinesTyped
<1>4. ClientTyped' /\ FieldsTyped' /\ WritesTyped' /\ kinds' = kinds
  <2>1. CASE Failed /\ tx' = tx
    BY <1>2, <2>1, FinishTyped, WritesStay DEF Typed
  <2>2. CASE clientVars' = clientVars /\ tx' = tx
    BY <1>2, <2>2, WritesStay
    DEF clientVars, Typed, ClientTyped, FieldsTyped, Phases, ScriptedAs, SendShape, Kind
  <2>3. CASE /\ phase' = "confirm" /\ tx' = Append(tx, Written("body", Msg, Head(todo).part))
             /\ kinds' = kinds /\ todo' = todo /\ got' = got /\ haveCmgs' = haveCmgs /\ ok' = ok
             /\ fields' = fields /\ gnss' = gnss /\ restartRequired' = restartRequired
    <3>1. ClientTyped' /\ FieldsTyped'
      BY <1>1, <1>2, <2>3
      DEF Typed, ClientTyped, FieldsTyped, Phases, ScriptedAs, SendShape, Kind
    <3>2. WritesTyped'
      BY <1>2, <2>3, Writes DEF Typed
    <3> QED
      BY <2>3, <3>1, <3>2
  <2> QED
    BY <2>1, <2>2, <2>3 DEF AwaitPrompt
<1>5. ModemTyped' /\ CountsTyped'
  BY <1>1, <1>4, ModemStays DEF Typed, CountsTyped
<1> QED
  BY <1>3, <1>4, <1>5 DEF Typed

LEMMA BodyFailsTyped ==
  ASSUME Typed, BodyFails
  PROVE  Typed'
<1>1. /\ phase = "prompt" /\ line # <<>> /\ line' = Tail(line) /\ Err /\ Failed
      /\ dev' = dev /\ sent' = sent /\ unset' = unset
      /\ tx' = tx \/ tx' = Append(tx, Written("text", Msg, Head(todo).part))
  BY DEF BodyFails, modemVars
<1>2. todo # <<>> /\ ClientTyped
  BY <1>1, BusyTodo DEF Typed
<1>3. LinesTyped'
  BY <1>1, LineShrinks DEF Typed, LinesTyped
<1>4. ClientTyped' /\ FieldsTyped' /\ kinds' = kinds
  BY <1>1, <1>2, FinishTyped
<1>5. WritesTyped'
  BY <1>1, <1>2, <1>4, WritesStay, Writes DEF Typed
<1>6. ModemTyped' /\ CountsTyped'
  BY <1>1, <1>4, ModemStays, ErrTyped DEF Typed, CountsTyped
<1> QED
  BY <1>3, <1>4, <1>5, <1>6 DEF Typed

LEMMA AwaitConfirmationTyped ==
  ASSUME Typed, AwaitConfirmation
  PROVE  Typed'
<1>1. /\ phase = "confirm" /\ line # <<>> /\ line' = Tail(line) /\ tx' = tx
      /\ dev' = dev /\ sent' = sent /\ unset' = unset /\ used' = used
  BY DEF AwaitConfirmation, modemVars
<1>2. todo # <<>> /\ ClientTyped
  BY <1>1, BusyTodo DEF Typed
<1>3. LinesTyped'
  BY <1>1, LineShrinks DEF Typed, LinesTyped
<1>4. ClientTyped' /\ FieldsTyped' /\ kinds' = kinds
  <2>1. CASE Succeeded \/ Failed
    BY <1>2, <2>1, FinishTyped
  <2>2. CASE clientVars' = clientVars
    BY <1>2, <2>2
    DEF clientVars, Typed, ClientTyped, FieldsTyped, Phases, ScriptedAs, SendShape, Kind
  <2>3. CASE /\ haveCmgs' = TRUE /\ kinds' = kinds /\ todo' = todo /\ phase' = phase
             /\ got' = got /\ ok' = ok /\ fields' = fields /\ gnss' = gnss
             /\ restartRequired' = restartRequired
    BY <1>1, <1>2, <2>3 DEF Typed, ClientTyped, FieldsTyped, Phases, ScriptedAs, SendShape, Kind
  <2> QED
    BY <2>1, <2>2, <2>3 DEF AwaitConfirmation
<1>5. WritesTyped' /\ ModemTyped' /\ CountsTyped'
  BY <1>1, <1>4, WritesStay, ModemStays DEF Typed, CountsTyped
<1> QED
  BY <1>3, <1>4, <1>5 DEF Typed

LEMMA SilenceTyped ==
  ASSUME Typed, TimesOut \/ GivesUp
  PROVE  Typed'
<1>1. /\ phase # "idle" /\ Failed /\ line' = line /\ tx' = tx /\ dev' = dev /\ sent' = sent
      /\ unset' = unset
      /\ used' = used \/ (used.late < MaxLate /\ used' = [used EXCEPT !.late = @ + 1])
  BY DEF TimesOut, GivesUp, Waiting, modemVars
<1>2. todo # <<>> /\ ClientTyped
  BY <1>1, BusyTodo DEF Typed
<1>3. ClientTyped' /\ FieldsTyped' /\ kinds' = kinds
  BY <1>1, <1>2, FinishTyped
<1>4. LinesTyped' /\ WritesTyped' /\ ModemTyped'
  BY <1>1, <1>3, WritesStay, ModemStays DEF Typed, LinesTyped
<1>5. CountsTyped'
  BY <1>1, AtDialogAssumption DEF Typed, CountsTyped
<1> QED
  BY <1>3, <1>4, <1>5 DEF Typed

LEMMA ClientStays ==
  ASSUME ClientTyped, FieldsTyped, clientVars' = clientVars
  PROVE  ClientTyped' /\ FieldsTyped' /\ kinds' = kinds
BY DEF clientVars, ClientTyped, FieldsTyped, Phases, ScriptedAs, SendShape, Kind

LEMMA ModemAnswersTyped ==
  ASSUME Typed, ModemAnswers
  PROVE  Typed'
<1> DEFINE w == Head(tx)
<1>1. /\ tx # <<>> /\ tx' = Tail(tx) /\ clientVars' = clientVars /\ used' = used
  BY DEF ModemAnswers, clientVars
<1>2. ClientTyped' /\ FieldsTyped' /\ kinds' = kinds
  BY <1>1, ClientStays DEF Typed
<1>3. WritesTyped' /\ w \in WriteSet /\ Known(w)
  BY <1>1, <1>2, WritesShrink DEF Typed
<1>4. /\ w.cmd \in Commands \cup {"body", "text"} /\ w.cmd \in Names /\ w.msg \in Nat
      /\ w.part \in Nat
  BY <1>3 DEF WriteSet, Names
<1>5. dev \in DevSet /\ sent \in Seq(SentSet) /\ line \in Seq(LineSet)
  BY DEF Typed, ModemTyped, LinesTyped
<1>6. LinesTyped' /\ ModemTyped' /\ CountsTyped'
  <2>1. CASE TakesText(w)
    <3> DEFINE new == [msg |-> w.msg, part |-> w.part, to |-> dev.input.msg,
                       of |-> dev.input.part, whole |-> dev.clean, as |-> Encoded]
    <3>1. /\ sent' = Append(sent, new) /\ dev' = [dev EXCEPT !.input = NoInput, !.clean = TRUE]
          /\ line' = line \o <<Line("cmgs", w.cmd, FALSE), OK(w.cmd)>> /\ unset' = unset
      BY <2>1 DEF TakesText
    <3>2. new \in SentSet
      <4>1. dev.input.msg \in Nat /\ dev.input.part \in Nat /\ dev.clean \in BOOLEAN
        BY <1>5 DEF DevSet, WriteSet, NoInput, Written
      <4>2. Encoded \in {"PDU", "GSM", "UCS2", "mixed"}
        BY <1>5 DEF Encoded, DevSet
      <4> QED
        BY <1>4, <4>1, <4>2 DEF SentSet
    <3> HIDE DEF new
    <3>3. sent' \in Seq(SentSet)
      BY <1>5, <3>1, <3>2, AppendFacts
    <3>4. Line("cmgs", w.cmd, FALSE) \in LineSet /\ OK(w.cmd) \in LineSet
      BY <1>4, OneLineTyped DEF OK
    <3>5. LinesTyped'
      <4>1. PICK a \in LineSet, b \in LineSet : line' = line \o <<a, b>>
        BY <3>1, <3>4
      <4>2. <<a, b>> \in Seq(LineSet)
        OBVIOUS
      <4> QED
        BY <1>5, <4>1, <4>2, JoinFacts DEF LinesTyped
    <3>6. ModemTyped'
      BY <1>5, <3>1, <3>3 DEF ModemTyped, DevSet
    <3> QED
      BY <1>1, <3>1, <3>5, <3>6 DEF Typed, CountsTyped
  <2>2. CASE Swallowed(w)
    <3>1. /\ dev' = [dev EXCEPT !.clean = FALSE] /\ unset' = unset \cup Concerns(w.cmd)
          /\ line' = line /\ sent' = sent
      BY <2>2 DEF Swallowed
    <3>2. dev' \in DevSet /\ dev'.input = dev.input
      BY <1>5, <3>1 DEF DevSet
    <3>3. ModemTyped'
      BY <1>2, <3>1, <3>2 DEF Typed, ModemTyped
    <3>4. CountsTyped'
      BY <1>1, <3>1, ConcernsTyped DEF Typed, CountsTyped
    <3> QED
      BY <3>1, <3>3, <3>4 DEF Typed, LinesTyped
  <2>3. CASE Command(w)
    <3>1. /\ w.cmd \notin {"CMGS", "body", "text"} /\ dev' = Effect(w.cmd) /\ sent' = sent
          /\ unset' = unset /\ \E answer \in Answers(w.cmd) : line' = line \o answer
      BY <2>3 DEF Command
    <3>2. dev' \in DevSet /\ dev'.input = dev.input
      BY <1>4, <1>5, <3>1, EffectTyped
    <3>3. ModemTyped'
      BY <1>2, <3>1, <3>2 DEF Typed, ModemTyped
    <3>4. LinesTyped'
      <4>1. w.cmd \in Commands
        BY <1>4, <3>1
      <4>2. PICK answer \in Seq(LineSet) : line' = line \o answer
        BY <1>5, <3>1, <4>1, AnswersTyped
      <4> QED
        BY <1>5, <4>2, JoinFacts DEF LinesTyped
    <3> QED
      BY <1>1, <3>1, <3>3, <3>4 DEF Typed, CountsTyped
  <2>4. CASE OpensInput(w)
    <3>1. w.cmd = "CMGS" /\ sent' = sent /\ unset' = unset
      BY <2>4 DEF OpensInput
    <3>2. \/ /\ dev' = [dev EXCEPT !.input = w, !.clean = TRUE]
             /\ line' = Append(line, Line("prompt", w.cmd, FALSE))
          \/ dev' = dev /\ line' = Append(line, Error(w.cmd))
      BY <2>4 DEF OpensInput
    <3>3. Line("prompt", w.cmd, FALSE) \in LineSet /\ Error(w.cmd) \in LineSet
      BY <1>4, OneLineTyped DEF Error
    <3>4. LinesTyped'
      <4>1. PICK a \in LineSet : line' = Append(line, a)
        BY <3>2, <3>3
      <4> QED
        BY <1>5, <4>1, AppendFacts DEF LinesTyped
    <3>5. ModemTyped'
      <4>1. CASE dev' = dev
        BY <1>2, <3>1, <4>1, ModemStays DEF Typed
      <4>2. CASE dev' = [dev EXCEPT !.input = w, !.clean = TRUE]
        <5>1. dev' \in DevSet /\ dev'.input = w
          BY <1>3, <1>5, <4>2 DEF DevSet
        <5> QED
          BY <1>2, <1>3, <1>5, <3>1, <5>1 DEF ModemTyped, Known
      <4> QED
        BY <3>2, <4>1, <4>2
    <3> QED
      BY <1>1, <3>1, <3>4, <3>5 DEF Typed, CountsTyped
  <2>5. CASE /\ line' = Append(line, Error(w.cmd)) /\ dev' = dev /\ sent' = sent
             /\ unset' = unset
    <3>1. Error(w.cmd) \in LineSet
      BY <1>4, OneLineTyped DEF Error
    <3> QED
      BY <1>1, <1>2, <1>5, <2>5, <3>1, AppendFacts, ModemStays DEF Typed, LinesTyped, CountsTyped
  <2> QED
    BY <2>1, <2>2, <2>3, <2>4, <2>5 DEF ModemAnswers, modemVars
<1> QED
  BY <1>2, <1>3, <1>6 DEF Typed

LEMMA ModemRefusesTyped ==
  ASSUME Typed, ModemRefuses
  PROVE  Typed'
<1>1. /\ tx # <<>> /\ Err /\ tx' = Tail(tx) /\ line' = Append(line, Error(Head(tx).cmd))
      /\ dev' = dev \/ dev' = [dev EXCEPT !.input = NoInput, !.clean = TRUE]
      /\ unset' = unset \cup Concerns(Head(tx).cmd) /\ clientVars' = clientVars /\ sent' = sent
  BY DEF ModemRefuses, clientVars
<1>2. ClientTyped' /\ FieldsTyped' /\ kinds' = kinds
  BY <1>1, ClientStays DEF Typed
<1>3. WritesTyped' /\ Head(tx) \in WriteSet
  BY <1>1, <1>2, WritesShrink DEF Typed
<1>4. LinesTyped'
  <2>1. Error(Head(tx).cmd) \in LineSet
    BY <1>3, OneLineTyped DEF Error, WriteSet, Names
  <2> QED
    BY <1>1, <2>1, AppendFacts DEF Typed, LinesTyped
<1>5. ModemTyped'
  <2>1. CASE dev' = dev
    BY <1>1, <1>2, <2>1, ModemStays DEF Typed
  <2>2. CASE dev' = [dev EXCEPT !.input = NoInput, !.clean = TRUE]
    BY <1>1, <2>2 DEF Typed, ModemTyped, DevSet
  <2> QED
    BY <1>1, <2>1, <2>2
<1>6. CountsTyped'
  <2>1. unset' \subseteq {"mode", "charset"}
    BY <1>1, ConcernsTyped DEF Typed, CountsTyped
  <2> QED
    BY <1>1, <2>1, ErrTyped DEF Typed
<1> QED
  BY <1>2, <1>3, <1>4, <1>5, <1>6 DEF Typed

LEMMA UrcTyped ==
  ASSUME Typed, Urc
  PROVE  Typed'
<1>1. /\ used' = [used EXCEPT !.urcs = @ + 1] /\ used.errors + used.urcs < MaxFaults
      /\ clientVars' = clientVars /\ tx' = tx /\ dev' = dev /\ sent' = sent /\ unset' = unset
  BY DEF Urc, Faulty, modemVars, clientVars
<1>2. ClientTyped' /\ FieldsTyped' /\ kinds' = kinds
  BY <1>1, ClientStays DEF Typed
<1>3. LinesTyped'
  <2>1. PICK i \in 1 .. Len(line) + 1 : line' = InsertAt(line, i, Line("data", "urc", FALSE))
    BY DEF Urc
  <2>2. Line("data", "urc", FALSE) \in LineSet
    BY OneLineTyped DEF Names
  <2> QED
    BY <2>1, <2>2, InsertFacts DEF Typed, LinesTyped
<1>4. WritesTyped' /\ ModemTyped'
  BY <1>1, <1>2, WritesStay, ModemStays DEF Typed
<1>5. CountsTyped'
  BY <1>1, AtDialogAssumption DEF Typed, CountsTyped
<1> QED
  BY <1>2, <1>3, <1>4, <1>5 DEF Typed

LEMMA TypedStep == Typed /\ [Next]_vars => Typed'
<1> SUFFICES ASSUME Typed, [Next]_vars PROVE Typed'
  OBVIOUS
<1>1. CASE \E kind \in Kinds : Start(kind)
  BY <1>1, StartTyped
<1>2. CASE RestartGnssTask
  BY <1>2 DEF RestartGnssTask, modemVars, Typed, ClientTyped, FieldsTyped, WritesTyped, Known,
         LinesTyped, ModemTyped, CountsTyped, Phases, ScriptedAs, SendShape, Kind
<1>3. CASE Client
  BY <1>3, SendTyped, ReplyTyped, AwaitPromptTyped, AwaitConfirmationTyped, SilenceTyped DEF Client
<1>4. CASE SendFails \/ BodyFails \/ GivesUp
  BY <1>4, SendFailsTyped, BodyFailsTyped, SilenceTyped
<1>5. CASE ModemAnswers \/ ModemRefuses \/ Urc
  BY <1>5, ModemAnswersTyped, ModemRefusesTyped, UrcTyped
<1>6. CASE UNCHANGED vars
  BY <1>6 DEF vars, clientVars, modemVars, Typed, ClientTyped, FieldsTyped, WritesTyped, Known,
         LinesTyped, ModemTyped, CountsTyped, Phases, ScriptedAs, SendShape, Kind
<1> QED
  BY <1>1, <1>2, <1>3, <1>4, <1>5, <1>6 DEF Next

\* The types hold in every reachable state.
THEOREM TypeInvariant == Spec => []Typed
<1>1. Init => Typed
  BY TypedInit
<1>2. Typed /\ [Next]_vars => Typed'
  BY TypedStep
<1> QED
  BY <1>1, <1>2, PTL DEF Spec

\* Type correctness as the module states it.
THEOREM TypeCorrect == Spec => []TypeOK
<1>1. Typed => TypeOK
  <2> SUFFICES ASSUME Typed PROVE TypeOK
    OBVIOUS
  <2>1. \A i \in DOMAIN todo : todo[i].field \in Fields /\ todo[i].tries \in 1 .. Tries
    <3>1. \A i \in DOMAIN todo : todo[i] \in StepSet
      BY DEF Typed, ClientTyped, ScriptedAs
    <3> QED
      BY <3>1 DEF StepSet
  <2>2. \A f \in fields : f.field \in Fields
    BY DEF Typed, FieldsTyped
  <2> QED
    BY <2>1, <2>2 DEF TypeOK, Typed, ClientTyped, ModemTyped, CountsTyped, Phases
<1> QED
  BY <1>1, TypeInvariant, PTL

-----------------------------------------------------------------------------
(* Prompts and texts: which text is given to which prompt. *)

Texts == {"body", "text"}

NoTexts == \A k \in 1 .. Len(tx) : tx[k].cmd \notin Texts

NoBody == \A k \in 1 .. Len(tx) : tx[k].cmd # "body"

NoPrompt == \A i \in 1 .. Len(line) : line[i].t # "prompt"

\* A prompt is open as long as the modem waits for a text, and there is one of them.
PromptsMatch ==
  /\ dev.input = NoInput => NoPrompt
  /\ dev.input = NoInput \/ ~NoPrompt => NoTexts

\* Nothing but reports comes after a prompt, and nothing but reports and the prompt
\* itself comes while the modem waits for a text.
LastPrompt ==
  \A i \in 1 .. Len(line) : line[i].t = "prompt" =>
    \A j \in i + 1 .. Len(line) : line[j].t = "data"

QuietInput ==
  dev.input # NoInput =>
    \A i \in 1 .. Len(line) : line[i].t \notin {"data", "prompt"} =>
      \E j \in i + 1 .. Len(line) : line[j].t = "prompt"

\* The text in the confirmation phase is that of the part being submitted.
OwnText ==
  \A k \in 1 .. Len(tx) : tx[k].cmd = "body" =>
    /\ k = Len(tx) /\ phase = "confirm" /\ ~haveCmgs
    /\ tx[k] = Written("body", Msg, Head(todo).part)

TextGiven == phase = "confirm" /\ NoBody => tx = <<>> /\ dev.input = NoInput

OwnSubmit ==
  phase = "prompt" /\ tx # <<>> => tx[Len(tx)] = Written("CMGS", Msg, Head(todo).part)

Prompted ==
  PromptsMatch /\ LastPrompt /\ QuietInput /\ OwnText /\ TextGiven /\ OwnSubmit

\* Reading a line is a purge of one line.
LEMMA ReadPurges ==
  ASSUME LinesTyped, line # <<>>, line' = Tail(line)
  PROVE  Purge
<1>1. Len(line) \in Nat \ {0} /\ Tail(line) = SubSeq(line, 2, Len(line))
  BY DEF LinesTyped
<1>2. 1 \in 0 .. Len(line) /\ 1 + 1 = 2
  BY <1>1
<1> QED
  BY <1>1, <1>2 DEF Purge

LEMMA PurgeFacts ==
  ASSUME LinesTyped, Purge
  PROVE  \E n \in 0 .. Len(line) :
           /\ Len(line') = Len(line) - n /\ Len(line) \in Nat /\ Len(line') \in Nat
           /\ \A i \in 1 .. Len(line') : i + n \in 1 .. Len(line) /\ line'[i] = line[i + n]
<1>1. PICK n \in 0 .. Len(line) : line' = SubSeq(line, n + 1, Len(line))
  BY DEF Purge
<1>2. Len(line) \in Nat
  BY DEF LinesTyped
<1>3. Len(line') = Len(line) - n /\ \A i \in 1 .. Len(line) - n : line'[i] = line[i + n]
  BY <1>1, DropFacts DEF LinesTyped
<1>4. Len(line) - n \in Nat /\ \A i \in 1 .. Len(line) - n : i + n \in 1 .. Len(line)
  BY <1>2
<1> QED
  BY <1>2, <1>3, <1>4

LEMMA PurgeKeeps ==
  ASSUME LinesTyped, Purge
  PROVE  /\ NoPrompt => NoPrompt'
         /\ LastPrompt => LastPrompt'
         /\ QuietInput /\ dev' = dev => QuietInput'
<1>1. PICK n \in 0 .. Len(line) :
        /\ Len(line') = Len(line) - n /\ Len(line) \in Nat /\ Len(line') \in Nat
        /\ \A i \in 1 .. Len(line') : i + n \in 1 .. Len(line) /\ line'[i] = line[i + n]
  BY PurgeFacts
<1>2. NoPrompt => NoPrompt'
  BY <1>1 DEF NoPrompt
<1>3. ASSUME LastPrompt PROVE LastPrompt'
  <2> SUFFICES ASSUME NEW i \in 1 .. Len(line'), line'[i].t = "prompt",
                      NEW j \in i + 1 .. Len(line')
               PROVE  line'[j].t = "data"
    BY DEF LastPrompt
  <2>1. j \in 1 .. Len(line') /\ j + n \in (i + n) + 1 .. Len(line)
    BY <1>1
  <2>2. line[i + n].t = "prompt" /\ i + n \in 1 .. Len(line)
    BY <1>1
  <2>3. line[j + n].t = "data"
    BY <1>3, <2>1, <2>2 DEF LastPrompt
  <2> QED
    BY <1>1, <2>1, <2>3
<1>4. ASSUME QuietInput, dev' = dev PROVE QuietInput'
  <2> SUFFICES ASSUME dev.input # NoInput, NEW i \in 1 .. Len(line'),
                      line'[i].t \notin {"data", "prompt"}
               PROVE  \E j \in i + 1 .. Len(line') : line'[j].t = "prompt"
    BY <1>4 DEF QuietInput
  <2>1. line[i + n].t \notin {"data", "prompt"} /\ i + n \in 1 .. Len(line)
    BY <1>1
  <2>2. PICK k \in (i + n) + 1 .. Len(line) : line[k].t = "prompt"
    BY <1>4, <2>1 DEF QuietInput
  <2>3. k - n \in i + 1 .. Len(line') /\ (k - n) + n = k /\ k - n \in 1 .. Len(line')
    BY <1>1
  <2>4. line'[k - n] = line[k]
    BY <1>1, <2>3
  <2> QED
    BY <2>2, <2>3, <2>4
<1> QED
  BY <1>2, <1>3, <1>4

\* Reports come anywhere, and change none of this.
LEMMA ReportKeeps ==
  ASSUME LinesTyped, NEW n \in 1 .. Len(line) + 1, NEW e \in LineSet, e.t = "data",
         line' = InsertAt(line, n, e)
  PROVE  /\ NoPrompt <=> NoPrompt'
         /\ LastPrompt => LastPrompt'
         /\ QuietInput /\ dev' = dev => QuietInput'
<1> DEFINE old(i) == IF i < n THEN i ELSE i - 1
           new(i) == IF i < n THEN i ELSE i + 1
<1>0. line \in Seq(LineSet)
  BY DEF LinesTyped
<1>1. Len(line) \in Nat /\ Len(line') = Len(line) + 1 /\ n \in Nat
  BY <1>0, InsertFacts
<1>2. line'[n] = e
  BY <1>0, InsertFacts
<1>3. \A i \in 1 .. n - 1 : line'[i] = line[i]
  BY <1>0, InsertFacts
<1>4. \A i \in n .. Len(line) : line'[i + 1] = line[i]
  BY <1>0, InsertFacts
<1>5. ASSUME NEW i \in 1 .. Len(line'), i # n
      PROVE  old(i) \in 1 .. Len(line) /\ line'[i] = line[old(i)] /\ i \in Nat
  <2>1. CASE i < n
    BY <1>1, <1>3, <2>1
  <2>2. CASE i > n
    <3>1. i - 1 \in n .. Len(line) /\ (i - 1) + 1 = i
      BY <1>1, <2>2
    <3> QED
      BY <1>1, <1>4, <2>2, <3>1
  <2> QED
    BY <1>1, <1>5, <2>1, <2>2
<1>6. ASSUME NEW i \in 1 .. Len(line)
      PROVE  new(i) \in 1 .. Len(line') /\ line'[new(i)] = line[i] /\ new(i) # n /\ i \in Nat
  <2>1. CASE i < n
    BY <1>1, <1>3, <2>1
  <2>2. CASE ~(i < n)
    <3>1. i \in n .. Len(line) /\ i + 1 \in 1 .. Len(line')
      BY <1>1, <2>2
    <3> QED
      BY <1>1, <1>4, <2>2, <3>1
  <2> QED
    BY <2>1, <2>2
<1>7. \A i \in Nat, j \in Nat : i < j /\ i # n /\ j # n => old(i) < old(j)
  BY <1>1
<1>8. \A i \in Nat, j \in Nat : i < j => new(i) < new(j)
  BY <1>1
<1>9. \A i \in Nat : new(old(i)) = i \/ i = n
  BY <1>1
<1>10. \A i \in Nat : old(i) \in Int /\ new(i) \in Nat
  BY <1>1
<1> HIDE DEF old, new
<1>11. NoPrompt => NoPrompt'
  <2> SUFFICES ASSUME NoPrompt, NEW i \in 1 .. Len(line') PROVE line'[i].t # "prompt"
    BY DEF NoPrompt
  <2> QED
    BY <1>2, <1>5 DEF NoPrompt
<1>12. NoPrompt' => NoPrompt
  <2> SUFFICES ASSUME NoPrompt', NEW i \in 1 .. Len(line) PROVE line[i].t # "prompt"
    BY DEF NoPrompt
  <2> QED
    BY <1>6 DEF NoPrompt
<1>13. ASSUME LastPrompt PROVE LastPrompt'
  <2> SUFFICES ASSUME NEW i \in 1 .. Len(line'), line'[i].t = "prompt",
                      NEW j \in i + 1 .. Len(line')
               PROVE  line'[j].t = "data"
    BY DEF LastPrompt
  <2>1. i # n
    BY <1>2
  <2>2. CASE j = n
    BY <1>2, <2>2
  <2>3. CASE j # n
    <3>1. j \in 1 .. Len(line') /\ i < j /\ j \in Nat /\ i \in Nat
      BY <1>1
    <3>2. old(j) \in old(i) + 1 .. Len(line)
      BY <1>1, <1>5, <1>7, <1>10, <2>1, <2>3, <3>1, SMTT(30)
    <3>3. line[old(i)].t = "prompt" /\ old(i) \in 1 .. Len(line)
      BY <1>5, <2>1
    <3>4. line[old(j)].t = "data"
      BY <1>13, <3>2, <3>3 DEF LastPrompt
    <3> QED
      BY <1>5, <2>3, <3>1, <3>4
  <2> QED
    BY <2>2, <2>3
<1>14. ASSUME QuietInput, dev' = dev PROVE QuietInput'
  <2> SUFFICES ASSUME dev.input # NoInput, NEW i \in 1 .. Len(line'),
                      line'[i].t \notin {"data", "prompt"}
               PROVE  \E j \in i + 1 .. Len(line') : line'[j].t = "prompt"
    BY <1>14 DEF QuietInput
  <2>1. i # n
    BY <1>2
  <2>2. line[old(i)].t \notin {"data", "prompt"} /\ old(i) \in 1 .. Len(line) /\ i \in Nat
    BY <1>5, <2>1
  <2>3. PICK k \in old(i) + 1 .. Len(line) : line[k].t = "prompt"
    BY <1>14, <2>2 DEF QuietInput
  <2>4. k \in 1 .. Len(line) /\ old(i) < k /\ old(i) \in Nat /\ k \in Nat
    BY <1>1, <2>2
  <2>5. new(k) \in 1 .. Len(line') /\ line'[new(k)].t = "prompt" /\ i < new(k)
    BY <1>6, <1>8, <1>9, <2>1, <2>2, <2>3, <2>4
  <2>6. new(k) \in i + 1 .. Len(line')
    BY <1>1, <2>5
  <2> QED
    BY <2>5, <2>6
<1> QED
  BY <1>11, <1>12, <1>13, <1>14

LEMMA PromptedInit == Init => Prompted
BY DEF Init, Prompted, PromptsMatch, NoPrompt, NoTexts, LastPrompt, QuietInput, OwnText, TextGiven,
       OwnSubmit

LEMMA BodyOnlyToConfirm ==
  ASSUME OwnText, phase # "confirm"
  PROVE  NoBody
BY DEF OwnText, NoBody

\* While a text is on its way only reports arrive; after it the modem waits for none.
LEMMA BodyMeansReports ==
  ASSUME LinesTyped, Prompted, ~NoBody
  PROVE  /\ dev.input # NoInput /\ NoPrompt
         /\ \A i \in 1 .. Len(line) : line[i].t = "data"
<1>1. ~NoTexts
  BY DEF NoBody, NoTexts, Texts
<1>2. dev.input # NoInput /\ NoPrompt
  BY <1>1 DEF Prompted, PromptsMatch
<1>3. \A i \in 1 .. Len(line) : line[i].t \in {"data", "prompt"}
  <2> SUFFICES ASSUME NEW i \in 1 .. Len(line), line[i].t \notin {"data", "prompt"} PROVE FALSE
    OBVIOUS
  <2>1. PICK j \in i + 1 .. Len(line) : line[j].t = "prompt"
    BY <1>2 DEF Prompted, QuietInput
  <2>2. j \in 1 .. Len(line)
    BY DEF LinesTyped
  <2> QED
    BY <1>2, <2>1, <2>2 DEF NoPrompt
<1> QED
  BY <1>2, <1>3 DEF NoPrompt

LEMMA BodyMeansReportFirst ==
  ASSUME LinesTyped, Prompted, line # <<>>, Head(line).t # "data"
  PROVE  NoBody
<1>1. Head(line) = line[1] /\ 1 \in 1 .. Len(line)
  BY DEF LinesTyped
<1> QED
  BY <1>1, BodyMeansReports

LEMMA PromptedLeaves ==
  ASSUME LinesTyped, Prompted, NoBody, phase' \in {"idle", "send", "reply"},
         tx' = tx, dev' = dev, Purge \/ line' = line
  PROVE  Prompted'
<1>1. /\ NoPrompt => NoPrompt'
      /\ LastPrompt'
      /\ QuietInput'
  <2>1. CASE Purge
    BY <2>1, PurgeKeeps DEF Prompted
  <2>2. CASE line' = line
    BY <2>2 DEF Prompted, NoPrompt, LastPrompt, QuietInput
  <2> QED
    BY <2>1, <2>2
<1>2. NoTexts => NoTexts'
  BY DEF NoTexts
<1>3. PromptsMatch'
  BY <1>1, <1>2 DEF Prompted, PromptsMatch
<1>4. OwnText' /\ TextGiven' /\ OwnSubmit'
  BY DEF NoBody, OwnText, TextGiven, OwnSubmit
<1> QED
  BY <1>1, <1>3, <1>4 DEF Prompted

LEMMA PromptedWaits ==
  ASSUME LinesTyped, Prompted, kinds' = kinds, todo' = todo, phase' = phase, haveCmgs' = haveCmgs,
         tx' = tx, dev' = dev, Purge \/ line' = line
  PROVE  Prompted'
<1>1. /\ NoPrompt => NoPrompt'
      /\ LastPrompt'
      /\ QuietInput'
  <2>1. CASE Purge
    BY <2>1, PurgeKeeps DEF Prompted
  <2>2. CASE line' = line
    BY <2>2 DEF Prompted, NoPrompt, LastPrompt, QuietInput
  <2> QED
    BY <2>1, <2>2
<1>2. (NoTexts <=> NoTexts') /\ (NoBody <=> NoBody')
  BY DEF NoTexts, NoBody
<1>3. PromptsMatch'
  BY <1>1, <1>2 DEF Prompted, PromptsMatch
<1>4. OwnText' /\ OwnSubmit'
  BY DEF Prompted, OwnText, OwnSubmit, Msg
<1>5. TextGiven'
  BY <1>2 DEF Prompted, TextGiven
<1> QED
  BY <1>1, <1>3, <1>4, <1>5 DEF Prompted

LEMMA TxGrows ==
  ASSUME WritesTyped, NEW w \in WriteSet, tx' = Append(tx, w)
  PROVE  /\ tx' # <<>> /\ Len(tx') = Len(tx) + 1 /\ Len(tx) \in Nat /\ tx'[Len(tx')] = w
         /\ \A k \in 1 .. Len(tx) : tx'[k] = tx[k]
         /\ \A k \in 1 .. Len(tx') : (k \in 1 .. Len(tx) /\ tx'[k] = tx[k]) \/ (k = Len(tx') /\ tx'[k] = w)
         /\ NoTexts' <=> NoTexts /\ w.cmd \notin Texts
         /\ NoBody' <=> NoBody /\ w.cmd # "body"
<1>1. tx' # <<>> /\ Len(tx') = Len(tx) + 1 /\ Len(tx) \in Nat /\ tx'[Len(tx) + 1] = w
      /\ \A k \in 1 .. Len(tx) : tx'[k] = tx[k]
  BY AppendFacts DEF WritesTyped
<1>2. \A k \in 1 .. Len(tx') : (k \in 1 .. Len(tx) /\ tx'[k] = tx[k]) \/ (k = Len(tx') /\ tx'[k] = w)
  BY <1>1
<1>3. Len(tx') \in 1 .. Len(tx') /\ \A k \in 1 .. Len(tx) : k \in 1 .. Len(tx')
  BY <1>1
<1>4. NoTexts' <=> NoTexts /\ w.cmd \notin Texts
  BY <1>1, <1>2, <1>3 DEF NoTexts
<1>5. NoBody' <=> NoBody /\ w.cmd # "body"
  BY <1>1, <1>2, <1>3 DEF NoBody
<1> QED
  BY <1>1, <1>2, <1>4, <1>5

LEMMA TxShrinks ==
  ASSUME WritesTyped, tx # <<>>, tx' = Tail(tx)
  PROVE  /\ Len(tx') = Len(tx) - 1 /\ Len(tx) \in Nat \ {0} /\ Head(tx) = tx[1]
         /\ Len(tx') \in Nat
         /\ \A k \in 1 .. Len(tx') : k + 1 \in 1 .. Len(tx) /\ tx'[k] = tx[k + 1]
         /\ \A k \in 1 .. Len(tx) : k = 1 \/ (k - 1 \in 1 .. Len(tx') /\ tx[k] = tx'[k - 1])
         /\ NoTexts <=> NoTexts' /\ Head(tx).cmd \notin Texts
         /\ NoBody <=> NoBody' /\ Head(tx).cmd # "body"
<1>1. Len(tx') = Len(tx) - 1 /\ Len(tx) \in Nat \ {0} /\ Head(tx) = tx[1]
      /\ \A k \in 1 .. Len(tx') : tx'[k] = tx[k + 1]
  BY TailFacts DEF WritesTyped
<1>2. Len(tx') \in Nat /\ \A k \in 1 .. Len(tx') : k + 1 \in 1 .. Len(tx) /\ tx'[k] = tx[k + 1]
  BY <1>1
<1>3. ASSUME NEW k \in 1 .. Len(tx)
      PROVE  k = 1 \/ (k - 1 \in 1 .. Len(tx') /\ tx[k] = tx'[k - 1])
  <2>1. k # 1 => k - 1 \in 1 .. Len(tx') /\ (k - 1) + 1 = k
    BY <1>1
  <2> QED
    BY <1>2, <2>1
<1>4. 1 \in 1 .. Len(tx)
  BY <1>1
<1>5. NoTexts <=> NoTexts' /\ Head(tx).cmd \notin Texts
  BY <1>1, <1>2, <1>3, <1>4 DEF NoTexts
<1>6. NoBody <=> NoBody' /\ Head(tx).cmd # "body"
  BY <1>1, <1>2, <1>3, <1>4 DEF NoBody
<1> QED
  BY <1>1, <1>2, <1>3, <1>5, <1>6

LEMMA CommandsAreNoTexts == Commands \cap Texts = {} /\ "none" \notin Commands
BY DEF Commands, Queries, Texts

\* Between sendCommand and its answer.
LEMMA WrittenFacts ==
  ASSUME ClientTyped, todo # <<>>, NEW cmd \in Commands \cup {"body", "text"}
  PROVE  /\ Written(cmd, Msg, Head(todo).part) \in WriteSet
         /\ Written(cmd, Msg, Head(todo).part).cmd = cmd
         /\ Written(cmd, Msg, Head(todo).part).msg = Msg
         /\ Written(cmd, Msg, Head(todo).part).part = Head(todo).part
         /\ Msg \in Nat \ {0} /\ Msg = Len(kinds)
<1>1. Head(todo).part \in Nat
  <2>1. Head(todo) \in StepSet
    BY DEF ClientTyped, ScriptedAs
  <2> QED
    BY <2>1, AtDialogAssumption DEF StepSet
<1>2. Len(kinds) \in Nat \ {0} /\ Msg = Len(kinds)
  BY DEF ClientTyped, ScriptedAs, Msg
<1> QED
  BY <1>1, <1>2 DEF Written, WriteSet

LEMMA SendPrompted ==
  ASSUME Typed, Prompted, Send
  PROVE  Prompted'
<1>1. /\ phase = "send" /\ Purge
      /\ tx' = Append(tx, Written(Head(todo).cmd, Msg, Head(todo).part))
      /\ phase' = (IF Head(todo).role = "submit" THEN "prompt" ELSE "reply")
      /\ kinds' = kinds /\ todo' = todo /\ dev' = dev
  BY DEF Send, modemVars
<1>2. todo # <<>> /\ ClientTyped /\ LinesTyped /\ WritesTyped
  BY <1>1, BusyTodo DEF Typed
<1>3. Head(todo).cmd \in Commands /\ (Head(todo).role = "submit" <=> Head(todo).cmd = "CMGS")
  BY <1>2, SubmitPart
<1>4. PICK w \in WriteSet : w = Written(Head(todo).cmd, Msg, Head(todo).part)
                           /\ w.cmd = Head(todo).cmd
  BY <1>2, <1>3, WrittenFacts
<1>5. /\ NoTexts => NoTexts'
      /\ NoBody'
      /\ tx'[Len(tx')] = w
  <2>1. w.cmd \notin Texts /\ w.cmd # "body"
    BY <1>3, <1>4, CommandsAreNoTexts DEF Texts
  <2>2. tx' = Append(tx, w) /\ NoBody
    BY <1>1, <1>4, BodyOnlyToConfirm DEF Prompted
  <2>3. tx'[Len(tx')] = w /\ (NoTexts' <=> NoTexts /\ w.cmd \notin Texts)
        /\ (NoBody' <=> NoBody /\ w.cmd # "body")
    BY <1>2, <2>2, TxGrows
  <2> QED
    BY <2>1, <2>2, <2>3
<1>6. (NoPrompt => NoPrompt') /\ LastPrompt' /\ QuietInput'
  BY <1>1, <1>2, PurgeKeeps DEF Prompted
<1>7. PromptsMatch'
  BY <1>1, <1>5, <1>6 DEF Prompted, PromptsMatch
<1>8. OwnText' /\ TextGiven'
  <2>1. phase' # "confirm"
    BY <1>1
  <2> QED
    <3>1. TextGiven'
      BY <2>1 DEF TextGiven
    <3>2. OwnText'
      <4>1. NoBody'
        BY <1>5
      <4> QED
        BY <4>1 DEF NoBody, OwnText
    <3> QED
      BY <3>1, <3>2
<1>9. OwnSubmit'
  BY <1>1, <1>3, <1>4, <1>5 DEF OwnSubmit, Msg
<1> QED
  BY <1>6, <1>7, <1>8, <1>9 DEF Prompted

LEMMA AwaitPromptPrompted ==
  ASSUME Typed, Prompted, AwaitPrompt
  PROVE  Prompted'
<1>1. phase = "prompt" /\ line # <<>> /\ line' = Tail(line) /\ dev' = dev
  BY DEF AwaitPrompt, modemVars
<1>2. todo # <<>> /\ ClientTyped /\ LinesTyped /\ WritesTyped
  BY <1>1, BusyTodo DEF Typed
<1>3. Purge /\ NoBody
  BY <1>1, <1>2, ReadPurges, BodyOnlyToConfirm DEF Prompted
<1>4. CASE Head(line).t = "error" /\ Failed /\ UNCHANGED tx
  <2>1. phase' \in {"idle", "send"} /\ tx' = tx
    BY <1>4 DEF Failed, Proceed
  <2> QED
    BY <1>1, <1>2, <1>3, <2>1, PromptedLeaves
<1>5. CASE Head(line).t \notin {"prompt", "error"} /\ UNCHANGED <<clientVars, tx>>
  BY <1>1, <1>2, <1>3, <1>5, PromptedWaits DEF clientVars
<1>6. CASE /\ Head(line).t = "prompt" /\ phase' = "confirm"
           /\ tx' = Append(tx, Written("body", Msg, Head(todo).part))
           /\ kinds' = kinds /\ todo' = todo /\ haveCmgs' = haveCmgs
  <2>1. /\ Len(line) \in Nat \ {0} /\ Head(line) = line[1] /\ Len(line') = Len(line) - 1
        /\ \A i \in 1 .. Len(line') : line'[i] = line[i + 1]
    BY <1>1, <1>2, TailFacts DEF LinesTyped
  <2>2. 1 \in 1 .. Len(line) /\ \A i \in 1 .. Len(line') : i + 1 \in 1 + 1 .. Len(line)
    BY <2>1
  <2>3. ~NoPrompt
    BY <1>6, <2>1, <2>2 DEF NoPrompt
  <2>4. dev.input # NoInput /\ NoTexts
    BY <2>3 DEF Prompted, PromptsMatch
  <2>5. \A i \in 1 .. Len(line') : line'[i].t = "data"
    BY <1>6, <2>1, <2>2 DEF Prompted, LastPrompt
  <2>6. NoPrompt' /\ LastPrompt' /\ QuietInput'
    BY <2>5 DEF NoPrompt, LastPrompt, QuietInput
  <2>7. PromptsMatch'
    BY <1>1, <2>4, <2>6 DEF PromptsMatch
  <2>8. PICK w \in WriteSet : w = Written("body", Msg, Head(todo).part) /\ w.cmd = "body"
    BY <1>2, WrittenFacts
  <2>9. /\ tx' # <<>> /\ Len(tx') = Len(tx) + 1 /\ Len(tx) \in Nat
        /\ \A k \in 1 .. Len(tx') : (k \in 1 .. Len(tx) /\ tx'[k] = tx[k]) \/ (k = Len(tx') /\ tx'[k] = w)
        /\ NoBody' <=> NoBody /\ w.cmd # "body"
    BY <1>2, <1>6, <2>8, TxGrows
  <2>10. OwnText'
    <3>1. ~haveCmgs
      BY <1>1, <1>2 DEF ClientTyped
    <3> QED
      BY <1>3, <1>6, <2>8, <2>9, <3>1 DEF NoBody, OwnText, Msg
  <2>11. TextGiven' /\ OwnSubmit'
    BY <1>6, <2>8, <2>9 DEF TextGiven, OwnSubmit
  <2> QED
    BY <2>6, <2>7, <2>10, <2>11 DEF Prompted
<1> QED
  BY <1>4, <1>5, <1>6 DEF AwaitPrompt

LEMMA BodyFailsPrompted ==
  ASSUME Typed, Prompted, BodyFails
  PROVE  Prompted'
<1>1. /\ phase = "prompt" /\ line # <<>> /\ line' = Tail(line) /\ dev' = dev
      /\ Head(line).t = "prompt" /\ phase' \in {"idle", "send"}
      /\ tx' = tx \/ tx' = Append(tx, Written("text", Msg, Head(todo).part))
  BY DEF BodyFails, modemVars, Failed, Proceed
<1>2. todo # <<>> /\ ClientTyped /\ LinesTyped /\ WritesTyped
  BY <1>1, BusyTodo DEF Typed
<1>3. Purge /\ NoBody
  BY <1>1, <1>2, ReadPurges, BodyOnlyToConfirm DEF Prompted
<1>4. CASE tx' = tx
  BY <1>1, <1>2, <1>3, <1>4, PromptedLeaves
<1>5. CASE tx' = Append(tx, Written("text", Msg, Head(todo).part))
  <2>1. /\ Len(line) \in Nat \ {0} /\ Head(line) = line[1] /\ Len(line') = Len(line) - 1
        /\ \A i \in 1 .. Len(line') : line'[i] = line[i + 1]
    BY <1>1, <1>2, TailFacts DEF LinesTyped
  <2>2. 1 \in 1 .. Len(line) /\ \A i \in 1 .. Len(line') : i + 1 \in 1 + 1 .. Len(line)
    BY <2>1
  <2>3. ~NoPrompt
    BY <1>1, <2>1, <2>2 DEF NoPrompt
  <2>4. dev.input # NoInput
    BY <2>3 DEF Prompted, PromptsMatch
  <2>5. \A i \in 1 .. Len(line') : line'[i].t = "data"
    BY <1>1, <2>1, <2>2 DEF Prompted, LastPrompt
  <2>6. NoPrompt' /\ LastPrompt' /\ QuietInput'
    BY <2>5 DEF NoPrompt, LastPrompt, QuietInput
  <2>7. PromptsMatch'
    BY <1>1, <2>4, <2>6 DEF PromptsMatch
  <2>8. PICK w \in WriteSet : w = Written("text", Msg, Head(todo).part) /\ w.cmd = "text"
    BY <1>2, WrittenFacts
  <2>9. NoBody'
    BY <1>2, <1>3, <1>5, <2>8, TxGrows
  <2>10. OwnText'
    BY <2>9 DEF NoBody, OwnText
  <2>11. TextGiven' /\ OwnSubmit'
    BY <1>1 DEF TextGiven, OwnSubmit
  <2> QED
    BY <2>6, <2>7, <2>10, <2>11 DEF Prompted
<1> QED
  BY <1>1, <1>4, <1>5

LEMMA AwaitConfirmationPrompted ==
  ASSUME Typed, Prompted, AwaitConfirmation
  PROVE  Prompted'
<1>1. phase = "confirm" /\ line # <<>> /\ line' = Tail(line) /\ dev' = dev /\ tx' = tx
  BY DEF AwaitConfirmation, modemVars
<1>2. LinesTyped /\ Purge
  BY <1>1, ReadPurges DEF Typed
<1>3. CASE Head(line).t \in {"ok", "error"} /\ (Succeeded \/ Failed)
  <2>1. phase' \in {"idle", "send"}
    BY <1>3 DEF Succeeded, Failed, Proceed
  <2>2. NoBody
    BY <1>1, <1>2, <1>3, BodyMeansReportFirst
  <2> QED
    BY <1>1, <1>2, <2>1, <2>2, PromptedLeaves
<1>4. CASE Head(line).t \notin {"cmgs", "ok", "error"} /\ UNCHANGED clientVars
  BY <1>1, <1>2, <1>4, PromptedWaits DEF clientVars
<1>5. CASE /\ Head(line).t = "cmgs" /\ phase' = phase /\ kinds' = kinds /\ todo' = todo
  <2>1. NoBody
    BY <1>1, <1>2, <1>5, BodyMeansReportFirst
  <2>2. (NoPrompt => NoPrompt') /\ LastPrompt' /\ QuietInput'
    BY <1>1, <1>2, PurgeKeeps DEF Prompted
  <2>3. (NoTexts <=> NoTexts') /\ (NoBody <=> NoBody')
    BY <1>1 DEF NoTexts, NoBody
  <2>4. PromptsMatch'
    BY <1>1, <2>2, <2>3 DEF Prompted, PromptsMatch
  <2>5. OwnText'
    BY <1>1, <2>1 DEF NoBody, OwnText
  <2>6. TextGiven' /\ OwnSubmit'
    BY <1>1, <1>5, <2>3 DEF Prompted, TextGiven, OwnSubmit
  <2> QED
    BY <2>2, <2>4, <2>5, <2>6 DEF Prompted
<1> QED
  BY <1>3, <1>4, <1>5 DEF AwaitConfirmation

LEMMA SilencePrompted ==
  ASSUME Typed, Prompted, TimesOut \/ GivesUp
  PROVE  Prompted'
<1>1. phase' \in {"idle", "send"} /\ tx' = tx /\ dev' = dev /\ line' = line
  BY DEF TimesOut, GivesUp, Failed, Proceed, modemVars
<1>2. LinesTyped /\ WritesTyped
  BY DEF Typed
<1>3. NoBody
  <2>1. CASE tx = <<>>
    BY <2>1 DEF NoBody
  <2>2. CASE tx # <<>>
    <3>1. \A i \in DOMAIN tx : tx[i].cmd # "body"
      BY <2>2 DEF TimesOut, GivesUp, Silent
    <3> QED
      BY <1>2, <3>1 DEF NoBody, WritesTyped
  <2> QED
    BY <2>1, <2>2
<1> QED
  BY <1>1, <1>2, <1>3, PromptedLeaves

\* A step of the modem that opens no prompt while it waits for no text.
LEMMA ClosedPrompted ==
  ASSUME WritesTyped, Prompted, tx # <<>>, tx' = Tail(tx), kinds' = kinds, todo' = todo,
         phase' = phase, haveCmgs' = haveCmgs,
         dev.input = NoInput, dev'.input = NoInput, NoPrompt'
  PROVE  Prompted'
<1>1. NoTexts
  BY DEF Prompted, PromptsMatch
<1>2. /\ Len(tx') = Len(tx) - 1 /\ Len(tx) \in Nat \ {0} /\ Len(tx') \in Nat
      /\ \A k \in 1 .. Len(tx') : k + 1 \in 1 .. Len(tx) /\ tx'[k] = tx[k + 1]
      /\ NoTexts <=> NoTexts' /\ Head(tx).cmd \notin Texts
  BY TxShrinks
<1>3. LastPrompt' /\ QuietInput'
  BY DEF NoPrompt, LastPrompt, QuietInput
<1>4. PromptsMatch' /\ NoTexts'
  BY <1>1, <1>2 DEF PromptsMatch
<1>5. OwnText'
  BY <1>4 DEF NoTexts, Texts, OwnText
<1>6. phase # "confirm"
  BY <1>1 DEF Prompted, TextGiven, NoTexts, NoBody, Texts
<1>7. TextGiven'
  BY <1>6 DEF TextGiven
<1>8. OwnSubmit'
  <2> SUFFICES ASSUME phase = "prompt", tx' # <<>>
               PROVE  tx'[Len(tx')] = Written("CMGS", Msg, Head(todo).part)
    BY DEF OwnSubmit, Msg
  <2>1. Len(tx') \in 1 .. Len(tx') /\ Len(tx') + 1 = Len(tx)
    BY <1>2
  <2>2. tx'[Len(tx')] = tx[Len(tx)]
    BY <1>2, <2>1
  <2> QED
    BY <2>2 DEF Prompted, OwnSubmit
<1> QED
  BY <1>3, <1>4, <1>5, <1>7, <1>8 DEF Prompted

LEMMA AnswersNoPrompt ==
  ASSUME NEW cmd \in Commands, dev \in DevSet, NEW answer \in Answers(cmd)
  PROVE  /\ answer \in Seq(LineSet)
         /\ \A i \in 1 .. Len(answer) : answer[i].t \in {"data", "ok"}
<1>1. answer \in Seq(LineSet)
  BY AnswersTyped
<1>2. cmd \in Names
  BY DEF Names
<1>3. OK(cmd).t = "ok"
  BY DEF OK, Line
<1>4. CASE cmd \in Queries
  <2>1. PICK v \in Says(cmd) : answer = <<Line("data", cmd, v), OK(cmd)>>
    BY <1>4 DEF Answers
  <2>2. v \in BOOLEAN
    BY DEF Says
  <2>3. Line("data", cmd, v).t = "data"
    BY <1>2, <2>2, OneLineTyped
  <2>4. Len(answer) = 2 /\ answer[1] = Line("data", cmd, v) /\ answer[2] = OK(cmd)
    BY <2>1
  <2> QED
    BY <1>1, <1>3, <2>3, <2>4
<1>5. CASE cmd \notin Queries
  <2>1. Len(answer) = 1 /\ answer[1] = OK(cmd)
    BY <1>5 DEF Answers
  <2> QED
    BY <1>1, <1>3, <2>1
<1> QED
  BY <1>4, <1>5

LEMMA JoinNoPrompt ==
  ASSUME LinesTyped, NoPrompt, NEW more \in Seq(LineSet),
         \A i \in 1 .. Len(more) : more[i].t # "prompt",
         line' = line \o more
  PROVE  NoPrompt'
<1>1. /\ line \in Seq(LineSet) /\ Len(line) \in Nat /\ Len(more) \in Nat
      /\ Len(line') = Len(line) + Len(more)
      /\ \A i \in 1 .. Len(line) : line'[i] = line[i]
      /\ \A i \in 1 .. Len(more) : line'[Len(line) + i] = more[i]
  BY JoinFacts DEF LinesTyped
<1>2. ASSUME NEW i \in 1 .. Len(line') PROVE line'[i].t # "prompt"
  <2>1. CASE i \in 1 .. Len(line)
    BY <1>1, <2>1 DEF NoPrompt
  <2>2. CASE i \notin 1 .. Len(line)
    <3>1. i - Len(line) \in 1 .. Len(more) /\ Len(line) + (i - Len(line)) = i
      BY <1>1, <2>2
    <3> QED
      BY <1>1, <3>1
  <2> QED
    BY <2>1, <2>2
<1> QED
  BY <1>2 DEF NoPrompt

LEMMA AppendNoPrompt ==
  ASSUME LinesTyped, NoPrompt, NEW e \in LineSet, e.t # "prompt", line' = Append(line, e)
  PROVE  NoPrompt'
<1>1. /\ Len(line) \in Nat /\ Len(line') = Len(line) + 1 /\ line'[Len(line) + 1] = e
      /\ \A i \in 1 .. Len(line) : line'[i] = line[i]
  BY AppendFacts DEF LinesTyped
<1>2. \A i \in 1 .. Len(line') : i \in 1 .. Len(line) \/ i = Len(line) + 1
  BY <1>1
<1> QED
  BY <1>1, <1>2 DEF NoPrompt

LEMMA ModemAnswersPrompted ==
  ASSUME Typed, Prompted, ModemAnswers
  PROVE  Prompted'
<1> DEFINE w == Head(tx)
<1>1. /\ tx # <<>> /\ tx' = Tail(tx) /\ kinds' = kinds /\ todo' = todo /\ phase' = phase
      /\ haveCmgs' = haveCmgs
  BY DEF ModemAnswers, clientVars
<1>2. LinesTyped /\ WritesTyped /\ line \in Seq(LineSet) /\ dev \in DevSet
  BY DEF Typed, LinesTyped, ModemTyped
<1>3. w \in WriteSet /\ w.cmd \in Commands \cup Texts /\ w.cmd \in Names /\ w # NoInput
  <2>1. w \in WriteSet
    BY <1>1, <1>2, WritesShrink
  <2> QED
    BY <2>1, CommandsAreNoTexts DEF WriteSet, Texts, Names, NoInput, Written
<1>4. /\ Len(tx') = Len(tx) - 1 /\ Len(tx) \in Nat \ {0} /\ Head(tx) = tx[1] /\ Len(tx') \in Nat
      /\ \A k \in 1 .. Len(tx') : k + 1 \in 1 .. Len(tx) /\ tx'[k] = tx[k + 1]
      /\ NoTexts <=> NoTexts' /\ w.cmd \notin Texts
      /\ NoBody <=> NoBody' /\ w.cmd # "body"
  BY <1>1, <1>2, TxShrinks
<1>5. CASE dev.input # NoInput /\ TakesText(w)
  <2>1. /\ w.cmd = "body" /\ dev' = [dev EXCEPT !.input = NoInput, !.clean = TRUE]
        /\ line' = line \o <<Line("cmgs", w.cmd, FALSE), OK(w.cmd)>>
    BY <1>5 DEF TakesText
  <2>2. 1 = Len(tx) /\ phase = "confirm"
    <3>1. 1 \in 1 .. Len(tx) /\ tx[1].cmd = "body"
      BY <1>4, <2>1
    <3> QED
      BY <3>1 DEF Prompted, OwnText
  <2>3. Len(tx') = 0 /\ tx' = <<>>
    BY <1>1, <1>2, <1>4, <2>2 DEF WritesTyped
  <2>4. NoPrompt
    BY <1>2, <1>4, <2>1, BodyMeansReports
  <2>5. NoPrompt'
    <3>1. PICK a \in LineSet, b \in LineSet :
            a.t # "prompt" /\ b.t # "prompt" /\ line' = line \o <<a, b>>
      BY <1>3, <2>1, OneLineTyped DEF OK
    <3>2. <<a, b>> \in Seq(LineSet) /\ Len(<<a, b>>) = 2
          /\ \A i \in 1 .. 2 : <<a, b>>[i].t # "prompt"
      BY <3>1
    <3> QED
      BY <1>2, <2>4, <3>1, <3>2, JoinNoPrompt
  <2>6. NoTexts' /\ NoBody' /\ dev'.input = NoInput
    BY <1>2, <2>1, <2>3 DEF NoTexts, NoBody, DevSet
  <2> QED
    BY <1>1, <2>2, <2>3, <2>5, <2>6
    DEF Prompted, PromptsMatch, NoPrompt, LastPrompt, QuietInput, NoBody, OwnText, TextGiven, OwnSubmit
<1>6. CASE dev.input # NoInput /\ Swallowed(w)
  <2>1. w.cmd # "body" /\ dev' = [dev EXCEPT !.clean = FALSE] /\ line' = line
    BY <1>6 DEF Swallowed
  <2>2. dev'.input = dev.input
    BY <1>2, <2>1 DEF DevSet
  <2>3. LastPrompt' /\ QuietInput' /\ (NoPrompt' <=> NoPrompt)
    BY <2>1, <2>2 DEF Prompted, LastPrompt, QuietInput, NoPrompt
  <2>4. PromptsMatch'
    BY <1>4, <2>2, <2>3 DEF Prompted, PromptsMatch
  <2>5. OwnText'
    <3> SUFFICES ASSUME NEW k \in 1 .. Len(tx'), tx'[k].cmd = "body"
                 PROVE  /\ k = Len(tx') /\ phase = "confirm" /\ ~haveCmgs
                        /\ tx'[k] = Written("body", Msg, Head(todo).part)
      BY <1>1 DEF OwnText, Msg
    <3>1. k + 1 \in 1 .. Len(tx) /\ tx'[k] = tx[k + 1]
      BY <1>4
    <3>2. k + 1 = Len(tx) /\ phase = "confirm" /\ ~haveCmgs
          /\ tx[k + 1] = Written("body", Msg, Head(todo).part)
      BY <3>1 DEF Prompted, OwnText
    <3> QED
      BY <1>4, <3>1, <3>2
  <2>6. TextGiven'
    BY <1>1, <1>4, <2>1 DEF Prompted, TextGiven
  <2>7. OwnSubmit'
    <3> SUFFICES ASSUME phase = "prompt", tx' # <<>>
                 PROVE  tx'[Len(tx')] = Written("CMGS", Msg, Head(todo).part)
      BY <1>1 DEF OwnSubmit, Msg
    <3>1. Len(tx') # 0
      BY <1>1, <1>2 DEF WritesTyped
    <3>2. Len(tx') \in 1 .. Len(tx') /\ Len(tx') + 1 = Len(tx)
      BY <1>4, <3>1
    <3>3. tx'[Len(tx')] = tx[Len(tx)]
      BY <1>4, <3>2
    <3> QED
      BY <1>1, <3>3 DEF Prompted, OwnSubmit
  <2> QED
    BY <2>3, <2>4, <2>5, <2>6, <2>7 DEF Prompted
<1>7. CASE dev.input = NoInput /\ Command(w)
  <2>1. /\ w.cmd \in Commands /\ dev' = Effect(w.cmd)
        /\ \E answer \in Answers(w.cmd) : line' = line \o answer
    BY <1>3, <1>7 DEF Command, Texts
  <2>2. dev'.input = NoInput
    BY <1>2, <1>7, <2>1, EffectTyped
  <2>3. NoPrompt'
    <3>1. PICK cmd \in Commands : cmd = w.cmd
      BY <2>1
    <3>2. PICK answer \in Answers(cmd) : line' = line \o answer
      BY <2>1, <3>1
    <3>3. answer \in Seq(LineSet) /\ \A i \in 1 .. Len(answer) : answer[i].t # "prompt"
      BY <1>2, AnswersNoPrompt
    <3> QED
      BY <1>2, <1>7, <3>2, <3>3, JoinNoPrompt DEF Prompted, PromptsMatch
  <2> QED
    BY <1>1, <1>2, <1>7, <2>2, <2>3, ClosedPrompted
<1>8. ASSUME dev.input = NoInput, dev' = dev, line' = Append(line, Error(w.cmd))
      PROVE  Prompted'
  <2>1. PICK e \in LineSet : e = Error(w.cmd) /\ e.t # "prompt"
    BY <1>3, OneLineTyped DEF Error
  <2>2. NoPrompt'
    BY <1>2, <1>8, <2>1, AppendNoPrompt DEF Prompted, PromptsMatch
  <2> QED
    BY <1>1, <1>2, <1>8, <2>2, ClosedPrompted
<1>9. CASE /\ dev.input = NoInput /\ dev' = [dev EXCEPT !.input = w, !.clean = TRUE]
           /\ line' = Append(line, Line("prompt", w.cmd, FALSE))
  <2>1. NoPrompt /\ NoTexts /\ dev'.input # NoInput
    BY <1>2, <1>3, <1>9 DEF Prompted, PromptsMatch, DevSet
  <2>2. PICK e \in LineSet : e = Line("prompt", w.cmd, FALSE) /\ e.t = "prompt"
    <3>1. PICK cmd \in Names : cmd = w.cmd
      BY <1>3
    <3>2. Line("prompt", cmd, FALSE) \in LineSet /\ Line("prompt", cmd, FALSE).t = "prompt"
      BY OneLineTyped
    <3> QED
      BY <3>1, <3>2
  <2>3. /\ Len(line) \in Nat /\ Len(line') = Len(line) + 1 /\ line'[Len(line) + 1] = e
        /\ \A i \in 1 .. Len(line) : line'[i] = line[i]
    <3>1. line' = Append(line, e)
      BY <1>9, <2>2
    <3>2. line \in Seq(LineSet)
      BY <1>2
    <3> QED
      BY <3>1, <3>2, AppendFacts
  <2>4. \A i \in 1 .. Len(line') : i \in 1 .. Len(line) \/ i = Len(line')
    BY <2>3
  <2>5. \A i \in 1 .. Len(line) : line'[i].t # "prompt"
    BY <2>1, <2>3 DEF NoPrompt
  <2>6. LastPrompt'
    <3>1. \A j \in Len(line') + 1 .. Len(line') : FALSE
      BY <2>3
    <3> QED
      BY <2>4, <2>5, <3>1 DEF LastPrompt
  <2>7. QuietInput'
    <3>1. \A i \in 1 .. Len(line) : Len(line') \in i + 1 .. Len(line')
      BY <2>3
    <3>2. line'[Len(line')].t = "prompt"
      BY <2>2, <2>3
    <3> QED
      BY <2>4, <3>1, <3>2 DEF QuietInput
  <2>8. PromptsMatch' /\ NoTexts'
    BY <1>4, <2>1 DEF PromptsMatch
  <2>9. NoBody' /\ phase # "confirm"
    <3>1. NoBody
      BY <2>1 DEF NoTexts, NoBody, Texts
    <3> QED
      BY <1>1, <1>4, <3>1 DEF Prompted, TextGiven
  <2>10. OwnText' /\ TextGiven'
    BY <1>1, <2>9 DEF NoBody, OwnText, TextGiven
  <2>11. OwnSubmit'
    <3> SUFFICES ASSUME phase = "prompt", tx' # <<>>
                 PROVE  tx'[Len(tx')] = Written("CMGS", Msg, Head(todo).part)
      BY <1>1 DEF OwnSubmit, Msg
    <3>1. Len(tx') # 0
      BY <1>1, <1>2 DEF WritesTyped
    <3>2. Len(tx') \in 1 .. Len(tx') /\ Len(tx') + 1 = Len(tx)
      BY <1>4, <3>1
    <3>3. tx'[Len(tx')] = tx[Len(tx)]
      BY <1>4, <3>2
    <3> QED
      BY <1>1, <3>3 DEF Prompted, OwnSubmit
  <2> QED
    BY <2>6, <2>7, <2>8, <2>10, <2>11 DEF Prompted
<1>10. CASE dev.input = NoInput /\ OpensInput(w)
  BY <1>8, <1>9, <1>10 DEF OpensInput
<1>11. CASE /\ dev.input = NoInput /\ w.cmd \in {"body", "text"}
            /\ line' = Append(line, Error(w.cmd)) /\ UNCHANGED <<modemVars, unset>>
  BY <1>8, <1>11 DEF modemVars
<1> QED
  BY <1>5, <1>6, <1>7, <1>10, <1>11 DEF ModemAnswers

LEMMA ModemRefusesPrompted ==
  ASSUME Typed, Prompted, ModemRefuses
  PROVE  Prompted'
<1>1. /\ tx # <<>> /\ tx' = Tail(tx) /\ kinds' = kinds /\ todo' = todo /\ phase' = phase
      /\ haveCmgs' = haveCmgs /\ line' = Append(line, Error(Head(tx).cmd))
  BY DEF ModemRefuses, clientVars
<1>2. LinesTyped /\ WritesTyped /\ dev \in DevSet
  BY DEF Typed, ModemTyped
<1>3. PICK e \in LineSet : e = Error(Head(tx).cmd) /\ e.t # "prompt"
  <2>1. Head(tx) \in WriteSet
    BY <1>1, <1>2, WritesShrink
  <2> QED
    BY <2>1, OneLineTyped DEF WriteSet, Names, Error
<1>4. NoPrompt => NoPrompt'
  BY <1>1, <1>2, <1>3, AppendNoPrompt
<1>5. /\ Len(tx') = Len(tx) - 1 /\ Len(tx) \in Nat \ {0} /\ Head(tx) = tx[1] /\ Len(tx') \in Nat
      /\ NoBody <=> NoBody' /\ Head(tx).cmd # "body"
  BY <1>1, <1>2, TxShrinks
<1>6. CASE dev.input = NoInput /\ dev' = dev
  BY <1>1, <1>2, <1>4, <1>6, ClosedPrompted DEF Prompted, PromptsMatch
<1>7. CASE Head(tx).cmd = "body" /\ dev' = [dev EXCEPT !.input = NoInput, !.clean = TRUE]
  <2>1. 1 = Len(tx) /\ phase = "confirm"
    <3>1. 1 \in 1 .. Len(tx) /\ tx[1].cmd = "body"
      BY <1>5, <1>7
    <3> QED
      BY <3>1 DEF Prompted, OwnText
  <2>2. Len(tx') = 0 /\ tx' = <<>>
    BY <1>1, <1>2, <1>5, <2>1 DEF WritesTyped
  <2>3. NoPrompt'
    BY <1>2, <1>4, <1>5, <1>7, BodyMeansReports
  <2>4. NoTexts' /\ NoBody' /\ dev'.input = NoInput
    BY <1>2, <1>7, <2>2 DEF NoTexts, NoBody, DevSet
  <2> QED
    BY <1>1, <2>1, <2>2, <2>3, <2>4
    DEF Prompted, PromptsMatch, NoPrompt, LastPrompt, QuietInput, NoBody, OwnText, TextGiven, OwnSubmit
<1> QED
  BY <1>6, <1>7 DEF ModemRefuses

LEMMA UrcPrompted ==
  ASSUME Typed, Prompted, Urc
  PROVE  Prompted'
<1>1. /\ kinds' = kinds /\ todo' = todo /\ phase' = phase /\ haveCmgs' = haveCmgs /\ tx' = tx
      /\ dev' = dev
  BY DEF Urc, clientVars, modemVars
<1>2. PICK i \in 1 .. Len(line) + 1 : line' = InsertAt(line, i, Line("data", "urc", FALSE))
  BY DEF Urc
<1>3. Line("data", "urc", FALSE) \in LineSet /\ Line("data", "urc", FALSE).t = "data"
  <2>1. "urc" \in Names
    BY DEF Names
  <2> QED
    BY <2>1, OneLineTyped DEF Line
<1>4. (NoPrompt <=> NoPrompt') /\ LastPrompt' /\ QuietInput'
  BY <1>1, <1>2, <1>3, ReportKeeps DEF Typed, Prompted
<1>5. (NoTexts <=> NoTexts') /\ (NoBody <=> NoBody')
  BY <1>1 DEF NoTexts, NoBody
<1>6. PromptsMatch'
  BY <1>1, <1>4, <1>5 DEF Prompted, PromptsMatch
<1>7. OwnText' /\ OwnSubmit' /\ TextGiven'
  BY <1>1, <1>5 DEF Prompted, OwnText, OwnSubmit, TextGiven, Msg
<1> QED
  BY <1>4, <1>6, <1>7 DEF Prompted

LEMMA PromptedStep == Typed /\ Prompted /\ [Next]_vars => Prompted'
<1> SUFFICES ASSUME Typed, Prompted, [Next]_vars PROVE Prompted'
  OBVIOUS
<1>1. LinesTyped /\ ClientTyped
  BY DEF Typed
<1>2. phase # "confirm" => NoBody
  BY BodyOnlyToConfirm DEF Prompted
<1>3. CASE \E kind \in Kinds : Start(kind)
  <2>1. phase = "idle" /\ phase' = "send" /\ tx' = tx /\ dev' = dev /\ line' = line
    BY <1>3 DEF Start, modemVars
  <2> QED
    BY <1>1, <1>2, <2>1, PromptedLeaves
<1>4. CASE RestartGnssTask \/ UNCHANGED vars
  <2>1. /\ kinds' = kinds /\ todo' = todo /\ phase' = phase /\ haveCmgs' = haveCmgs /\ tx' = tx
        /\ dev' = dev /\ line' = line
    BY <1>4 DEF RestartGnssTask, vars, clientVars, modemVars
  <2> QED
    BY <1>1, <2>1, PromptedWaits
<1>5. CASE Reply
  <2>1. phase = "reply" /\ line # <<>> /\ line' = Tail(line) /\ tx' = tx /\ dev' = dev
    BY <1>5 DEF Reply, modemVars
  <2>2. phase' \in {"idle", "send", "reply"}
    BY <1>5 DEF Reply, Succeeded, Failed, Proceed
  <2>3. Purge
    BY <1>1, <2>1, ReadPurges
  <2> QED
    BY <1>1, <1>2, <2>1, <2>2, <2>3, PromptedLeaves
<1>6. CASE SendFails
  <2>1. phase = "send" /\ Purge /\ tx' = tx /\ dev' = dev
    BY <1>6 DEF SendFails, modemVars
  <2>2. phase' \in {"idle", "send", "reply"}
    BY <1>6 DEF SendFails, Proceed
  <2> QED
    BY <1>1, <1>2, <2>1, <2>2, PromptedLeaves
<1>7. CASE Send \/ AwaitPrompt \/ AwaitConfirmation \/ TimesOut
  BY <1>7, SendPrompted, AwaitPromptPrompted, AwaitConfirmationPrompted, SilencePrompted
<1>8. CASE BodyFails \/ GivesUp \/ ModemAnswers \/ ModemRefuses \/ Urc
  BY <1>8, BodyFailsPrompted, SilencePrompted, ModemAnswersPrompted, ModemRefusesPrompted, UrcPrompted
<1> QED
  BY <1>3, <1>4, <1>5, <1>6, <1>7, <1>8 DEF Next, Client

\* The line discipline of prompts and texts holds in every reachable state.
THEOREM PromptInvariant == Spec => []Prompted
<1>1. Init => Prompted
  BY PromptedInit
<1>2. Typed /\ Prompted /\ [Next]_vars => Prompted'
  BY PromptedStep
<1> QED
  BY <1>1, <1>2, TypeInvariant, PTL DEF Spec

-----------------------------------------------------------------------------
(* The receive settings. *)

Settings == {"mode", "charset"}

\* The command of a send that takes a setting away, and the one that gives it back.
Away(set) == IF set = "mode" THEN "CMGF=0" ELSE "CSCS=GSM"
Back(set) == IF set = "mode" THEN "CMGF=1" ELSE "CSCS=UCS2"

IsBack(set) == IF set = "mode" THEN dev.mode = "text" ELSE dev.charset = "UCS2"

\* A send has taken the setting away, or is about to know that it did, and has
\* yet to write the command that gives it back.
InUse(set) ==
  /\ todo # <<>>
  /\ IF set = "mode"
     THEN /\ Kind = "long"
          /\ \/ Len(todo) = Parts + 3 /\ phase # "send"
             \/ Len(todo) \in 3 .. Parts + 2
             \/ Len(todo) = 2 /\ phase = "send"
     ELSE /\ Kind = "gsm"
          /\ \/ Len(todo) = 4 /\ phase # "send"
             \/ Len(todo) \in 2 .. 3
             \/ Len(todo) = 1 /\ phase = "send"

\* A modem that is not given a text reads, after each command that takes the setting
\* away, one that gives it back; and with none of those to come the setting is back.
FollowedByBack(set) ==
  dev.input = NoInput =>
    \A k \in 1 .. Len(tx) : tx[k].cmd = Away(set) =>
      set \in unset \/ \E j \in k + 1 .. Len(tx) : tx[j].cmd = Back(set)
BackAtLast(set) ==
  (\A k \in 1 .. Len(tx) : tx[k].cmd # Back(set)) => set \in unset \/ IsBack(set)

Restored == \A set \in Settings : ~InUse(set) => FollowedByBack(set) /\ BackAtLast(set)

-----------------------------------------------------------------------------

LEMMA SettingNames ==
  ASSUME NEW set \in Settings
  PROVE  /\ Away(set) \in SendOnly \ Texts /\ Back(set) \in Commands
         /\ Back(set) \notin Texts /\ Back(set) # "CMGS" /\ Away(set) # "CMGS"
         /\ Away(set) # Back(set)
         /\ Concerns(Back(set)) = {set}
         /\ \A cmd : cmd # Back(set) => set \notin Concerns(cmd)
<1>1. CASE set = "mode"
  BY <1>1 DEF Away, Back, SendOnly, Texts, Commands, Concerns
<1>2. CASE set = "charset"
  BY <1>2 DEF Away, Back, SendOnly, Texts, Commands, Concerns
<1> QED
  BY <1>1, <1>2 DEF Settings

\* Only the long send takes the mode away and only the GSM one the charset, each
\* with a step of its own.
LEMMA AwayHead ==
  ASSUME ScriptedAs(todo), todo # <<>>, NEW set \in Settings, Head(todo).cmd = Away(set)
  PROVE  IF set = "mode" THEN Kind = "long" /\ Len(todo) = Parts + 3
         ELSE Kind = "gsm" /\ Len(todo) = 4
<1>1. Away(set) \in SendOnly
  BY SettingNames
<1>2. Kind \in Sends
  <2> SUFFICES ASSUME Kind \notin Sends PROVE FALSE
    OBVIOUS
  <2>1. todo \in Seq(PlainSteps)
    BY DEF ScriptedAs
  <2>2. Head(todo) \in PlainSteps
    BY <2>1
  <2> QED
    BY <1>1, <2>2 DEF PlainSteps
<1>3. Parts \in Nat
  BY AtDialogAssumption
<1>4. CASE Kind = "gsm"
  <2>1. Len(todo) \in 1 .. 6
    BY <1>4, GsmHead
  <2>2. Len(todo) # 4 => Head(todo).cmd \notin {"CMGF=0", "CSCS=GSM"}
    BY <1>4, <2>1, GsmHead DEF StepIs
  <2>3. Len(todo) = 4 => Head(todo).cmd = "CSCS=GSM"
    BY <1>4, GsmHead DEF StepIs
  <2> QED
    BY <1>4, <2>2, <2>3 DEF Away, Settings
<1>5. CASE Kind = "ucs2"
  <2>1. Len(todo) \in 1 .. 5
    BY <1>5, Ucs2Head
  <2>2. Head(todo).cmd \notin {"CMGF=0", "CSCS=GSM"}
    BY <1>5, <2>1, Ucs2Head DEF StepIs
  <2> QED
    BY <2>2 DEF Away, Settings
<1>6. CASE Kind = "long"
  <2>1. Len(todo) \in 1 .. Parts + 4
    BY <1>6, LongHead
  <2>2. \/ Len(todo) = 1 \/ Len(todo) = 2 \/ Len(todo) \in 3 .. Parts + 2
        \/ Len(todo) = Parts + 3 \/ Len(todo) = Parts + 4
    BY <2>1, LongCases
  <2>3. Len(todo) # Parts + 3 => Head(todo).cmd \notin {"CMGF=0", "CSCS=GSM"}
    BY <1>6, <2>2, LongHead DEF StepIs
  <2>4. Len(todo) = Parts + 3 => Head(todo).cmd = "CMGF=0"
    BY <1>6, LongHead DEF StepIs
  <2> QED
    BY <1>6, <2>3, <2>4 DEF Away, Settings
<1> QED
  BY <1>2, <1>4, <1>5, <1>6 DEF Sends

\* The step that gives a setting back is the only one to be written without the
\* setting staying in use.
LEMMA LastUse ==
  ASSUME ScriptedAs(todo), todo # <<>>, NEW set \in Settings, InUse(set)
  PROVE  /\ Kind \in Sends
         /\ phase = "send" /\ Head(todo).cmd # Back(set) =>
              IF set = "mode" THEN Len(todo) \in 3 .. Parts + 2 ELSE Len(todo) \in 2 .. 3
         /\ phase # "send" =>
              IF set = "mode" THEN Len(todo) \in 3 .. Parts + 3 ELSE Len(todo) \in 2 .. 4
<1>0. Parts \in Nat
  BY AtDialogAssumption
<1>1. CASE set = "mode"
  <2>1. Kind = "long"
    BY <1>1 DEF InUse
  <2>2. Len(todo) = 2 => Head(todo).cmd = "CMGF=1"
    BY <2>1, LongHead
  <2> QED
    BY <1>0, <1>1, <2>1, <2>2 DEF InUse, Back, Sends
<1>2. CASE set = "charset"
  <2>1. Kind = "gsm"
    BY <1>2 DEF InUse
  <2>2. Len(todo) = 1 => Head(todo).cmd = "CSCS=UCS2"
    BY <2>1, GsmHead
  <2> QED
    BY <1>2, <2>1, <2>2 DEF InUse, Back, Sends
<1> QED
  BY <1>1, <1>2 DEF Settings

\* While a setting is in use, no end of a step but that of the step that gives it
\* back ends its use.
LEMMA StillInUse ==
  ASSUME ClientTyped, todo # <<>>, NEW set \in Settings, InUse(set), kinds' = kinds,
         \/ phase # "send" /\ todo' \in {Follow(TRUE), Follow(FALSE)}
         \/ phase = "send" /\ Head(todo).cmd # Back(set) /\ todo' = Unsent,
         phase' = IF todo' = <<>> THEN "idle" ELSE "send"
  PROVE  InUse(set)'
<1>0. Parts \in Nat /\ ScriptedAs(todo) /\ Kind \in Sends /\ Kind' = Kind
  BY AtDialogAssumption, LastUse DEF ClientTyped, Kind
<1>1. /\ Len(Follow(TRUE)) = Len(todo) - 1
      /\ Len(Follow(FALSE)) = LeftAfterFailure(Kind, Len(todo))
      /\ Len(Unsent) = LeftAfterUnsent(Kind, Len(todo))
  BY <1>0, SendFollow
<1>2. Len(todo') # 0 => todo' # <<>>
  OBVIOUS
<1>3. CASE set = "mode"
  <2>1. Kind = "long"
    BY <1>3 DEF InUse
  <2>2. /\ phase = "send" /\ Head(todo).cmd # Back(set) => Len(todo) \in 3 .. Parts + 2
        /\ phase # "send" => Len(todo) = Parts + 3 \/ Len(todo) \in 3 .. Parts + 2
    <3>1. /\ phase = "send" /\ Head(todo).cmd # Back(set) => Len(todo) \in 3 .. Parts + 2
          /\ phase # "send" => Len(todo) \in 3 .. Parts + 3
      BY <1>0, <1>3, LastUse
    <3> QED
      BY <1>0, <3>1
  <2>3. /\ phase # "send" => LeftAfterFailure("long", Len(todo)) = 2
        /\ phase = "send" /\ Head(todo).cmd # Back(set) => LeftAfterUnsent("long", Len(todo)) = 2
    BY <2>2, LeftValues
  <2>4. Len(todo') = 2 \/ Len(todo') \in 3 .. Parts + 2
    <3>1. CASE phase # "send" /\ todo' = Follow(TRUE)
      <4>1. \A n \in Nat : n = Parts + 3 \/ n \in 3 .. Parts + 2 =>
                             n - 1 = 2 \/ n - 1 \in 3 .. Parts + 2
        BY <1>0
      <4>2. Len(todo) \in Nat /\ (Len(todo) = Parts + 3 \/ Len(todo) \in 3 .. Parts + 2)
        BY <1>0, <2>2, <3>1
      <4>3. Len(todo') = Len(todo) - 1
        BY <1>1, <3>1
      <4> QED
        BY <4>1, <4>2, <4>3
    <3>2. CASE phase # "send" /\ todo' = Follow(FALSE)
      BY <1>1, <2>1, <2>3, <3>2
    <3>3. CASE phase = "send" /\ Head(todo).cmd # Back(set) /\ todo' = Unsent
      BY <1>1, <2>1, <2>3, <3>3
    <3> QED
      BY <3>1, <3>2, <3>3
  <2>5. todo' # <<>> /\ phase' = "send"
    <3>1. Len(todo') # 0
      BY <1>0, <2>4
    <3> QED
      BY <1>2, <3>1
  <2> QED
    BY <1>0, <1>3, <2>1, <2>4, <2>5 DEF InUse
<1>4. CASE set = "charset"
  <2>1. Kind = "gsm"
    BY <1>4 DEF InUse
  <2>2. /\ phase = "send" /\ Head(todo).cmd # Back(set) => Len(todo) \in 2 .. 3
        /\ phase # "send" => Len(todo) = 4 \/ Len(todo) \in 2 .. 3
    <3>1. /\ phase = "send" /\ Head(todo).cmd # Back(set) => Len(todo) \in 2 .. 3
          /\ phase # "send" => Len(todo) \in 2 .. 4
      BY <1>0, <1>4, LastUse
    <3> QED
      BY <3>1
  <2>3. /\ phase # "send" => LeftAfterFailure("gsm", Len(todo)) = 1
        /\ phase = "send" /\ Head(todo).cmd # Back(set) => LeftAfterUnsent("gsm", Len(todo)) = 1
    BY <2>2, LeftValues
  <2>4. Len(todo') = 1 \/ Len(todo') \in 2 .. 3
    <3>1. CASE phase # "send" /\ todo' = Follow(TRUE)
      <4>1. \A n : n = 4 \/ n \in 2 .. 3 => n - 1 = 1 \/ n - 1 \in 2 .. 3
        OBVIOUS
      <4>2. Len(todo) = 4 \/ Len(todo) \in 2 .. 3
        BY <2>2, <3>1
      <4>3. Len(todo') = Len(todo) - 1
        BY <1>1, <3>1
      <4> QED
        BY <4>1, <4>2, <4>3
    <3>2. CASE phase # "send" /\ todo' = Follow(FALSE)
      BY <1>1, <2>1, <2>3, <3>2
    <3>3. CASE phase = "send" /\ Head(todo).cmd # Back(set) /\ todo' = Unsent
      BY <1>1, <2>1, <2>3, <3>3
    <3> QED
      BY <3>1, <3>2, <3>3
  <2>5. todo' # <<>> /\ phase' = "send"
    <3>1. Len(todo') # 0
      BY <2>4
    <3> QED
      BY <1>2, <3>1
  <2> QED
    BY <1>0, <1>4, <2>1, <2>4, <2>5 DEF InUse
<1> QED
  BY <1>3, <1>4 DEF Settings

\* Nothing is written, and the modem does nothing.
LEMMA NothingWritten ==
  ASSUME NEW set \in Settings, FollowedByBack(set), BackAtLast(set), tx' = tx, dev' = dev,
         set \in unset => set \in unset'
  PROVE  FollowedByBack(set)' /\ BackAtLast(set)'
BY DEF FollowedByBack, BackAtLast, IsBack

LEMMA StaysUnset ==
  ASSUME NEW set \in Settings, set \in unset'
  PROVE  FollowedByBack(set)' /\ BackAtLast(set)'
BY DEF FollowedByBack, BackAtLast

\* The command that gives the setting back is written, whatever went before.
LEMMA BackWritten ==
  ASSUME NEW set \in Settings, WritesTyped, NEW w \in WriteSet, tx' = Append(tx, w),
         w.cmd = Back(set)
  PROVE  FollowedByBack(set)' /\ BackAtLast(set)'
<1>1. /\ Len(tx') = Len(tx) + 1 /\ Len(tx) \in Nat /\ tx'[Len(tx')] = w
      /\ \A k \in 1 .. Len(tx') : (k \in 1 .. Len(tx) /\ tx'[k] = tx[k]) \/ (k = Len(tx') /\ tx'[k] = w)
  BY TxGrows
<1>2. Len(tx') \in 1 .. Len(tx')
  BY <1>1
<1>3. \A k \in 1 .. Len(tx') : k # Len(tx') => Len(tx') \in k + 1 .. Len(tx')
  BY <1>1
<1>4. tx'[Len(tx')].cmd # Away(set)
  BY <1>1, SettingNames
<1>5. BackAtLast(set)'
  BY <1>1, <1>2 DEF BackAtLast
<1>6. FollowedByBack(set)'
  BY <1>1, <1>3, <1>4 DEF FollowedByBack
<1> QED
  BY <1>5, <1>6

\* Something else is written.
LEMMA OtherWritten ==
  ASSUME NEW set \in Settings, WritesTyped, NEW w \in WriteSet, tx' = Append(tx, w),
         w.cmd # Back(set), w.cmd # Away(set), dev' = dev, set \in unset => set \in unset',
         FollowedByBack(set), BackAtLast(set)
  PROVE  FollowedByBack(set)' /\ BackAtLast(set)'
<1>1. /\ Len(tx') = Len(tx) + 1 /\ Len(tx) \in Nat /\ tx'[Len(tx')] = w
      /\ \A k \in 1 .. Len(tx) : tx'[k] = tx[k]
      /\ \A k \in 1 .. Len(tx') : (k \in 1 .. Len(tx) /\ tx'[k] = tx[k]) \/ (k = Len(tx') /\ tx'[k] = w)
  BY TxGrows
<1>2. BackAtLast(set)'
  <2> SUFFICES ASSUME \A k \in 1 .. Len(tx') : tx'[k].cmd # Back(set)
               PROVE  set \in unset' \/ IsBack(set)'
    BY DEF BackAtLast
  <2>1. \A k \in 1 .. Len(tx) : k \in 1 .. Len(tx')
    BY <1>1
  <2>2. \A k \in 1 .. Len(tx) : tx[k].cmd # Back(set)
    BY <1>1, <2>1
  <2> QED
    BY <2>2 DEF BackAtLast, IsBack
<1>3. FollowedByBack(set)'
  <2> SUFFICES ASSUME dev'.input = NoInput, NEW k \in 1 .. Len(tx'), tx'[k].cmd = Away(set)
               PROVE  set \in unset' \/ \E j \in k + 1 .. Len(tx') : tx'[j].cmd = Back(set)
    BY DEF FollowedByBack
  <2>1. k \in 1 .. Len(tx) /\ tx[k].cmd = Away(set)
    BY <1>1
  <2>2. CASE set \in unset
    BY <2>2
  <2>3. CASE set \notin unset
    <3>1. PICK j \in k + 1 .. Len(tx) : tx[j].cmd = Back(set)
      BY <2>1, <2>3 DEF FollowedByBack
    <3>2. j \in 1 .. Len(tx) /\ j \in k + 1 .. Len(tx')
      BY <1>1, <2>1
    <3> QED
      BY <1>1, <3>1, <3>2
  <2> QED
    BY <2>2, <2>3
<1> QED
  BY <1>2, <1>3

LEMMA SendRestores ==
  ASSUME Typed, Restored, Send
  PROVE  Restored'
<1> SUFFICES ASSUME NEW set \in Settings, ~InUse(set)'
             PROVE  FollowedByBack(set)' /\ BackAtLast(set)'
  BY DEF Restored
<1>1. /\ phase = "send" /\ phase' \in {"prompt", "reply"} /\ kinds' = kinds /\ todo' = todo
      /\ dev' = dev /\ unset' = unset \ Concerns(Head(todo).cmd)
      /\ tx' = Append(tx, Written(Head(todo).cmd, Msg, Head(todo).part))
  BY DEF Send, modemVars
<1>2. todo # <<>> /\ ClientTyped /\ WritesTyped /\ ScriptedAs(todo)
  BY <1>1, BusyTodo DEF Typed
<1>3. Head(todo).cmd \in Commands
  BY <1>2, SubmitPart
<1>4. PICK w \in WriteSet :
        w = Written(Head(todo).cmd, Msg, Head(todo).part) /\ w.cmd = Head(todo).cmd
  <2>1. PICK cmd \in Commands : cmd = Head(todo).cmd
    BY <1>3
  <2> QED
    BY <1>2, <2>1, WrittenFacts
<1>5. CASE w.cmd = Back(set)
  BY <1>1, <1>2, <1>4, <1>5, BackWritten
<1>6. CASE w.cmd # Back(set)
  <2>1. set \notin Concerns(w.cmd)
    BY <1>6, SettingNames
  <2>2. set \in unset => set \in unset'
    BY <1>1, <1>4, <2>1
  <2>3. ~InUse(set)
    <3> SUFFICES ASSUME InUse(set) PROVE FALSE
      OBVIOUS
    <3>1. IF set = "mode" THEN Len(todo) \in 3 .. Parts + 2 ELSE Len(todo) \in 2 .. 3
      BY <1>1, <1>2, <1>4, <1>6, LastUse
    <3> QED
      BY <1>1, <1>2, <3>1 DEF InUse, Kind
  <2>4. w.cmd # Away(set)
    <3> SUFFICES ASSUME w.cmd = Away(set) PROVE FALSE
      OBVIOUS
    <3>1. IF set = "mode" THEN Kind = "long" /\ Len(todo) = Parts + 3
          ELSE Kind = "gsm" /\ Len(todo) = 4
      BY <1>2, <1>4, AwayHead
    <3> QED
      BY <1>1, <1>2, <3>1 DEF InUse, Kind
  <2> QED
    BY <1>1, <1>2, <1>4, <1>6, <2>2, <2>3, <2>4, OtherWritten DEF Restored
<1> QED
  BY <1>5, <1>6

LEMMA SendFailsRestores ==
  ASSUME Typed, Restored, SendFails
  PROVE  Restored'
<1> SUFFICES ASSUME NEW set \in Settings, ~InUse(set)'
             PROVE  FollowedByBack(set)' /\ BackAtLast(set)'
  BY DEF Restored
<1>1. /\ phase = "send" /\ kinds' = kinds /\ dev' = dev /\ tx' = tx
      /\ unset' = unset \cup Concerns(Head(todo).cmd)
      /\ \/ phase' = "reply" /\ todo' = todo
         \/ todo' = Unsent /\ phase' = IF todo' = <<>> THEN "idle" ELSE "send"
  BY DEF SendFails, modemVars, Proceed
<1>2. todo # <<>> /\ ClientTyped /\ ScriptedAs(todo)
  BY <1>1, BusyTodo DEF Typed
<1>3. CASE Head(todo).cmd = Back(set)
  <2>1. set \in unset'
    BY <1>1, <1>3, SettingNames
  <2> QED
    BY <2>1, StaysUnset
<1>4. CASE Head(todo).cmd # Back(set)
  <2>1. ~InUse(set)
    <3> SUFFICES ASSUME InUse(set) PROVE FALSE
      OBVIOUS
    <3>1. CASE phase' = "reply" /\ todo' = todo
      <4>1. IF set = "mode" THEN Len(todo) \in 3 .. Parts + 2 ELSE Len(todo) \in 2 .. 3
        BY <1>1, <1>2, <1>4, LastUse
      <4> QED
        BY <1>1, <1>2, <3>1, <4>1 DEF InUse, Kind
    <3>2. CASE todo' = Unsent /\ phase' = IF todo' = <<>> THEN "idle" ELSE "send"
      BY <1>1, <1>2, <1>4, <3>2, StillInUse
    <3> QED
      BY <1>1, <3>1, <3>2
  <2> QED
    BY <1>1, <2>1, NothingWritten DEF Restored
<1> QED
  BY <1>3, <1>4

\* A step that ends by what was read, or by giving up, and writes nothing but what
\* is left of a text.
LEMMA EndRestores ==
  ASSUME Typed, Restored, phase \in {"reply", "prompt", "confirm"}, Succeeded \/ Failed,
         dev' = dev, unset' = unset,
         \/ tx' = tx \/ tx' = Append(tx, Written("text", Msg, Head(todo).part))
  PROVE  Restored'
<1> SUFFICES ASSUME NEW set \in Settings, ~InUse(set)'
             PROVE  FollowedByBack(set)' /\ BackAtLast(set)'
  BY DEF Restored
<1>1. /\ kinds' = kinds /\ todo' \in {Follow(TRUE), Follow(FALSE)}
      /\ phase' = IF todo' = <<>> THEN "idle" ELSE "send"
  BY DEF Succeeded, Failed, Proceed
<1>2. todo # <<>> /\ ClientTyped /\ ScriptedAs(todo) /\ WritesTyped
  BY <1>1, BusyTodo DEF Typed
<1>3. ~InUse(set)
  <2>1. phase # "send"
    OBVIOUS
  <2> QED
    BY <1>1, <1>2, <2>1, StillInUse
<1>4. CASE tx' = tx
  BY <1>3, <1>4, NothingWritten DEF Restored
<1>5. CASE tx' = Append(tx, Written("text", Msg, Head(todo).part))
  <2>1. PICK w \in WriteSet : w = Written("text", Msg, Head(todo).part) /\ w.cmd = "text"
    BY <1>2, WrittenFacts
  <2>2. w.cmd # Back(set) /\ w.cmd # Away(set)
    BY <2>1, SettingNames DEF Texts
  <2> QED
    BY <1>2, <1>3, <1>5, <2>1, <2>2, OtherWritten DEF Restored
<1> QED
  BY <1>4, <1>5

\* A line that ends no step: the text is written for the prompt, or nothing is.
LEMMA WaitRestores ==
  ASSUME Typed, Restored, phase \in {"reply", "prompt", "confirm"}, phase' # "send",
         kinds' = kinds, todo' = todo, dev' = dev, unset' = unset,
         \/ tx' = tx \/ tx' = Append(tx, Written("body", Msg, Head(todo).part))
  PROVE  Restored'
<1> SUFFICES ASSUME NEW set \in Settings, ~InUse(set)'
             PROVE  FollowedByBack(set)' /\ BackAtLast(set)'
  BY DEF Restored
<1>1. todo # <<>> /\ ClientTyped /\ ScriptedAs(todo) /\ WritesTyped
  BY BusyTodo DEF Typed
<1>2. ~InUse(set)
  BY DEF InUse, Kind
<1>3. CASE tx' = tx
  BY <1>2, <1>3, NothingWritten DEF Restored
<1>4. CASE tx' = Append(tx, Written("body", Msg, Head(todo).part))
  <2>1. PICK w \in WriteSet : w = Written("body", Msg, Head(todo).part) /\ w.cmd = "body"
    BY <1>1, WrittenFacts
  <2>2. w.cmd # Back(set) /\ w.cmd # Away(set)
    BY <2>1, SettingNames DEF Texts
  <2> QED
    BY <1>1, <1>2, <1>4, <2>1, <2>2, OtherWritten DEF Restored
<1> QED
  BY <1>3, <1>4

\* The modem reads what was written first, and the setting changes only by its own
\* two commands.
LEMMA ReadRestores ==
  ASSUME NEW set \in Settings, WritesTyped, tx # <<>>, tx' = Tail(tx),
         dev'.input = NoInput => dev.input = NoInput \/ tx' = <<>>,
         set \in unset => set \in unset',
         Head(tx).cmd = Back(set) => set \in unset' \/ IsBack(set)',
         Head(tx).cmd # Back(set) =>
           (IsBack(set)' <=> IsBack(set)) \/ (Head(tx).cmd = Away(set) /\ dev.input = NoInput),
         FollowedByBack(set), BackAtLast(set)
  PROVE  FollowedByBack(set)' /\ BackAtLast(set)'
<1>1. /\ Len(tx') = Len(tx) - 1 /\ Len(tx) \in Nat \ {0} /\ Head(tx) = tx[1] /\ Len(tx') \in Nat
      /\ \A k \in 1 .. Len(tx') : k + 1 \in 1 .. Len(tx) /\ tx'[k] = tx[k + 1]
      /\ \A k \in 1 .. Len(tx) : k = 1 \/ (k - 1 \in 1 .. Len(tx') /\ tx[k] = tx'[k - 1])
  BY TxShrinks
<1>2. 1 \in 1 .. Len(tx)
  BY <1>1
<1>3. FollowedByBack(set)'
  <2> SUFFICES ASSUME dev'.input = NoInput, NEW k \in 1 .. Len(tx'), tx'[k].cmd = Away(set),
                      set \notin unset'
               PROVE  \E j \in k + 1 .. Len(tx') : tx'[j].cmd = Back(set)
    BY DEF FollowedByBack
  <2>1. dev.input = NoInput
    <3>1. Len(tx') # 0
      BY <1>1
    <3>2. tx' # <<>>
      BY <3>1
    <3> QED
      BY <3>2
  <2>2. k + 1 \in 1 .. Len(tx) /\ tx[k + 1].cmd = Away(set)
    BY <1>1
  <2>3. PICK j \in (k + 1) + 1 .. Len(tx) : tx[j].cmd = Back(set)
    BY <2>1, <2>2 DEF FollowedByBack
  <2>4. j \in 1 .. Len(tx) /\ j # 1 /\ j - 1 \in k + 1 .. Len(tx')
    BY <1>1, <2>2
  <2> QED
    BY <1>1, <2>3, <2>4
<1>4. BackAtLast(set)'
  <2> SUFFICES ASSUME \A k \in 1 .. Len(tx') : tx'[k].cmd # Back(set), set \notin unset'
               PROVE  IsBack(set)'
    BY DEF BackAtLast
  <2>1. CASE Head(tx).cmd = Back(set)
    BY <2>1
  <2>2. CASE Head(tx).cmd # Back(set)
    <3>1. \A k \in 1 .. Len(tx) : tx[k].cmd # Back(set)
      BY <1>1, <2>2
    <3>2. IsBack(set)
      BY <3>1 DEF BackAtLast
    <3>3. ~(Head(tx).cmd = Away(set) /\ dev.input = NoInput)
      <4> SUFFICES ASSUME Head(tx).cmd = Away(set), dev.input = NoInput PROVE FALSE
        OBVIOUS
      <4>1. PICK j \in 1 + 1 .. Len(tx) : tx[j].cmd = Back(set)
        BY <1>1, <1>2 DEF FollowedByBack
      <4>2. j \in 1 .. Len(tx)
        BY <1>1
      <4> QED
        BY <3>1, <4>1, <4>2
    <3> QED
      BY <2>2, <3>2, <3>3
  <2> QED
    BY <2>1, <2>2
<1> QED
  BY <1>3, <1>4

LEMMA EffectOnSetting ==
  ASSUME dev \in DevSet, NEW set \in Settings, NEW cmd \in Commands, dev' = Effect(cmd)
  PROVE  /\ cmd = Back(set) => IsBack(set)'
         /\ cmd \notin {Back(set), Away(set)} => (IsBack(set)' <=> IsBack(set))
<1>1. /\ dev'.mode = (CASE cmd = "CMGF=0" -> "pdu" [] cmd = "CMGF=1" -> "text" [] OTHER -> dev.mode)
      /\ dev'.charset =
           (CASE cmd = "CSCS=GSM" -> "GSM" [] cmd = "CSCS=UCS2" -> "UCS2" [] OTHER -> dev.charset)
  BY DEF Effect, DevSet
<1>2. CASE set = "mode"
  BY <1>1, <1>2 DEF IsBack, Back, Away
<1>3. CASE set = "charset"
  BY <1>1, <1>3 DEF IsBack, Back, Away
<1> QED
  BY <1>2, <1>3 DEF Settings

LEMMA ModemAnswersRestores ==
  ASSUME Typed, Prompted, Restored, ModemAnswers
  PROVE  Restored'
<1> SUFFICES ASSUME NEW set \in Settings, ~InUse(set)'
             PROVE  FollowedByBack(set)' /\ BackAtLast(set)'
  BY DEF Restored
<1> DEFINE w == Head(tx)
<1>1. /\ tx # <<>> /\ tx' = Tail(tx) /\ kinds' = kinds /\ todo' = todo /\ phase' = phase
  BY DEF ModemAnswers, clientVars
<1>2. FollowedByBack(set) /\ BackAtLast(set)
  BY <1>1 DEF Restored, InUse, Kind
<1>3. WritesTyped /\ dev \in DevSet /\ w \in WriteSet
  BY <1>1, WritesShrink DEF Typed, ModemTyped
<1>4. Back(set) \notin Texts /\ Back(set) # "CMGS" /\ Concerns(Back(set)) = {set}
  BY SettingNames
<1>5. CASE dev.input # NoInput /\ TakesText(w)
  <2>1. w.cmd = "body" /\ dev' = [dev EXCEPT !.input = NoInput, !.clean = TRUE] /\ unset' = unset
    BY <1>5 DEF TakesText
  <2>2. IsBack(set)' <=> IsBack(set)
    BY <1>3, <2>1 DEF IsBack, DevSet
  <2>3. tx' = <<>>
    <3>1. Len(tx') = Len(tx) - 1 /\ Len(tx) \in Nat \ {0} /\ Head(tx) = tx[1]
      BY <1>1, <1>3, TxShrinks
    <3>2. 1 \in 1 .. Len(tx) /\ tx[1].cmd = "body"
      BY <2>1, <3>1
    <3>3. 1 = Len(tx)
      BY <3>2 DEF Prompted, OwnText
    <3> QED
      BY <1>1, <1>3, <3>1, <3>3 DEF WritesTyped
  <2>4. w.cmd # Back(set)
    BY <1>4, <2>1 DEF Texts
  <2> QED
    BY <1>1, <1>2, <1>3, <2>1, <2>2, <2>3, <2>4, ReadRestores
<1>6. CASE dev.input # NoInput /\ Swallowed(w)
  <2>1. dev' = [dev EXCEPT !.clean = FALSE] /\ unset' = unset \cup Concerns(w.cmd)
    BY <1>6 DEF Swallowed
  <2>2. (IsBack(set)' <=> IsBack(set)) /\ dev'.input = dev.input
    BY <1>3, <2>1 DEF IsBack, DevSet
  <2>3. w.cmd = Back(set) => set \in unset'
    BY <1>4, <2>1
  <2> QED
    BY <1>1, <1>2, <1>3, <1>6, <2>1, <2>2, <2>3, ReadRestores
<1>7. CASE dev.input = NoInput /\ Command(w)
  <2>1. PICK cmd \in Commands : cmd = w.cmd /\ dev' = Effect(cmd)
    BY <1>3, <1>7 DEF Command, WriteSet
  <2>2. /\ cmd = Back(set) => IsBack(set)'
        /\ cmd \notin {Back(set), Away(set)} => (IsBack(set)' <=> IsBack(set))
    BY <1>3, <2>1, EffectOnSetting
  <2>3. unset' = unset
    BY <1>7 DEF Command
  <2> QED
    BY <1>1, <1>2, <1>3, <1>7, <2>1, <2>2, <2>3, ReadRestores
<1>8. CASE dev.input = NoInput /\ OpensInput(w)
  <2>1. w.cmd = "CMGS" /\ unset' = unset
        /\ (dev' = dev \/ dev' = [dev EXCEPT !.input = w, !.clean = TRUE])
    BY <1>8 DEF OpensInput
  <2>2. IsBack(set)' <=> IsBack(set)
    BY <1>3, <2>1 DEF IsBack, DevSet
  <2> QED
    BY <1>1, <1>2, <1>3, <1>4, <1>8, <2>1, <2>2, ReadRestores
<1>9. CASE dev.input = NoInput /\ w.cmd \in Texts /\ UNCHANGED <<modemVars, unset>>
  <2>1. dev' = dev /\ unset' = unset
    BY <1>9 DEF modemVars
  <2>2. IsBack(set)' <=> IsBack(set)
    BY <2>1 DEF IsBack
  <2> QED
    BY <1>1, <1>2, <1>3, <1>4, <1>9, <2>1, <2>2, ReadRestores
<1> QED
  BY <1>5, <1>6, <1>7, <1>8, <1>9 DEF ModemAnswers, Texts

LEMMA ModemRefusesRestores ==
  ASSUME Typed, Prompted, Restored, ModemRefuses
  PROVE  Restored'
<1> SUFFICES ASSUME NEW set \in Settings, ~InUse(set)'
             PROVE  FollowedByBack(set)' /\ BackAtLast(set)'
  BY DEF Restored
<1>1. /\ tx # <<>> /\ tx' = Tail(tx) /\ kinds' = kinds /\ todo' = todo /\ phase' = phase
      /\ unset' = unset \cup Concerns(Head(tx).cmd)
  BY DEF ModemRefuses, clientVars
<1>2. FollowedByBack(set) /\ BackAtLast(set)
  BY <1>1 DEF Restored, InUse, Kind
<1>3. WritesTyped /\ dev \in DevSet
  BY DEF Typed, ModemTyped
<1>4. Head(tx).cmd = Back(set) => set \in unset'
  BY <1>1, SettingNames
<1>5. CASE dev.input = NoInput /\ dev' = dev
  <2>1. IsBack(set)' <=> IsBack(set)
    BY <1>5 DEF IsBack
  <2> QED
    BY <1>1, <1>2, <1>3, <1>4, <1>5, <2>1, ReadRestores
<1>6. CASE Head(tx).cmd = "body" /\ dev' = [dev EXCEPT !.input = NoInput, !.clean = TRUE]
  <2>1. IsBack(set)' <=> IsBack(set)
    BY <1>3, <1>6 DEF IsBack, DevSet
  <2>2. tx' = <<>>
    <3>1. Len(tx') = Len(tx) - 1 /\ Len(tx) \in Nat \ {0} /\ Head(tx) = tx[1]
      BY <1>1, <1>3, TxShrinks
    <3>2. 1 \in 1 .. Len(tx) /\ tx[1].cmd = "body"
      BY <1>6, <3>1
    <3>3. 1 = Len(tx)
      BY <3>2 DEF Prompted, OwnText
    <3> QED
      BY <1>1, <1>3, <3>1, <3>3 DEF WritesTyped
  <2> QED
    BY <1>1, <1>2, <1>3, <1>4, <2>1, <2>2, ReadRestores
<1> QED
  BY <1>5, <1>6 DEF ModemRefuses

LEMMA RestoredStep == Typed /\ Prompted /\ Restored /\ [Next]_vars => Restored'
<1> SUFFICES ASSUME Typed, Prompted, Restored, [Next]_vars PROVE Restored'
  OBVIOUS
<1>1. CASE \E kind \in Kinds : Start(kind)
  <2> SUFFICES ASSUME NEW set \in Settings, ~InUse(set)'
               PROVE  FollowedByBack(set)' /\ BackAtLast(set)'
    BY DEF Restored
  <2>1. phase = "idle" /\ tx' = tx /\ dev' = dev /\ unset' = unset
    BY <1>1 DEF Start, modemVars
  <2>2. ~InUse(set)
    BY <2>1 DEF InUse, Typed, ClientTyped
  <2> QED
    BY <2>1, <2>2, NothingWritten DEF Restored
<1>2. CASE RestartGnssTask \/ Urc \/ UNCHANGED vars
  <2>1. kinds' = kinds /\ todo' = todo /\ phase' = phase /\ tx' = tx /\ dev' = dev /\ unset' = unset
    BY <1>2 DEF RestartGnssTask, Urc, vars, clientVars, modemVars
  <2> QED
    BY <2>1 DEF Restored, FollowedByBack, BackAtLast, IsBack, InUse, Kind
<1>3. CASE Reply
  <2>1. phase = "reply" /\ tx' = tx /\ dev' = dev /\ unset' = unset
    BY <1>3 DEF Reply, modemVars
  <2>2. (Succeeded \/ Failed) \/ (phase' = phase /\ kinds' = kinds /\ todo' = todo)
    BY <1>3 DEF Reply
  <2> QED
    BY <2>1, <2>2, EndRestores, WaitRestores
<1>4. CASE AwaitPrompt
  <2>1. phase = "prompt" /\ dev' = dev /\ unset' = unset
    BY <1>4 DEF AwaitPrompt, modemVars
  <2>2. \/ Failed /\ tx' = tx
        \/ /\ phase' \in {"prompt", "confirm"} /\ kinds' = kinds /\ todo' = todo
           /\ tx' = tx \/ tx' = Append(tx, Written("body", Msg, Head(todo).part))
    BY <1>4, <2>1 DEF AwaitPrompt, clientVars
  <2>3. CASE Failed /\ tx' = tx
    BY <2>1, <2>3, EndRestores
  <2>4. CASE /\ phase' \in {"prompt", "confirm"} /\ kinds' = kinds /\ todo' = todo
             /\ tx' = tx \/ tx' = Append(tx, Written("body", Msg, Head(todo).part))
    BY <2>1, <2>4, WaitRestores
  <2> QED
    BY <2>2, <2>3, <2>4
<1>5. CASE BodyFails
  <2>1. phase = "prompt" /\ dev' = dev /\ unset' = unset /\ Failed
        /\ (tx' = tx \/ tx' = Append(tx, Written("text", Msg, Head(todo).part)))
    BY <1>5 DEF BodyFails, modemVars
  <2> QED
    BY <2>1, EndRestores
<1>6. CASE AwaitConfirmation
  <2>1. phase = "confirm" /\ tx' = tx /\ dev' = dev /\ unset' = unset
    BY <1>6 DEF AwaitConfirmation, modemVars
  <2>2. (Succeeded \/ Failed) \/ (phase' = phase /\ kinds' = kinds /\ todo' = todo)
    BY <1>6 DEF AwaitConfirmation, clientVars
  <2> QED
    BY <2>1, <2>2, EndRestores, WaitRestores
<1>7. CASE TimesOut \/ GivesUp
  <2>1. phase \in {"reply", "prompt", "confirm"} /\ Failed /\ tx' = tx /\ dev' = dev
        /\ unset' = unset
    BY <1>7 DEF TimesOut, GivesUp, Waiting, modemVars
  <2> QED
    BY <2>1, EndRestores
<1> QED
  BY <1>1, <1>2, <1>3, <1>4, <1>5, <1>6, <1>7, SendRestores, SendFailsRestores,
     ModemAnswersRestores, ModemRefusesRestores DEF Next, Client

\* A receive setting that does not hold is in the hands of the current dialog or of the
\* modem's input, or was not set back, or a command that sets it back is on its way.
THEOREM RestoreInvariant == Spec => []Restored
<1>1. Init => Restored
  <2> SUFFICES ASSUME Init, NEW set \in Settings
               PROVE  FollowedByBack(set) /\ BackAtLast(set)
    BY DEF Restored
  <2>1. tx = <<>> /\ set \in unset
    BY DEF Init, Settings
  <2> QED
    BY <2>1 DEF FollowedByBack, BackAtLast
<1>2. Typed /\ Prompted /\ Restored /\ [Next]_vars => Restored'
  BY RestoredStep
<1> QED
  BY <1>1, <1>2, TypeInvariant, PromptInvariant, PTL DEF Spec

\* Whatever the dialog was, and however late its answers came: once the modem has
\* read all that was written to it and waits for no text, it is in text mode and in
\* UCS2 again, unless it refused to be set back, was not told to, or took the
\* command for a part of a text.
THEOREM SettingsRestored == Spec => []RestoredAfterDialog
<1>1. Typed /\ Restored => RestoredAfterDialog
  <2> SUFFICES ASSUME Typed, Restored, phase = "idle", tx = <<>>, dev.input = NoInput
               PROVE  /\ "mode" \in unset \/ dev.mode = "text"
                      /\ "charset" \in unset \/ dev.charset = "UCS2"
    BY DEF RestoredAfterDialog, Idle
  <2>1. todo = <<>>
    BY DEF Typed, ClientTyped
  <2>2. \A set \in Settings : BackAtLast(set)
    BY <2>1 DEF Restored, InUse
  <2>3. \A set \in Settings : set \in unset \/ IsBack(set)
    BY <2>2 DEF BackAtLast
  <2> QED
    BY <2>3 DEF Settings, IsBack
<1> QED
  BY <1>1, TypeInvariant, RestoreInvariant, PTL

-----------------------------------------------------------------------------
(* The parts of a message. *)

\* With n steps left of a send: a submission is among them, and the part that the
\* next submission is of, one more than there are parts when none is left.
Ahead(kind, n) == IF kind = "gsm" THEN n >= 2 ELSE IF kind = "ucs2" THEN n >= 1 ELSE n >= 3
NextPart(kind, n) ==
  IF kind = "gsm" THEN IF n >= 2 THEN 1 ELSE 2
  ELSE IF kind = "ucs2" THEN IF n >= 1 THEN 1 ELSE 2
  ELSE IF n >= Parts + 3 THEN 1 ELSE IF n >= 3 THEN Parts + 3 - n ELSE Parts + 1

\* What the modem has accepted of the current message.
Accepted == {j \in 1 .. Len(sent) : sent[j].msg = Msg}
Has(part) == \E i \in 1 .. Len(sent) : sent[i].msg = Msg /\ sent[i].part = part

NoConfirmation == \A i \in 1 .. Len(line) : line[i].t # "cmgs"

SentTyped == \A i \in 1 .. Len(sent) : sent[i].msg \in 1 .. Len(kinds)

\* Before the text of a part is read, the parts before it have been accepted; after
\* that, this part as well, unless it was refused: then nothing confirms it.
PartsCounted ==
  todo # <<>> /\ Kind \in Sends /\ Ahead(Kind, Len(todo)) =>
    \/ Cardinality(Accepted) = NextPart(Kind, Len(todo)) - 1
       /\ (phase = "confirm" /\ NoBody => ~haveCmgs /\ NoConfirmation)
    \/ /\ phase = "confirm" /\ NoBody
       /\ Cardinality(Accepted) = NextPart(Kind, Len(todo))
       /\ Has(NextPart(Kind, Len(todo)))

\* As long as nothing that decides has failed, every part before the next one is in.
PartsIn ==
  ok /\ kinds # <<>> /\ Kind \in Sends =>
    \A part \in 1 .. NextPart(Kind, Len(todo)) - 1 : Has(part)

Ordered == SentTyped /\ PartsInOrder /\ PartsCounted /\ PartsIn

-----------------------------------------------------------------------------

LEMMA NextPartFacts ==
  /\ \A n \in 2 .. 6 : Ahead("gsm", n) /\ NextPart("gsm", n) = 1
  /\ \A n \in 0 .. 1 : ~Ahead("gsm", n) /\ NextPart("gsm", n) = 2
  /\ \A n \in 1 .. 5 : Ahead("ucs2", n) /\ NextPart("ucs2", n) = 1
  /\ ~Ahead("ucs2", 0) /\ NextPart("ucs2", 0) = 2
  /\ \A n \in Parts + 3 .. Parts + 4 : Ahead("long", n) /\ NextPart("long", n) = 1
  /\ \A n \in 3 .. Parts + 2 : Ahead("long", n) /\ NextPart("long", n) = Parts + 3 - n
  /\ \A n \in 0 .. 2 : ~Ahead("long", n) /\ NextPart("long", n) = Parts + 1
BY AtDialogAssumption DEF Ahead, NextPart

\* What the end of a step does to the part that comes next.
LEMMA NextPartSteps ==
  ASSUME ScriptedAs(todo), todo # <<>>, Kind \in Sends
  PROVE  LET n == Len(todo) IN
         /\ NextPart(Kind, n) \in Nat \ {0} /\ NextPart(Kind, n - 1) \in Nat
         /\ Head(todo).role = "submit" =>
              /\ Ahead(Kind, n) /\ Head(todo).part = NextPart(Kind, n)
              /\ NextPart(Kind, n - 1) = NextPart(Kind, n) + 1
              /\ ~Ahead(Kind, LeftAfterFailure(Kind, n)) /\ ~Ahead(Kind, LeftAfterUnsent(Kind, n))
         /\ Head(todo).role # "submit" =>
              /\ NextPart(Kind, n - 1) = NextPart(Kind, n)
              /\ Ahead(Kind, n - 1) => Ahead(Kind, n)
         /\ Head(todo).role \in {"may", "blind"} =>
              LeftAfterFailure(Kind, n) = n - 1 /\ LeftAfterUnsent(Kind, n) = n - 1
         /\ Head(todo).role \in {"must", "submit"} =>
              ~Ahead(Kind, LeftAfterFailure(Kind, n)) /\ ~Ahead(Kind, LeftAfterUnsent(Kind, n))
<1>0. Parts \in Nat \ {0}
  BY AtDialogAssumption
<1>1. CASE Kind = "gsm"
  <2>1. Len(todo) \in 1 .. 6
    BY <1>1, GsmHead
  <2>2. CASE Len(todo) = 6
    BY <1>1, <2>2, GsmHead, NextPartFacts, LeftValues
  <2>3. CASE Len(todo) = 5
    BY <1>1, <2>3, GsmHead, NextPartFacts, LeftValues DEF StepIs
  <2>4. CASE Len(todo) = 4
    BY <1>1, <2>4, GsmHead, NextPartFacts, LeftValues DEF StepIs
  <2>5. CASE Len(todo) = 3
    BY <1>1, <2>5, GsmHead, NextPartFacts, LeftValues DEF StepIs
  <2>6. CASE Len(todo) = 2
    BY <1>1, <2>6, GsmHead, NextPartFacts, LeftValues DEF StepIs
  <2>7. CASE Len(todo) = 1
    BY <1>1, <2>7, GsmHead, NextPartFacts, LeftValues
  <2> QED
    BY <2>1, <2>2, <2>3, <2>4, <2>5, <2>6, <2>7
<1>2. CASE Kind = "ucs2"
  <2>1. Len(todo) \in 1 .. 5
    BY <1>2, Ucs2Head
  <2>2. CASE Len(todo) = 5
    BY <1>2, <2>2, Ucs2Head, NextPartFacts, LeftValues
  <2>3. CASE Len(todo) = 4
    BY <1>2, <2>3, Ucs2Head, NextPartFacts, LeftValues DEF StepIs
  <2>4. CASE Len(todo) = 3
    BY <1>2, <2>4, Ucs2Head, NextPartFacts, LeftValues DEF StepIs
  <2>5. CASE Len(todo) = 2
    BY <1>2, <2>5, Ucs2Head, NextPartFacts, LeftValues DEF StepIs
  <2>6. CASE Len(todo) = 1
    BY <1>2, <2>6, Ucs2Head, NextPartFacts, LeftValues DEF StepIs
  <2> QED
    BY <2>1, <2>2, <2>3, <2>4, <2>5, <2>6
<1>3. CASE Kind = "long"
  <2>1. /\ Len(todo) \in 1 .. Parts + 4
        /\ \/ Len(todo) = 1 \/ Len(todo) = 2 \/ Len(todo) \in 3 .. Parts + 2
           \/ Len(todo) = Parts + 3 \/ Len(todo) = Parts + 4
    BY <1>3, LongHead, LongCases
  <2>2. CASE Len(todo) = Parts + 4
    <3>1. Len(todo) - 1 = Parts + 3 /\ Len(todo) \in Parts + 3 .. Parts + 4
          /\ Parts + 3 \in Parts + 3 .. Parts + 4
      BY <1>0, <2>2
    <3> QED
      BY <1>3, <2>2, <3>1, LongHead, NextPartFacts, LeftValues
  <2>3. CASE Len(todo) = Parts + 3
    <3>1. Len(todo) - 1 = Parts + 2 /\ Len(todo) \in Parts + 3 .. Parts + 4
          /\ Parts + 2 \in 3 .. Parts + 2 /\ Parts + 3 - (Parts + 2) = 1
      BY <1>0, <2>3
    <3> QED
      BY <1>3, <2>3, <3>1, LongHead, NextPartFacts, LeftValues DEF StepIs
  <2>4. CASE Len(todo) \in 3 .. Parts + 2
    <3>1. /\ NextPart("long", Len(todo)) = Parts + 3 - Len(todo) /\ Ahead("long", Len(todo))
          /\ StepIs(Head(todo), "CMGS", "submit", RestoreMode)
          /\ Head(todo).part = Parts + 3 - Len(todo)
          /\ LeftAfterFailure("long", Len(todo)) = 2 /\ LeftAfterUnsent("long", Len(todo)) = 2
          /\ ~Ahead("long", 2)
      BY <1>3, <2>4, LongHead, NextPartFacts, LeftValues
    <3>2. NextPart("long", Len(todo) - 1) = Parts + 4 - Len(todo)
      <4>1. CASE Len(todo) = 3
        <5>1. NextPart("long", 2) = Parts + 1
          BY NextPartFacts
        <5> QED
          BY <1>0, <4>1, <5>1
      <4>2. CASE Len(todo) \in 4 .. Parts + 2
        <5>1. Len(todo) - 1 \in 3 .. Parts + 2
          BY <1>0, <4>2
        <5>2. NextPart("long", Len(todo) - 1) = Parts + 3 - (Len(todo) - 1)
          BY <5>1, NextPartFacts
        <5> QED
          BY <1>0, <4>2, <5>2
      <4>3. \A k \in 3 .. Parts + 2 : k = 3 \/ k \in 4 .. Parts + 2
        BY <1>0
      <4> QED
        BY <2>4, <4>1, <4>2, <4>3
    <3>3. /\ Parts + 3 - Len(todo) \in Nat \ {0} /\ Parts + 4 - Len(todo) \in Nat
          /\ Parts + 4 - Len(todo) = (Parts + 3 - Len(todo)) + 1
      BY <1>0, <2>4
    <3> QED
      BY <1>3, <3>1, <3>2, <3>3 DEF StepIs
  <2>5. CASE Len(todo) = 2
    BY <1>0, <1>3, <2>5, LongHead, NextPartFacts, LeftValues
  <2>6. CASE Len(todo) = 1
    BY <1>0, <1>3, <2>6, LongHead, NextPartFacts, LeftValues
  <2> QED
    BY <2>1, <2>2, <2>3, <2>4, <2>5, <2>6
<1> QED
  BY <1>1, <1>2, <1>3 DEF Sends

LEMMA SentStays ==
  ASSUME kinds' = kinds, sent' = sent
  PROVE  /\ Kind' = Kind /\ Accepted' = Accepted /\ Msg' = Msg
         /\ \A part : Has(part)' <=> Has(part)
         /\ SentTyped => SentTyped'
         /\ PartsInOrder => PartsInOrder'
BY DEF Kind, Msg, Accepted, Has, SentTyped, PartsInOrder

\* A step ends: the part was confirmed, or what ends is not a submission that succeeds.
LEMMA EndOrdered ==
  ASSUME ClientTyped, Ordered, phase # "idle", kinds' = kinds, sent' = sent,
         phase' \in {"idle", "send"},
         \/ todo' = Follow(TRUE) /\ ok' = ok
            /\ (Head(todo).role # "submit" \/ (phase = "confirm" /\ NoBody /\ haveCmgs))
         \/ todo' \in {Follow(FALSE), Unsent} /\ ok' = (ok /\ ~Decides(FALSE))
  PROVE  Ordered'
<1>1. todo # <<>> /\ ScriptedAs(todo)
  BY BusyTodo
<1>2. /\ Kind' = Kind /\ Accepted' = Accepted /\ Msg' = Msg
      /\ \A part : Has(part)' <=> Has(part)
      /\ SentTyped' /\ PartsInOrder'
  BY SentStays DEF Ordered
<1> DEFINE n == Len(todo)
           next == NextPart(Kind, n)
<1>3. CASE Kind \notin Sends
  BY <1>2, <1>3 DEF Ordered, PartsCounted, PartsIn
<1>4. CASE Kind \in Sends
  <2>1. /\ Follow(TRUE) = Tail(todo) /\ Len(Follow(TRUE)) = n - 1
        /\ Len(Follow(FALSE)) = LeftAfterFailure(Kind, n)
        /\ Len(Unsent) = LeftAfterUnsent(Kind, n)
        /\ Decides(FALSE) <=> Head(todo).role \in {"must", "submit"}
        /\ Head(todo).role \in {"must", "submit", "may", "blind"}
    BY <1>1, <1>4, SendFollow
  <2>2. /\ next \in Nat \ {0} /\ NextPart(Kind, n - 1) \in Nat
        /\ Head(todo).role = "submit" => Ahead(Kind, n) /\ NextPart(Kind, n - 1) = next + 1
        /\ Head(todo).role # "submit" =>
             /\ NextPart(Kind, n - 1) = next
             /\ Ahead(Kind, n - 1) => Ahead(Kind, n)
        /\ Head(todo).role \in {"may", "blind"} =>
             LeftAfterFailure(Kind, n) = n - 1 /\ LeftAfterUnsent(Kind, n) = n - 1
        /\ Head(todo).role \in {"must", "submit"} =>
             ~Ahead(Kind, LeftAfterFailure(Kind, n)) /\ ~Ahead(Kind, LeftAfterUnsent(Kind, n))
    BY <1>1, <1>4, NextPartSteps
  <2>3. Head(todo).role # "submit" /\ Ahead(Kind, n) => Cardinality(Accepted) = next - 1
    <3>1. Head(todo).role # "submit" => phase # "confirm"
      BY DEF ClientTyped
    <3> QED
      BY <1>1, <1>4, <3>1 DEF Ordered, PartsCounted
  <2>4. ok /\ kinds # <<>> => \A part \in 1 .. next - 1 : Has(part)
    BY <1>4 DEF Ordered, PartsIn
  <2>5. phase' # "confirm"
    OBVIOUS
  <2>6. CASE todo' = Follow(TRUE) /\ ok' = ok /\ Head(todo).role # "submit"
    <3>1. PartsCounted'
      BY <1>2, <2>1, <2>2, <2>3, <2>5, <2>6 DEF PartsCounted
    <3>2. PartsIn'
      BY <1>2, <2>1, <2>2, <2>4, <2>6 DEF PartsIn
    <3> QED
      BY <1>2, <3>1, <3>2 DEF Ordered
  <2>7. CASE /\ todo' = Follow(TRUE) /\ ok' = ok /\ Head(todo).role = "submit"
             /\ phase = "confirm" /\ NoBody /\ haveCmgs
    <3>1. Cardinality(Accepted) = next /\ Has(next)
      BY <1>1, <1>4, <2>2, <2>7 DEF Ordered, PartsCounted
    <3>2. NextPart(Kind, n - 1) = next + 1 /\ (next + 1) - 1 = next
      BY <2>2, <2>7
    <3>3. PartsCounted'
      BY <1>2, <2>1, <2>5, <2>7, <3>1, <3>2 DEF PartsCounted
    <3>4. \A part \in 1 .. next : part = next \/ part \in 1 .. next - 1
      BY <2>2
    <3>5. PartsIn'
      BY <1>2, <2>1, <2>4, <2>7, <3>1, <3>2, <3>4 DEF PartsIn
    <3> QED
      BY <1>2, <3>3, <3>5 DEF Ordered
  <2>8. CASE todo' \in {Follow(FALSE), Unsent} /\ ok' = (ok /\ ~Decides(FALSE))
    <3>1. CASE Head(todo).role \in {"must", "submit"}
      <4>1. ~Ahead(Kind, Len(todo')) /\ ~ok'
        BY <2>1, <2>2, <2>8, <3>1
      <4> QED
        BY <1>2, <4>1 DEF Ordered, PartsCounted, PartsIn
    <3>2. CASE Head(todo).role \in {"may", "blind"}
      <4>0. LeftAfterFailure(Kind, n) = n - 1 /\ LeftAfterUnsent(Kind, n) = n - 1
        BY <2>2, <3>2
      <4>1. Len(todo') = n - 1 /\ Head(todo).role # "submit" /\ ok' = ok
        <5>1. Len(todo') = n - 1
          BY <2>1, <2>8, <4>0
        <5>2. ~Decides(FALSE)
          BY <2>1, <3>2
        <5>3. ok' = ok
          BY <2>8, <5>2, Zenon DEF ClientTyped
        <5> QED
          BY <3>2, <5>1, <5>3
      <4>2. PartsCounted'
        BY <1>2, <2>2, <2>3, <2>5, <4>1 DEF PartsCounted
      <4>3. PartsIn'
        BY <1>2, <2>2, <2>4, <4>1 DEF PartsIn
      <4> QED
        BY <1>2, <4>2, <4>3 DEF Ordered
    <3> QED
      BY <2>1, <3>1, <3>2
  <2> QED
    BY <2>6, <2>7, <2>8
<1> QED
  BY <1>3, <1>4

\* Nothing is accepted, and the dialog is where it was.
LEMMA WaitOrdered ==
  ASSUME Ordered, kinds' = kinds, sent' = sent, todo' = todo, ok' = ok,
         \/ phase # "confirm" /\ ~(phase' = "confirm" /\ NoBody')
         \/ /\ phase = "confirm" /\ phase' = "confirm" /\ haveCmgs' = haveCmgs
            /\ NoConfirmation => NoConfirmation'
            /\ NoBody => NoBody'
            /\ NoBody' => NoBody \/ (~haveCmgs /\ NoConfirmation')
  PROVE  Ordered'
<1>1. /\ Kind' = Kind /\ Accepted' = Accepted /\ Msg' = Msg
      /\ \A part : Has(part)' <=> Has(part)
      /\ SentTyped' /\ PartsInOrder'
  BY SentStays DEF Ordered
<1>2. PartsIn'
  BY <1>1 DEF Ordered, PartsIn
<1>3. PartsCounted'
  <2>1. CASE phase # "confirm" /\ ~(phase' = "confirm" /\ NoBody')
    BY <1>1, <2>1 DEF Ordered, PartsCounted
  <2>2. CASE /\ phase = "confirm" /\ phase' = "confirm" /\ haveCmgs' = haveCmgs
             /\ NoConfirmation => NoConfirmation'
             /\ NoBody => NoBody'
             /\ NoBody' => NoBody \/ (~haveCmgs /\ NoConfirmation')
    BY <1>1, <2>2 DEF Ordered, PartsCounted
  <2> QED
    BY <2>1, <2>2
<1> QED
  BY <1>1, <1>2, <1>3 DEF Ordered

LEMMA PurgeKeepsConfirmation ==
  ASSUME LinesTyped, Purge, NoConfirmation
  PROVE  NoConfirmation'
BY PurgeFacts DEF NoConfirmation

LEMMA StartOrdered ==
  ASSUME Typed, Ordered, NEW kind \in Kinds, Start(kind)
  PROVE  Ordered'
<1>1. /\ kinds' = Append(kinds, kind) /\ todo' = Script(kind) /\ phase' = "send" /\ sent' = sent
      /\ kinds \in Seq(Kinds)
  BY DEF Start, modemVars, Typed, ClientTyped
<1>2. /\ Len(kinds') = Len(kinds) + 1 /\ Len(kinds) \in Nat /\ kinds' # <<>>
      /\ kinds'[Len(kinds) + 1] = kind
  BY <1>1, AppendFacts
<1>3. Kind' = kind /\ Msg' = Len(kinds) + 1
  BY <1>2 DEF Kind, Msg, Last
<1>4. SentTyped'
  BY <1>1, <1>2 DEF Ordered, SentTyped
<1>5. PartsInOrder'
  BY <1>1 DEF Ordered, PartsInOrder
<1>6. Accepted' = {}
  BY <1>1, <1>2, <1>3 DEF Ordered, SentTyped, Accepted
<1>7. CASE kind \in Sends
  <2>1. Len(Script(kind)) = LengthOf(kind)
    BY <1>7, SendScripts
  <2>2. NextPart(kind, LengthOf(kind)) = 1
    BY <1>7, AtDialogAssumption, NextPartFacts, GsmStepOf, Ucs2StepOf, LongStepOf DEF Sends
  <2>3. Cardinality({}) = 1 - 1 /\ 1 .. 1 - 1 = {}
    BY FS_EmptySet
  <2>4. PartsCounted'
    BY <1>1, <1>3, <1>6, <2>1, <2>2, <2>3 DEF PartsCounted
  <2>5. PartsIn'
    BY <1>1, <1>3, <2>1, <2>2, <2>3 DEF PartsIn
  <2> QED
    BY <1>4, <1>5, <2>4, <2>5 DEF Ordered
<1>8. CASE kind \notin Sends
  BY <1>3, <1>4, <1>5, <1>8 DEF Ordered, PartsCounted, PartsIn
<1> QED
  BY <1>7, <1>8

\* The text the modem reads is that of the part the client waits to be confirmed.
LEMMA TextRead ==
  ASSUME Typed, Prompted, tx # <<>>, Head(tx).cmd = "body"
  PROVE  /\ phase = "confirm" /\ ~haveCmgs /\ todo # <<>> /\ Kind \in Sends
         /\ Head(tx).msg = Msg /\ Head(tx).part = Head(todo).part
         /\ Head(todo).role = "submit" /\ ~NoBody /\ Len(tx) = 1 /\ Tail(tx) = <<>>
<1>1. ClientTyped /\ WritesTyped
  BY DEF Typed
<1>2. Len(tx) \in Nat \ {0} /\ Head(tx) = tx[1] /\ 1 \in 1 .. Len(tx)
  BY <1>1, TailFacts DEF WritesTyped
<1>3. /\ 1 = Len(tx) /\ phase = "confirm" /\ ~haveCmgs
      /\ tx[1] = Written("body", Msg, Head(todo).part)
  BY <1>2 DEF Prompted, OwnText
<1>4. todo # <<>> /\ Head(todo).role = "submit"
  BY <1>1, <1>3, BusyTodo DEF ClientTyped
<1>5. Kind \in Sends
  BY <1>1, <1>4, SubmitPart
<1>6. tx[1].msg = Msg /\ tx[1].part = Head(todo).part
  BY <1>3 DEF Written
<1>7. Tail(tx) = <<>>
  <2>1. tx \in Seq(WriteSet) /\ tx # <<>>
    BY <1>1 DEF WritesTyped
  <2>2. Tail(tx) \in Seq(WriteSet) /\ Len(Tail(tx)) = Len(tx) - 1
    BY <2>1, TailFacts
  <2>3. Len(Tail(tx)) = 0
    BY <1>3, <2>2
  <2> QED
    BY <2>2, <2>3, NoneLeft
<1> QED
  BY <1>2, <1>3, <1>4, <1>5, <1>6, <1>7 DEF NoBody

LEMMA TakesTextOrdered ==
  ASSUME Typed, Prompted, Ordered, tx # <<>>, tx' = Tail(tx), TakesText(Head(tx)),
         UNCHANGED clientVars
  PROVE  Ordered'
<1> DEFINE next == NextPart(Kind, Len(todo))
<1>1. /\ Head(tx).cmd = "body"
      /\ sent' = Append(sent, [msg |-> Head(tx).msg, part |-> Head(tx).part, to |-> dev.input.msg,
                               of |-> dev.input.part, whole |-> dev.clean, as |-> Encoded])
  BY DEF TakesText
<1>2. /\ phase = "confirm" /\ todo # <<>> /\ Kind \in Sends /\ ~NoBody
      /\ Head(tx).msg = Msg /\ Head(tx).part = Head(todo).part /\ Head(todo).role = "submit"
  BY <1>1, TextRead
<1>3. kinds' = kinds /\ todo' = todo /\ phase' = phase /\ ok' = ok
  BY DEF clientVars
<1>4. ScriptedAs(todo) /\ sent \in Seq(SentSet)
  BY DEF Typed, ClientTyped, ModemTyped
<1>5. Head(tx).part = next /\ Ahead(Kind, Len(todo)) /\ next \in Nat \ {0}
  BY <1>2, <1>4, NextPartSteps
<1>6. Cardinality(Accepted) = next - 1
  BY <1>2, <1>5 DEF Ordered, PartsCounted
<1>7. PICK e : sent' = Append(sent, e) /\ e.msg = Msg /\ e.part = next
  BY <1>1, <1>2, <1>5
<1>8. /\ Len(sent') = Len(sent) + 1 /\ Len(sent) \in Nat /\ sent'[Len(sent) + 1] = e
      /\ \A i \in 1 .. Len(sent) : sent'[i] = sent[i]
      /\ DOMAIN sent = 1 .. Len(sent) /\ DOMAIN sent' = 1 .. Len(sent')
  BY <1>4, <1>7
<1>9. \A i \in 1 .. Len(sent') : i \in 1 .. Len(sent) \/ i = Len(sent) + 1
  BY <1>8
<1>10. Kind' = Kind /\ Msg' = Msg
  BY <1>3 DEF Kind, Msg
<1>11. Msg \in 1 .. Len(kinds)
  <2>1. kinds # <<>> /\ kinds \in Seq(Kinds)
    BY <1>2, BusyTodo DEF Typed, ClientTyped
  <2> QED
    BY <2>1 DEF Msg
<1>12. SentTyped'
  BY <1>3, <1>7, <1>8, <1>9, <1>11 DEF Ordered, SentTyped
<1>13. Accepted = {j \in 1 .. Len(sent) : sent'[j].msg = Msg}
  BY <1>8 DEF Accepted
<1>14. PartsInOrder'
  <2> SUFFICES ASSUME NEW i \in 1 .. Len(sent')
               PROVE  sent'[i].part =
                        1 + Cardinality({j \in 1 .. i - 1 : sent'[j].msg = sent'[i].msg})
    BY <1>8 DEF PartsInOrder
  <2>1. CASE i \in 1 .. Len(sent)
    <3>1. \A j \in 1 .. i - 1 : j \in 1 .. Len(sent)
      BY <1>8, <2>1
    <3>2. {j \in 1 .. i - 1 : sent'[j].msg = sent'[i].msg}
            = {j \in 1 .. i - 1 : sent[j].msg = sent[i].msg}
      BY <1>8, <2>1, <3>1
    <3>3. sent[i].part = 1 + Cardinality({j \in 1 .. i - 1 : sent[j].msg = sent[i].msg})
      BY <1>8, <2>1 DEF Ordered, PartsInOrder
    <3> QED
      BY <1>8, <2>1, <3>2, <3>3
  <2>2. CASE i = Len(sent) + 1
    <3>1. i - 1 = Len(sent) /\ sent'[i].msg = Msg /\ sent'[i].part = next
      BY <1>7, <1>8, <2>2
    <3>2. {j \in 1 .. i - 1 : sent'[j].msg = sent'[i].msg} = Accepted
      BY <1>13, <3>1
    <3>3. 1 + (next - 1) = next
      BY <1>5
    <3>4. 1 + Cardinality({j \in 1 .. i - 1 : sent'[j].msg = sent'[i].msg}) = next
      BY <1>6, <3>2, <3>3
    <3> QED
      BY <3>1, <3>4
  <2> QED
    BY <1>9, <2>1, <2>2
<1>15. Cardinality(Accepted') = next
  <2>1. Accepted' = Accepted \cup {Len(sent) + 1}
    BY <1>7, <1>8, <1>9, <1>10, <1>13 DEF Accepted
  <2>2. Len(sent) + 1 \notin Accepted
    BY <1>8 DEF Accepted
  <2>3. IsFiniteSet(Accepted)
    <3>1. IsFiniteSet(1 .. Len(sent))
      BY <1>8, FS_Interval
    <3> QED
      BY <3>1, FS_Subset DEF Accepted
  <2>4. Cardinality(Accepted \cup {Len(sent) + 1}) = Cardinality(Accepted) + 1
    BY <2>2, <2>3, FS_AddElement
  <2>5. (next - 1) + 1 = next
    BY <1>5
  <2> QED
    BY <1>6, <2>1, <2>4, <2>5
<1>16. \E i \in 1 .. Len(sent') : sent'[i].msg = Msg' /\ sent'[i].part = next
  <2>1. Len(sent) + 1 \in 1 .. Len(sent')
    BY <1>8
  <2> QED
    BY <1>7, <1>8, <1>10, <2>1
<1>17. \A part : Has(part) => Has(part)'
  BY <1>8, <1>9, <1>10 DEF Has
<1>18. NoBody'
  <2>1. tx' = <<>>
    BY <1>1, TextRead
  <2>2. Len(tx') = 0
    BY <2>1, EmptyFacts, Zenon
  <2>3. \A k \in 1 .. 0 : FALSE
    OBVIOUS
  <2> QED
    BY <2>2, <2>3 DEF NoBody
<1>19. PartsCounted'
  BY <1>2, <1>3, <1>10, <1>15, <1>16, <1>18 DEF PartsCounted, Has
<1>20. PartsIn'
  BY <1>3, <1>10, <1>17 DEF Ordered, PartsIn
<1> QED
  BY <1>12, <1>14, <1>19, <1>20 DEF Ordered

\* The lines the modem adds while it accepts no text confirm nothing.
LEMMA NothingConfirmed ==
  ASSUME LinesTyped, NoConfirmation, NEW more \in Seq(LineSet),
         \A i \in 1 .. Len(more) : more[i].t # "cmgs",
         line' = line \o more
  PROVE  NoConfirmation'
<1>1. /\ line \in Seq(LineSet) /\ Len(line) \in Nat /\ Len(more) \in Nat
      /\ Len(line') = Len(line) + Len(more)
      /\ \A i \in 1 .. Len(line) : line'[i] = line[i]
      /\ \A i \in 1 .. Len(more) : line'[Len(line) + i] = more[i]
  BY JoinFacts DEF LinesTyped
<1>2. ASSUME NEW i \in 1 .. Len(line') PROVE line'[i].t # "cmgs"
  <2>1. CASE i \in 1 .. Len(line)
    BY <1>1, <2>1 DEF NoConfirmation
  <2>2. CASE i \notin 1 .. Len(line)
    <3>1. i - Len(line) \in 1 .. Len(more) /\ Len(line) + (i - Len(line)) = i
      BY <1>1, <2>2
    <3> QED
      BY <1>1, <3>1
  <2> QED
    BY <2>1, <2>2
<1> QED
  BY <1>2 DEF NoConfirmation

LEMMA NotConfirmed ==
  ASSUME LinesTyped, NoConfirmation, NEW e \in LineSet, e.t # "cmgs", line' = Append(line, e)
  PROVE  NoConfirmation'
<1>1. /\ Len(line) \in Nat /\ Len(line') = Len(line) + 1 /\ line'[Len(line) + 1] = e
      /\ \A i \in 1 .. Len(line) : line'[i] = line[i]
  BY AppendFacts DEF LinesTyped
<1>2. \A i \in 1 .. Len(line') : i \in 1 .. Len(line) \/ i = Len(line) + 1
  BY <1>1
<1> QED
  BY <1>1, <1>2 DEF NoConfirmation

\* The modem reads something and accepts nothing.
LEMMA ReadOrdered ==
  ASSUME Typed, Prompted, Ordered, tx # <<>>, tx' = Tail(tx), UNCHANGED clientVars,
         sent' = sent, NoConfirmation => NoConfirmation'
  PROVE  Ordered'
<1>1. /\ kinds' = kinds /\ todo' = todo /\ phase' = phase /\ ok' = ok /\ haveCmgs' = haveCmgs
  BY DEF clientVars
<1>2. NoBody <=> NoBody' /\ Head(tx).cmd # "body"
  BY TxShrinks DEF Typed
<1>3. CASE phase # "confirm"
  BY <1>1, <1>3, WaitOrdered
<1>4. CASE phase = "confirm"
  <2>1. ASSUME ~NoBody PROVE ~haveCmgs /\ NoConfirmation
    <3>1. ~haveCmgs
      BY <2>1 DEF NoBody, Prompted, OwnText
    <3>2. \A i \in 1 .. Len(line) : line[i].t = "data"
      BY <2>1, BodyMeansReports DEF Typed
    <3> QED
      BY <3>1, <3>2 DEF NoConfirmation
  <2> QED
    BY <1>1, <1>2, <1>4, <2>1, WaitOrdered
<1> QED
  BY <1>3, <1>4

LEMMA ModemOrdered ==
  ASSUME Typed, Prompted, Ordered, ModemAnswers \/ ModemRefuses
  PROVE  Ordered'
<1> DEFINE w == Head(tx)
<1>1. tx # <<>> /\ tx' = Tail(tx) /\ UNCHANGED clientVars
  BY DEF ModemAnswers, ModemRefuses
<1>2. LinesTyped /\ w \in WriteSet /\ dev \in DevSet
  BY <1>1, WritesShrink DEF Typed, ModemTyped, clientVars
<1>3. w.cmd \in Names
  BY <1>2, CommandsAreNoTexts DEF WriteSet, Names
<1>4. CASE TakesText(w)
  BY <1>1, <1>4, TakesTextOrdered
<1>5. CASE Swallowed(w)
  <2>1. line' = line /\ sent' = sent
    BY <1>5 DEF Swallowed
  <2> QED
    BY <1>1, <2>1, ReadOrdered DEF NoConfirmation
<1>6. CASE Command(w)
  <2>1. PICK cmd \in Commands : cmd = w.cmd
    BY <1>2, <1>6 DEF Command, WriteSet
  <2>2. PICK answer \in Answers(cmd) : line' = line \o answer
    BY <1>6, <2>1 DEF Command
  <2>3. answer \in Seq(LineSet) /\ \A i \in 1 .. Len(answer) : answer[i].t # "cmgs"
    BY <1>2, AnswersNoPrompt
  <2>4. NoConfirmation => NoConfirmation'
    BY <1>2, <2>2, <2>3, NothingConfirmed
  <2>5. sent' = sent
    BY <1>6 DEF Command
  <2> QED
    BY <1>1, <2>4, <2>5, ReadOrdered
<1>7. ASSUME sent' = sent, NEW t \in {"prompt", "error"}, line' = Append(line, Line(t, w.cmd, FALSE))
      PROVE  Ordered'
  <2>1. PICK e \in LineSet : e = Line(t, w.cmd, FALSE) /\ e.t # "cmgs"
    BY <1>3, OneLineTyped
  <2>2. NoConfirmation => NoConfirmation'
    BY <1>2, <1>7, <2>1, NotConfirmed
  <2> QED
    BY <1>1, <1>7, <2>2, ReadOrdered
<1>8. CASE OpensInput(w)
  BY <1>7, <1>8 DEF OpensInput, Error
<1>9. CASE sent' = sent /\ line' = Append(line, Error(w.cmd))
  BY <1>7, <1>9 DEF Error
<1> QED
  BY <1>4, <1>5, <1>6, <1>8, <1>9 DEF ModemAnswers, ModemRefuses, modemVars

\* The line after one more has come in between.
LEMMA LineGrows ==
  ASSUME line \in Seq(LineSet), NEW n \in 1 .. Len(line) + 1, NEW e \in LineSet,
         line' = InsertAt(line, n, e)
  PROVE  /\ Len(line') = Len(line) + 1 /\ Len(line) \in Nat
         /\ \A i \in 1 .. n - 1 : line'[i] = line[i]
         /\ line'[n] = e
         /\ \A i \in n .. Len(line) : line'[i + 1] = line[i]
<1>1. Len(line') = Len(line) + 1 /\ Len(line) \in Nat
  BY InsertFacts
<1>2. \A i \in 1 .. n - 1 : line'[i] = line[i]
  BY InsertFacts
<1>3. line'[n] = e
  BY InsertFacts
<1>4. \A i \in n .. Len(line) : line'[i + 1] = line[i]
  BY InsertFacts
<1> QED
  BY <1>1, <1>2, <1>3, <1>4

LEMMA UrcOrdered ==
  ASSUME Typed, Ordered, Urc
  PROVE  Ordered'
<1>1. /\ kinds' = kinds /\ todo' = todo /\ phase' = phase /\ ok' = ok /\ haveCmgs' = haveCmgs
      /\ tx' = tx /\ sent' = sent
  BY DEF Urc, clientVars, modemVars
<1>2. NoBody' <=> NoBody
  BY <1>1 DEF NoBody
<1>3. NoConfirmation => NoConfirmation'
  <2>1. PICK i \in 1 .. Len(line) + 1, e \in LineSet :
          e.t = "data" /\ line' = InsertAt(line, i, e)
    BY UrcInserts
  <2>2. line \in Seq(LineSet)
    BY DEF Typed, LinesTyped
  <2>3. /\ Len(line') = Len(line) + 1 /\ Len(line) \in Nat
        /\ \A k \in 1 .. i - 1 : line'[k] = line[k]
        /\ line'[i] = e
        /\ \A k \in i .. Len(line) : line'[k + 1] = line[k]
    BY <2>1, <2>2, LineGrows, Zenon
  <2>4. \A k \in 1 .. Len(line') :
          \/ k \in 1 .. i - 1 /\ k \in 1 .. Len(line)
          \/ k = i
          \/ k - 1 \in i .. Len(line) /\ k - 1 \in 1 .. Len(line) /\ (k - 1) + 1 = k
    BY <2>3
  <2>5. ASSUME NoConfirmation, NEW k \in 1 .. Len(line') PROVE line'[k].t # "cmgs"
    BY <2>1, <2>3, <2>4, <2>5 DEF NoConfirmation
  <2> QED
    BY <2>5 DEF NoConfirmation
<1> QED
  BY <1>1, <1>2, <1>3, WaitOrdered

LEMMA OrderedStep == Typed /\ Prompted /\ Ordered /\ [Next]_vars => Ordered'
<1> SUFFICES ASSUME Typed, Prompted, Ordered, [Next]_vars PROVE Ordered'
  OBVIOUS
<1>0. ClientTyped /\ LinesTyped /\ WritesTyped
  BY DEF Typed
<1>1. CASE \E kind \in Kinds : Start(kind)
  BY <1>1, StartOrdered
<1>2. CASE RestartGnssTask \/ UNCHANGED vars
  <2>1. /\ kinds' = kinds /\ todo' = todo /\ phase' = phase /\ ok' = ok /\ haveCmgs' = haveCmgs
        /\ tx' = tx /\ line' = line /\ sent' = sent
    BY <1>2 DEF RestartGnssTask, vars, clientVars, modemVars
  <2>2. (NoBody' <=> NoBody) /\ (NoConfirmation' <=> NoConfirmation)
    BY <2>1 DEF NoBody, NoConfirmation
  <2> QED
    BY <2>1, <2>2, WaitOrdered
<1>3. CASE Send
  <2>1. /\ kinds' = kinds /\ todo' = todo /\ phase = "send" /\ ok' = ok /\ sent' = sent
        /\ phase' \in {"prompt", "reply"}
    BY <1>3 DEF Send, modemVars
  <2> QED
    BY <2>1, WaitOrdered
<1>4. CASE SendFails
  <2>1. /\ kinds' = kinds /\ phase = "send" /\ sent' = sent
        /\ \/ phase' = "reply" /\ todo' = todo /\ ok' = ok
           \/ /\ todo' = Unsent /\ ok' = (ok /\ ~Decides(FALSE)) /\ phase' \in {"idle", "send"}
    BY <1>4 DEF SendFails, Proceed, modemVars
  <2> QED
    BY <1>0, <2>1, WaitOrdered, EndOrdered
<1>5. ASSUME Failed, phase # "idle", sent' = sent PROVE Ordered'
  <2>1. /\ kinds' = kinds /\ todo' = Follow(FALSE) /\ ok' = (ok /\ ~Decides(FALSE))
        /\ phase' \in {"idle", "send"}
    BY <1>5 DEF Failed, Proceed
  <2> QED
    BY <1>0, <1>5, <2>1, EndOrdered
<1>6. ASSUME Succeeded, phase # "idle", sent' = sent,
             Head(todo).role # "submit" \/ (phase = "confirm" /\ NoBody /\ haveCmgs)
      PROVE  Ordered'
  <2>1. todo # <<>> /\ ScriptedAs(todo)
    BY <1>0, <1>6, BusyTodo
  <2>2. /\ kinds' = kinds /\ todo' = Follow(TRUE) /\ phase' \in {"idle", "send"}
        /\ ok' = (ok /\ ~Decides(TRUE))
    BY <1>6 DEF Succeeded, Proceed
  <2>3. CASE Kind \in Sends
    <3>1. ok' = ok
      BY <1>0, <2>1, <2>2, <2>3, SendFollow DEF ClientTyped
    <3> QED
      BY <1>0, <1>6, <2>2, <3>1, EndOrdered
  <2>4. CASE Kind \notin Sends
    BY <1>6, <2>2, <2>4, SentStays DEF Ordered, PartsCounted, PartsIn
  <2> QED
    BY <2>3, <2>4
<1>7. CASE Reply
  <2>1. phase = "reply" /\ sent' = sent /\ Head(todo).role # "submit"
    BY <1>0, <1>7 DEF Reply, modemVars, ClientTyped
  <2>2. \/ Succeeded \/ Failed
        \/ kinds' = kinds /\ todo' = todo /\ phase' = phase /\ ok' = ok
    BY <1>7 DEF Reply
  <2> QED
    BY <1>5, <1>6, <2>1, <2>2, WaitOrdered
<1>8. CASE AwaitPrompt
  <2>1. phase = "prompt" /\ sent' = sent
    BY <1>8 DEF AwaitPrompt, modemVars
  <2>2. CASE Failed
    BY <1>5, <2>1, <2>2
  <2>3. CASE UNCHANGED clientVars
    BY <2>1, <2>3, WaitOrdered DEF clientVars
  <2>4. CASE /\ phase' = "confirm" /\ kinds' = kinds /\ todo' = todo /\ ok' = ok
             /\ tx' = Append(tx, Written("body", Msg, Head(todo).part))
    <3>1. todo # <<>>
      BY <1>0, <2>1, BusyTodo
    <3>2. PICK w \in WriteSet : w = Written("body", Msg, Head(todo).part) /\ w.cmd = "body"
      BY <1>0, <3>1, WrittenFacts
    <3>3. ~NoBody'
      BY <1>0, <2>4, <3>2, TxGrows
    <3> QED
      BY <2>1, <2>4, <3>3, WaitOrdered
  <2> QED
    BY <1>8, <2>2, <2>3, <2>4 DEF AwaitPrompt
<1>9. CASE BodyFails
  BY <1>5, <1>9 DEF BodyFails, modemVars
<1>10. CASE AwaitConfirmation
  <2>1. /\ phase = "confirm" /\ sent' = sent /\ tx' = tx /\ line # <<>> /\ line' = Tail(line)
    BY <1>10 DEF AwaitConfirmation, modemVars
  <2>2. Purge /\ (NoBody' <=> NoBody)
    BY <1>0, <2>1, ReadPurges DEF NoBody
  <2>3. NoConfirmation => NoConfirmation'
    BY <1>0, <2>2, PurgeKeepsConfirmation
  <2>4. CASE Failed
    BY <1>5, <2>1, <2>4
  <2>5. CASE Head(line).t = "ok" /\ haveCmgs /\ Succeeded
    <3>1. NoBody
      BY <1>0, <2>1, <2>5, BodyMeansReportFirst
    <3> QED
      BY <1>6, <2>1, <2>5, <3>1
  <2>6. CASE UNCHANGED clientVars
    BY <2>1, <2>2, <2>3, <2>6, WaitOrdered DEF clientVars
  <2>7. CASE /\ Head(line).t = "cmgs" /\ kinds' = kinds /\ todo' = todo /\ phase' = phase /\ ok' = ok
    <3>1. NoBody
      BY <1>0, <2>1, <2>7, BodyMeansReportFirst
    <3>2. ~NoConfirmation
      <4>1. 1 \in 1 .. Len(line) /\ Head(line) = line[1]
        BY <1>0, <2>1, TailFacts DEF LinesTyped
      <4> QED
        BY <2>7, <4>1 DEF NoConfirmation
    <3>3. SentTyped' /\ PartsInOrder' /\ Kind' = Kind /\ Accepted' = Accepted
          /\ \A part : Has(part)' <=> Has(part)
      BY <2>1, <2>7, SentStays DEF Ordered
    <3>4. PartsCounted'
      BY <2>1, <2>2, <2>7, <3>1, <3>2, <3>3 DEF Ordered, PartsCounted
    <3>5. PartsIn'
      BY <2>7, <3>3 DEF Ordered, PartsIn
    <3> QED
      BY <3>3, <3>4, <3>5 DEF Ordered
  <2> QED
    BY <1>10, <2>4, <2>5, <2>6, <2>7 DEF AwaitConfirmation
<1>11. CASE TimesOut \/ GivesUp
  BY <1>5, <1>11 DEF TimesOut, GivesUp, Waiting, modemVars
<1> QED
  BY <1>1, <1>2, <1>3, <1>4, <1>7, <1>8, <1>9, <1>10, <1>11, ModemOrdered, UrcOrdered
  DEF Next, Client

\* What the modem has accepted is counted rightly by where the current send stands.
THEOREM OrderInvariant == Spec => []Ordered
<1>1. Init => Ordered
  <2> SUFFICES ASSUME Init PROVE Ordered
    OBVIOUS
  <2>1. sent = <<>> /\ todo = <<>> /\ kinds = <<>>
    BY DEF Init
  <2> QED
    BY <2>1 DEF Ordered, SentTyped, PartsInOrder, PartsCounted, PartsIn
<1>2. Typed /\ Prompted /\ Ordered /\ [Next]_vars => Ordered'
  BY OrderedStep
<1> QED
  BY <1>1, <1>2, TypeInvariant, PromptInvariant, PTL DEF Spec

\* Whatever is lost, late or refused, the modem takes the parts of a message in
\* order and each of them once: what is given up on is not submitted again.
THEOREM PartsTakenInOrder == Spec => []PartsInOrder
<1>1. Ordered => PartsInOrder
  BY DEF Ordered
<1> QED
  BY <1>1, OrderInvariant, PTL

-----------------------------------------------------------------------------
(* Whose answer the next line is. *)

\* The lines that end a wait, and what is still going to be answered by one.
Finals == {i \in 1 .. Len(line) : line[i].t \in {"ok", "error", "prompt"}}
Pending == IF dev.input = NoInput THEN Len(tx) ELSE IF NoBody THEN 0 ELSE 1

\* No more answers are about than the client has given up on, and the one it waits for.
Credit ==
  Cardinality(Finals) + Pending <= used.late + (IF Waiting THEN 1 ELSE 0)

\* The steps that a submission of the current send has had an answer to, or has
\* given up on: at least two before the first one.
Answered(kind, n) ==
  IF kind = "gsm" THEN IF n = 5 THEN 1 ELSE IF n \in 2 .. 4 THEN 2 ELSE 0
  ELSE IF kind = "ucs2" THEN IF n = 4 THEN 1 ELSE IF n \in 1 .. 3 THEN 2 ELSE 0
  ELSE IF n = Parts + 3 THEN 1 ELSE IF n \in 3 .. Parts + 2 THEN 2 ELSE 0
Progress == IF todo # <<>> /\ Kind \in Sends THEN Answered(Kind, Len(todo)) ELSE 0

\* The modem waits for the text of the current submission, and has been given none of it.
Own == dev.input = Written("CMGS", Msg, Head(todo).part) /\ dev.clean
OwnOpen == phase = "prompt" /\ tx = <<>> /\ Own

\* A prompt, or a CMGS still to be read, that is not of the current submission has
\* been given up on, and so has an answer for every step of this send since.
StalePrompt == ~NoPrompt /\ ~OwnOpen => Cardinality(Finals) + Progress <= used.late
StaleSubmit ==
  dev.input = NoInput =>
    \A k \in 1 .. Len(tx) : tx[k].cmd = "CMGS" /\ ~(phase = "prompt" /\ k = Len(tx)) =>
      Cardinality(Finals) + k + Progress <= used.late

\* With at most two answers given up on, a text is given under its own CMGS.
TextUnderOwn == used.late <= 2 /\ phase = "confirm" /\ ~NoBody => Own /\ Len(tx) = 1
SentUnderOwn ==
  used.late <= 2 =>
    \A i \in 1 .. Len(sent) :
      sent[i].to = sent[i].msg /\ sent[i].of = sent[i].part /\ sent[i].whole

Credited == Credit /\ StalePrompt /\ StaleSubmit /\ TextUnderOwn /\ SentUnderOwn

-----------------------------------------------------------------------------

LEMMA Shifted ==
  ASSUME NEW A, NEW B, IsFiniteSet(B), NEW n \in Nat, A \subseteq Nat,
         \A a \in A : a + n \in B
  PROVE  IsFiniteSet(A) /\ Cardinality(A) <= Cardinality(B)
<1> DEFINE f == [a \in A |-> a + n]
<1>1. f \in [A -> B]
  OBVIOUS
<1>2. \A a, b \in A : f[a] = f[b] => a = b
  OBVIOUS
<1> HIDE DEF f
<1>3. f \in Injection(A, B)
  BY <1>1, <1>2, Fun_IsInj
<1> QED
  BY <1>3, FS_Injection

LEMMA FinalsCounted ==
  ASSUME LinesTyped
  PROVE  /\ IsFiniteSet(Finals) /\ Cardinality(Finals) \in Nat
         /\ Finals = {} <=> Cardinality(Finals) = 0
<1>1. IsFiniteSet(1 .. Len(line))
  BY FS_Interval DEF LinesTyped
<1>2. IsFiniteSet(Finals)
  BY <1>1, FS_Subset DEF Finals
<1> QED
  BY <1>2, FS_CardinalityType, FS_EmptySet

LEMMA FinalsNat ==
  LinesTyped => Cardinality(Finals) \in Nat /\ (Finals = {} <=> Cardinality(Finals) = 0)
BY FinalsCounted

LEMMA FinalsNext ==
  ASSUME LinesTyped'
  PROVE  Cardinality(Finals') \in Nat /\ (Finals' = {} <=> Cardinality(Finals') = 0)
<1>1. (Cardinality(Finals) \in Nat /\ (Finals = {} <=> Cardinality(Finals) = 0))'
  BY FinalsNat, PTL
<1> QED
  BY <1>1

LEMMA PurgedCount ==
  ASSUME LinesTyped, Purge
  PROVE  Cardinality(Finals') <= Cardinality(Finals)
<1>1. PICK n \in 0 .. Len(line) :
        /\ Len(line') = Len(line) - n /\ Len(line) \in Nat /\ Len(line') \in Nat
        /\ \A i \in 1 .. Len(line') : i + n \in 1 .. Len(line) /\ line'[i] = line[i + n]
  BY PurgeFacts
<1>2. n \in Nat /\ Finals' \subseteq Nat /\ \A a \in Finals' : a + n \in Finals
  BY <1>1 DEF Finals
<1>3. IsFiniteSet(Finals)
  BY FinalsCounted
<1> QED
  BY <1>2, <1>3, Shifted

\* Reading a line that ends a wait.
LEMMA ReadCount ==
  ASSUME LinesTyped, line # <<>>, line' = Tail(line), Head(line).t \in {"ok", "error", "prompt"}
  PROVE  Cardinality(Finals') <= Cardinality(Finals) - 1
<1>1. /\ Len(line) \in Nat \ {0} /\ Head(line) = line[1] /\ Len(line') = Len(line) - 1
      /\ \A i \in 1 .. Len(line') : line'[i] = line[i + 1]
  BY TailFacts DEF LinesTyped
<1>2. 1 \in Finals
  BY <1>1 DEF Finals
<1>3. IsFiniteSet(Finals) /\ Cardinality(Finals) \in Nat
  BY FinalsCounted
<1>4. IsFiniteSet(Finals \ {1}) /\ Cardinality(Finals \ {1}) = Cardinality(Finals) - 1
  BY <1>2, <1>3, FS_RemoveElement
<1>5. Finals' \subseteq Nat /\ \A a \in Finals' : a + 1 \in Finals \ {1}
  BY <1>1 DEF Finals
<1> QED
  BY <1>4, <1>5, Shifted

\* Reading another one.
LEMMA SkipCount ==
  ASSUME LinesTyped, line # <<>>, line' = Tail(line)
  PROVE  Cardinality(Finals') <= Cardinality(Finals)
BY ReadPurges, PurgedCount

LEMMA OneMore ==
  ASSUME LinesTyped, NEW x, Finals' \subseteq Finals \cup {x}
  PROVE  Cardinality(Finals') <= Cardinality(Finals) + 1
<1>1. IsFiniteSet(Finals) /\ Cardinality(Finals) \in Nat
  BY FinalsCounted
<1>2. IsFiniteSet(Finals \cup {x}) /\ Cardinality(Finals \cup {x}) <= Cardinality(Finals) + 1
  BY <1>1, FS_AddElement
<1>3. Cardinality(Finals') <= Cardinality(Finals \cup {x}) /\ IsFiniteSet(Finals')
  BY <1>2, FS_Subset
<1>4. Cardinality(Finals') \in Nat /\ Cardinality(Finals \cup {x}) \in Nat
  BY <1>2, <1>3, FS_CardinalityType
<1> QED
  BY <1>1, <1>2, <1>3, <1>4

\* The modem answers: only the last line of an answer can end a wait.
LEMMA AnswerCount ==
  ASSUME LinesTyped, NEW more \in Seq(LineSet),
         \A i \in 1 .. Len(more) :
           i = Len(more) \/ more[i].t \notin {"ok", "error", "prompt"},
         line' = line \o more
  PROVE  Cardinality(Finals') <= Cardinality(Finals) + 1
<1>1. /\ line \in Seq(LineSet) /\ Len(line) \in Nat /\ Len(more) \in Nat
      /\ Len(line') = Len(line) + Len(more)
      /\ \A i \in 1 .. Len(line) : line'[i] = line[i]
      /\ \A i \in 1 .. Len(more) : line'[Len(line) + i] = more[i]
  BY JoinFacts DEF LinesTyped
<1>2. ASSUME NEW i \in Finals' PROVE i \in Finals \cup {Len(line) + Len(more)}
  <2>1. i \in 1 .. Len(line') /\ line'[i].t \in {"ok", "error", "prompt"}
    BY DEF Finals
  <2>2. CASE i \in 1 .. Len(line)
    BY <1>1, <2>1, <2>2 DEF Finals
  <2>3. CASE i \notin 1 .. Len(line)
    <3>1. i - Len(line) \in 1 .. Len(more) /\ Len(line) + (i - Len(line)) = i
      BY <1>1, <2>1, <2>3
    <3>2. more[i - Len(line)].t \in {"ok", "error", "prompt"}
      BY <1>1, <2>1, <3>1
    <3>3. i - Len(line) = Len(more)
      BY <3>1, <3>2
    <3> QED
      BY <1>1, <3>1, <3>3
  <2> QED
    BY <2>2, <2>3
<1>3. Finals' \subseteq Finals \cup {Len(line) + Len(more)}
  BY <1>2
<1> QED
  BY <1>3, OneMore

LEMMA AppendCount ==
  ASSUME LinesTyped, NEW e \in LineSet, line' = Append(line, e)
  PROVE  Cardinality(Finals') <= Cardinality(Finals) + 1
<1>1. /\ Len(line) \in Nat /\ Len(line') = Len(line) + 1 /\ line'[Len(line) + 1] = e
      /\ \A i \in 1 .. Len(line) : line'[i] = line[i]
  BY AppendFacts DEF LinesTyped
<1>2. Finals' \subseteq Finals \cup {Len(line) + 1}
  BY <1>1 DEF Finals
<1> QED
  BY <1>2, OneMore

\* A report between the lines ends no wait.
LEMMA ReportCount ==
  ASSUME LinesTyped, NEW n \in 1 .. Len(line) + 1, NEW e \in LineSet, e.t = "data",
         line' = InsertAt(line, n, e)
  PROVE  Cardinality(Finals') <= Cardinality(Finals)
<1>1. /\ Len(line') = Len(line) + 1 /\ Len(line) \in Nat
      /\ \A k \in 1 .. n - 1 : line'[k] = line[k]
      /\ line'[n] = e
      /\ \A k \in n .. Len(line) : line'[k + 1] = line[k]
  BY InsertFacts DEF LinesTyped
<1> DEFINE f == [a \in Finals' |-> IF a < n THEN a ELSE a - 1]
<1>2. ASSUME NEW a \in Finals'
      PROVE  a \in Nat /\ a # n /\ (IF a < n THEN a ELSE a - 1) \in Finals
  <2>1. a \in 1 .. Len(line') /\ line'[a].t \in {"ok", "error", "prompt"} /\ a # n
    BY <1>1 DEF Finals
  <2>2. CASE a < n
    <3>1. a \in 1 .. n - 1 /\ a \in 1 .. Len(line)
      BY <1>1, <2>1, <2>2
    <3> QED
      BY <1>1, <2>1, <2>2, <3>1 DEF Finals
  <2>3. CASE ~(a < n)
    <3>1. a - 1 \in n .. Len(line) /\ (a - 1) + 1 = a /\ a - 1 \in 1 .. Len(line)
      <4>1. Len(line) \in Nat /\ a \in 1 .. Len(line) + 1
        BY <1>1, <2>1
      <4> QED
        BY <2>1, <2>3, <4>1, Slide
    <3> QED
      BY <1>1, <2>1, <2>3, <3>1 DEF Finals
  <2> QED
    BY <2>1, <2>2, <2>3
<1>3. f \in [Finals' -> Finals]
  BY <1>2
<1>4. \A a, b \in Finals' : f[a] = f[b] => a = b
  BY <1>2
<1> HIDE DEF f
<1>5. f \in Injection(Finals', Finals)
  BY <1>3, <1>4, Fun_IsInj
<1> QED
  BY <1>5, FS_Injection, FinalsCounted

LEMMA AnsweredSteps ==
  ASSUME ScriptedAs(todo), todo # <<>>, Kind \in Sends
  PROVE  LET n == Len(todo) IN
         /\ Answered(Kind, n) \in 0 .. 2
         /\ Answered(Kind, n - 1) \in 0 .. 2 /\ Answered(Kind, n - 1) <= Answered(Kind, n) + 1
         /\ Answered(Kind, LeftAfterFailure(Kind, n)) \in 0 .. 2
         /\ Answered(Kind, LeftAfterFailure(Kind, n)) <= Answered(Kind, n) + 1
         /\ Head(todo).role = "submit" => Answered(Kind, n) = 2
         /\ Head(todo).role # "blind" =>
              /\ Answered(Kind, LeftAfterFailure(Kind, n)) = 0
              /\ Answered(Kind, LeftAfterUnsent(Kind, n)) = 0
<1>0. Parts \in Nat \ {0}
  BY AtDialogAssumption
<1>1. CASE Kind = "gsm"
  <2>1. Len(todo) \in 1 .. 6
    BY <1>1, GsmHead
  <2>2. CASE Len(todo) = 6
    BY <1>1, <2>2, GsmHead, LeftValues DEF Answered
  <2>3. CASE Len(todo) = 5
    BY <1>1, <2>3, GsmHead, LeftValues DEF Answered, StepIs
  <2>4. CASE Len(todo) = 4
    BY <1>1, <2>4, GsmHead, LeftValues DEF Answered, StepIs
  <2>5. CASE Len(todo) = 3
    BY <1>1, <2>5, GsmHead, LeftValues DEF Answered, StepIs
  <2>6. CASE Len(todo) = 2
    BY <1>1, <2>6, GsmHead, LeftValues DEF Answered, StepIs
  <2>7. CASE Len(todo) = 1
    BY <1>1, <2>7, GsmHead, LeftValues DEF Answered
  <2> QED
    BY <2>1, <2>2, <2>3, <2>4, <2>5, <2>6, <2>7
<1>2. CASE Kind = "ucs2"
  <2>1. Len(todo) \in 1 .. 5
    BY <1>2, Ucs2Head
  <2>2. CASE Len(todo) = 5
    BY <1>2, <2>2, Ucs2Head, LeftValues DEF Answered
  <2>3. CASE Len(todo) = 4
    BY <1>2, <2>3, Ucs2Head, LeftValues DEF Answered, StepIs
  <2>4. CASE Len(todo) = 3
    BY <1>2, <2>4, Ucs2Head, LeftValues DEF Answered, StepIs
  <2>5. CASE Len(todo) = 2
    BY <1>2, <2>5, Ucs2Head, LeftValues DEF Answered, StepIs
  <2>6. CASE Len(todo) = 1
    BY <1>2, <2>6, Ucs2Head, LeftValues DEF Answered, StepIs
  <2> QED
    BY <2>1, <2>2, <2>3, <2>4, <2>5, <2>6
<1>3. CASE Kind = "long"
  <2>1. /\ Len(todo) \in 1 .. Parts + 4
        /\ \/ Len(todo) = 1 \/ Len(todo) = 2 \/ Len(todo) \in 3 .. Parts + 2
           \/ Len(todo) = Parts + 3 \/ Len(todo) = Parts + 4
    BY <1>3, LongHead, LongCases
  <2>2. CASE Len(todo) = Parts + 4
    BY <1>0, <1>3, <2>2, LongHead, LeftValues DEF Answered
  <2>3. CASE Len(todo) = Parts + 3
    BY <1>0, <1>3, <2>3, LongHead, LeftValues DEF Answered, StepIs
  <2>4. CASE Len(todo) \in 3 .. Parts + 2
    BY <1>0, <1>3, <2>4, LongHead, LeftValues DEF Answered, StepIs
  <2>5. CASE Len(todo) = 2
    BY <1>0, <1>3, <2>5, LongHead, LeftValues DEF Answered
  <2>6. CASE Len(todo) = 1
    BY <1>0, <1>3, <2>6, LongHead, LeftValues DEF Answered
  <2> QED
    BY <2>1, <2>2, <2>3, <2>4, <2>5, <2>6
<1> QED
  BY <1>1, <1>2, <1>3 DEF Sends

LEMMA ProgressSteps ==
  ASSUME ClientTyped, todo # <<>>, kinds' = kinds
  PROVE  /\ Progress \in 0 .. 2
         /\ todo' = todo => Progress' = Progress
         /\ todo' \in {Follow(TRUE), Follow(FALSE)} =>
              Progress' \in 0 .. 2 /\ Progress' <= Progress + 1
         /\ Head(todo).role = "submit" => Progress = 2 /\ (todo' = Follow(FALSE) => Progress' = 0)
         /\ Head(todo).role # "blind" /\ todo' = Unsent => Progress' = 0
<1>1. ScriptedAs(todo) /\ Kind' = Kind
  BY DEF ClientTyped, Kind
<1>2. todo' = todo => Progress' = Progress
  BY <1>1 DEF Progress
<1>3. CASE Kind \notin Sends
  <2>1. Head(todo).role # "submit"
    BY <1>3, SubmitPart
  <2> QED
    BY <1>1, <1>3, <2>1 DEF Progress
<1>4. CASE Kind \in Sends
  <2>1. /\ Len(Follow(TRUE)) = Len(todo) - 1
        /\ Len(Follow(FALSE)) = LeftAfterFailure(Kind, Len(todo))
        /\ Len(Unsent) = LeftAfterUnsent(Kind, Len(todo))
    BY <1>1, <1>4, SendFollow
  <2>2. Progress' = (IF todo' # <<>> THEN Answered(Kind, Len(todo')) ELSE 0)
    BY <1>1, <1>4 DEF Progress
  <2>3. Progress = Answered(Kind, Len(todo))
    BY <1>4 DEF Progress
  <2>4. Progress \in 0 .. 2
    BY <1>1, <1>4, <2>3, AnsweredSteps
  <2>5. ASSUME todo' \in {Follow(TRUE), Follow(FALSE)}
        PROVE  Progress' \in 0 .. 2 /\ Progress' <= Progress + 1
    <3>1. CASE todo' = <<>>
      BY <2>2, <2>4, <3>1
    <3>2. CASE todo' # <<>> /\ todo' = Follow(TRUE)
      BY <1>1, <1>4, <2>1, <2>2, <2>3, <3>2, AnsweredSteps
    <3>3. CASE todo' # <<>> /\ todo' = Follow(FALSE)
      BY <1>1, <1>4, <2>1, <2>2, <2>3, <3>3, AnsweredSteps
    <3> QED
      BY <2>5, <3>1, <3>2, <3>3
  <2>6. ASSUME Head(todo).role = "submit"
        PROVE  Progress = 2 /\ (todo' = Follow(FALSE) => Progress' = 0)
    <3>1. Progress = 2
      BY <1>1, <1>4, <2>3, <2>6, AnsweredSteps
    <3>2. Answered(Kind, LeftAfterFailure(Kind, Len(todo))) = 0
      BY <1>1, <1>4, <2>6, AnsweredSteps
    <3> QED
      BY <2>1, <2>2, <3>1, <3>2
  <2>7. ASSUME Head(todo).role # "blind", todo' = Unsent PROVE Progress' = 0
    <3>1. Answered(Kind, LeftAfterUnsent(Kind, Len(todo))) = 0
      BY <1>1, <1>4, <2>7, AnsweredSteps
    <3> QED
      BY <2>1, <2>2, <2>7, <3>1
  <2> QED
    BY <1>2, <2>4, <2>5, <2>6, <2>7
<1> QED
  BY <1>3, <1>4

LEMMA PendingTyped ==
  ASSUME WritesTyped, LinesTyped, CountsTyped
  PROVE  /\ Pending \in Nat /\ Cardinality(Finals) \in Nat /\ used.late \in Nat
         /\ Len(tx) \in Nat
BY FinalsCounted DEF Pending, WritesTyped, CountsTyped

\* A step ends by a line that ends its wait, or is given up on.
LEMMA EndCredited ==
  ASSUME Typed, Typed', Prompted, Credited, phase \in {"reply", "prompt", "confirm"}, NoBody,
         kinds' = kinds, todo' \in {Follow(TRUE), Follow(FALSE)},
         phase = "prompt" => todo' = Follow(FALSE),
         phase' \in {"idle", "send"}, tx' = tx, dev' = dev, sent' = sent,
         NoPrompt => NoPrompt',
         \/ used'.late = used.late /\ Cardinality(Finals') <= Cardinality(Finals) - 1
         \/ used'.late = used.late + 1 /\ Cardinality(Finals') <= Cardinality(Finals)
  PROVE  Credited'
<1>1. ClientTyped /\ WritesTyped /\ LinesTyped /\ CountsTyped
  BY DEF Typed
<1>2. WritesTyped' /\ LinesTyped' /\ CountsTyped'
  BY DEF Typed
<1>3. /\ Pending \in Nat /\ Cardinality(Finals) \in Nat /\ used.late \in Nat /\ Len(tx) \in Nat
  BY <1>1, PendingTyped
<1>4. Cardinality(Finals') \in Nat /\ used'.late \in Nat
  <2>1. Cardinality(Finals') \in Nat
    BY <1>2, FinalsNext
  <2>2. used' \in [late : Nat, errors : Nat, urcs : Nat]
    BY <1>2 DEF CountsTyped
  <2> QED
    BY <2>1, <2>2
<1>5. todo # <<>> /\ (phase = "prompt" => Head(todo).role = "submit")
  BY <1>1, BusyTodo DEF ClientTyped
<1>6. /\ Progress \in 0 .. 2 /\ Progress' \in 0 .. 2 /\ Progress' <= Progress + 1
      /\ phase = "prompt" => Progress' = 0
  BY <1>1, <1>5, ProgressSteps
<1>7. Waiting /\ ~Waiting'
  BY DEF Waiting
<1>8. Pending' = Pending
  BY DEF Pending, NoBody
<1>9. Cardinality(Finals) + Pending <= used.late + 1
  BY <1>7 DEF Credited, Credit
<1>10. Cardinality(Finals') + Pending <= used'.late
  BY <1>3, <1>4, <1>9
<1>11. Credit'
  BY <1>7, <1>8, <1>10, <1>4 DEF Credit
<1>12. phase = "confirm" => tx = <<>> /\ dev.input = NoInput /\ NoPrompt
  BY DEF Prompted, TextGiven, PromptsMatch
<1>13. StalePrompt'
  <2> SUFFICES ASSUME ~NoPrompt' PROVE Cardinality(Finals') + Progress' <= used'.late
    BY DEF StalePrompt
  <2>1. CASE phase = "prompt"
    BY <1>3, <1>4, <1>6, <1>10, <2>1
  <2>2. CASE phase = "reply"
    <3>1. Cardinality(Finals) + Progress <= used.late
      BY <2>2 DEF Credited, StalePrompt, OwnOpen
    <3> QED
      BY <1>3, <1>4, <1>6, <3>1
  <2> QED
    BY <1>12, <2>1, <2>2
<1>14. StaleSubmit'
  <2> SUFFICES ASSUME dev.input = NoInput, NEW k \in 1 .. Len(tx), tx[k].cmd = "CMGS"
               PROVE  Cardinality(Finals') + k + Progress' <= used'.late
    BY DEF StaleSubmit
  <2>1. CASE phase = "prompt"
    <3>1. Pending = Len(tx)
      BY DEF Pending
    <3> QED
      BY <1>3, <1>4, <1>6, <1>10, <2>1, <3>1
  <2>2. CASE phase = "reply"
    <3>1. Cardinality(Finals) + k + Progress <= used.late
      BY <2>2 DEF Credited, StaleSubmit
    <3> QED
      BY <1>3, <1>4, <1>6, <3>1, SMTT(30)
  <2>3. phase # "confirm"
    BY <1>3, <1>12
  <2> QED
    BY <2>1, <2>2, <2>3
<1>15. TextUnderOwn'
  BY DEF TextUnderOwn
<1>16. SentUnderOwn'
  BY <1>3, <1>4 DEF Credited, SentUnderOwn
<1> QED
  BY <1>11, <1>13, <1>14, <1>15, <1>16 DEF Credited

\* The client reads on, or nothing happens that matters here.
LEMMA WaitCredited ==
  ASSUME Typed, Typed', Credited, kinds' = kinds, todo' = todo, phase' = phase,
         tx' = tx, dev' = dev, sent' = sent, used'.late = used.late,
         NoPrompt => NoPrompt', Cardinality(Finals') <= Cardinality(Finals)
  PROVE  Credited'
<1>1. /\ Pending \in Nat /\ Cardinality(Finals) \in Nat /\ used.late \in Nat /\ Len(tx) \in Nat
  BY PendingTyped DEF Typed
<1>2. Cardinality(Finals') \in Nat
  <2>1. Cardinality(Finals') \in Nat
    BY FinalsNext DEF Typed
  <2> QED
    BY <2>1
<1>3. Progress' = Progress /\ Progress \in Nat
  <2>1. CASE todo = <<>>
    BY <2>1 DEF Progress
  <2>2. CASE todo # <<>>
    BY <2>2, ProgressSteps DEF Typed
  <2> QED
    BY <2>1, <2>2
<1>4. Pending' = Pending /\ (Waiting' <=> Waiting) /\ (OwnOpen' <=> OwnOpen) /\ (Own' <=> Own)
      /\ (NoBody' <=> NoBody)
  BY DEF Pending, NoBody, Waiting, OwnOpen, Own, Msg
<1>5. Credit'
  <2>1. Cardinality(Finals) + Pending <= used.late + (IF Waiting THEN 1 ELSE 0)
    BY DEF Credited, Credit
  <2>2. CASE Waiting
    BY <1>1, <1>2, <1>4, <2>1, <2>2 DEF Credit
  <2>3. CASE ~Waiting
    BY <1>1, <1>2, <1>4, <2>1, <2>3 DEF Credit
  <2> QED
    BY <2>2, <2>3
<1>6. StalePrompt'
  BY <1>1, <1>2, <1>3, <1>4 DEF Credited, StalePrompt
<1>7. StaleSubmit'
  <2> SUFFICES ASSUME dev.input = NoInput, NEW k \in 1 .. Len(tx), tx[k].cmd = "CMGS",
                      ~(phase = "prompt" /\ k = Len(tx))
               PROVE  Cardinality(Finals') + k + Progress' <= used'.late
    BY DEF StaleSubmit
  <2>1. Cardinality(Finals) + k + Progress <= used.late
    BY DEF Credited, StaleSubmit
  <2> QED
    BY <1>1, <1>2, <1>3, <2>1
<1>8. TextUnderOwn' /\ SentUnderOwn'
  BY <1>4 DEF Credited, TextUnderOwn, SentUnderOwn
<1> QED
  BY <1>5, <1>6, <1>7, <1>8 DEF Credited

\* A command is written, and its answer awaited.
LEMMA SendCredited ==
  ASSUME Typed, Typed', Prompted, Credited, Send
  PROVE  Credited'
<1>1. /\ phase = "send" /\ kinds' = kinds /\ todo' = todo /\ dev' = dev /\ sent' = sent
      /\ used' = used /\ Purge
      /\ phase' = IF Head(todo).role = "submit" THEN "prompt" ELSE "reply"
      /\ tx' = Append(tx, Written(Head(todo).cmd, Msg, Head(todo).part))
  BY DEF Send, modemVars
<1>2. ClientTyped /\ WritesTyped /\ LinesTyped /\ todo # <<>>
  BY <1>1, BusyTodo DEF Typed
<1>3. /\ Head(todo).cmd \in Commands
      /\ Head(todo).role = "submit" <=> Head(todo).cmd = "CMGS"
  BY <1>2, SubmitPart
<1>4. PICK w \in WriteSet :
        w = Written(Head(todo).cmd, Msg, Head(todo).part) /\ w.cmd = Head(todo).cmd
  <2>1. PICK cmd \in Commands : cmd = Head(todo).cmd
    BY <1>3
  <2> QED
    BY <1>2, <2>1, WrittenFacts
<1>5. /\ tx' # <<>> /\ Len(tx') = Len(tx) + 1
      /\ \A k \in 1 .. Len(tx') : (k \in 1 .. Len(tx) /\ tx'[k] = tx[k]) \/ (k = Len(tx') /\ tx'[k] = w)
      /\ NoBody' <=> NoBody
  BY <1>1, <1>2, <1>3, <1>4, TxGrows, CommandsAreNoTexts DEF Texts
<1>6. /\ Pending \in Nat /\ Cardinality(Finals) \in Nat /\ used.late \in Nat /\ Len(tx) \in Nat
  BY PendingTyped DEF Typed
<1>7. Cardinality(Finals') \in Nat /\ Cardinality(Finals') <= Cardinality(Finals)
  <2>1. Cardinality(Finals') \in Nat
    BY FinalsNext DEF Typed
  <2> QED
    BY <1>1, <1>2, <2>1, PurgedCount
<1>8. Progress \in Nat /\ Progress' = Progress
  BY <1>1, <1>2, ProgressSteps
<1>9. NoPrompt => NoPrompt'
  BY <1>1, <1>2, PurgeKeeps
<1>10. Credit'
  <2>1. Cardinality(Finals) + Pending <= used.late
    BY <1>1, <1>6 DEF Credited, Credit, Waiting
  <2>2. Pending' <= Pending + 1 /\ Pending' \in Nat
    BY <1>1, <1>5, <1>6 DEF Pending
  <2>3. Waiting'
    BY <1>1 DEF Waiting
  <2> QED
    BY <1>1, <1>6, <1>7, <2>1, <2>2, <2>3 DEF Credit
<1>11. StalePrompt'
  <2>1. ~NoPrompt' => Cardinality(Finals) + Progress <= used.late
    BY <1>1, <1>9 DEF Credited, StalePrompt, OwnOpen
  <2> QED
    BY <1>1, <1>6, <1>7, <1>8, <2>1 DEF StalePrompt
<1>12. StaleSubmit'
  <2> SUFFICES ASSUME dev.input = NoInput, NEW k \in 1 .. Len(tx'), tx'[k].cmd = "CMGS",
                      ~(phase' = "prompt" /\ k = Len(tx'))
               PROVE  Cardinality(Finals') + k + Progress' <= used'.late
    BY <1>1 DEF StaleSubmit
  <2>1. k \in 1 .. Len(tx) /\ tx'[k] = tx[k]
    BY <1>1, <1>3, <1>4, <1>5
  <2>2. Cardinality(Finals) + k + Progress <= used.late
    BY <1>1, <2>1 DEF Credited, StaleSubmit
  <2> QED
    BY <1>1, <1>6, <1>7, <1>8, <2>1, <2>2
<1>13. TextUnderOwn' /\ SentUnderOwn'
  BY <1>1 DEF Credited, TextUnderOwn, SentUnderOwn
<1> QED
  BY <1>10, <1>11, <1>12, <1>13 DEF Credited

LEMMA SendFailsCredited ==
  ASSUME Typed, Typed', Prompted, Credited, SendFails
  PROVE  Credited'
<1>1. /\ phase = "send" /\ kinds' = kinds /\ dev' = dev /\ sent' = sent /\ tx' = tx /\ Purge
      /\ \/ phase' = "reply" /\ todo' = todo
         \/ phase' \in {"idle", "send"} /\ todo' = Unsent /\ Head(todo).role # "blind"
  BY DEF SendFails, modemVars, Proceed
<1>2. ClientTyped /\ WritesTyped /\ LinesTyped /\ todo # <<>>
  BY <1>1, BusyTodo DEF Typed
<1>3. used'.late = used.late
  BY DEF SendFails, Err, Typed, CountsTyped
<1>4. /\ Pending \in Nat /\ Cardinality(Finals) \in Nat /\ used.late \in Nat /\ Len(tx) \in Nat
  BY PendingTyped DEF Typed
<1>5. Cardinality(Finals') \in Nat /\ Cardinality(Finals') <= Cardinality(Finals)
  <2>1. Cardinality(Finals') \in Nat
    BY FinalsNext DEF Typed
  <2> QED
    BY <1>1, <1>2, <2>1, PurgedCount
<1>6. Progress \in Nat /\ Progress' \in Nat /\ Progress' <= Progress
  BY <1>1, <1>2, ProgressSteps
<1>7. NoPrompt => NoPrompt'
  BY <1>1, <1>2, PurgeKeeps
<1>8. Credit'
  <2>1. Cardinality(Finals) + Pending <= used.late
    BY <1>1, <1>4 DEF Credited, Credit, Waiting
  <2>2. Pending' = Pending
    BY <1>1 DEF Pending, NoBody
  <2>3. Cardinality(Finals') + Pending' <= used'.late
    BY <1>3, <1>4, <1>5, <2>1, <2>2
  <2> QED
    BY <1>3, <1>4, <1>5, <2>2, <2>3 DEF Credit
<1>9. StalePrompt'
  <2>1. ~NoPrompt' => Cardinality(Finals) + Progress <= used.late
    BY <1>1, <1>7 DEF Credited, StalePrompt, OwnOpen
  <2> QED
    BY <1>3, <1>4, <1>5, <1>6, <2>1 DEF StalePrompt
<1>10. StaleSubmit'
  <2> SUFFICES ASSUME dev.input = NoInput, NEW k \in 1 .. Len(tx), tx[k].cmd = "CMGS"
               PROVE  Cardinality(Finals') + k + Progress' <= used'.late
    BY <1>1 DEF StaleSubmit
  <2>1. Cardinality(Finals) + k + Progress <= used.late
    BY <1>1 DEF Credited, StaleSubmit
  <2> QED
    BY <1>3, <1>4, <1>5, <1>6, <2>1
<1>11. TextUnderOwn' /\ SentUnderOwn'
  BY <1>1, <1>3 DEF Credited, TextUnderOwn, SentUnderOwn
<1> QED
  BY <1>8, <1>9, <1>10, <1>11 DEF Credited

LEMMA StartCredited ==
  ASSUME Typed, Typed', Credited, NEW kind \in Kinds, Start(kind)
  PROVE  Credited'
<1>1. /\ phase = "idle" /\ phase' = "send" /\ kinds' = Append(kinds, kind)
      /\ todo' = Script(kind) /\ tx' = tx /\ line' = line /\ dev' = dev /\ sent' = sent
      /\ used' = used
  BY DEF Start, modemVars
<1>2. kinds \in Seq(Kinds) /\ todo = <<>>
  BY <1>1 DEF Typed, ClientTyped
<1>3. Kind' = kind
  <2>1. /\ Len(kinds') = Len(kinds) + 1 /\ kinds'[Len(kinds) + 1] = kind
    BY <1>1, <1>2, AppendFacts
  <2> QED
    BY <2>1 DEF Kind, Last
<1>4. Progress' = 0 /\ Progress = 0
  <2>1. Progress = 0
    BY <1>2 DEF Progress
  <2>2. CASE kind \in Sends
    <3>1. Len(Script(kind)) = LengthOf(kind)
      BY <2>2, SendScripts
    <3>2. Answered(kind, LengthOf(kind)) = 0
      BY <2>2, AtDialogAssumption, GsmStepOf, Ucs2StepOf, LongStepOf DEF Sends, Answered
    <3> QED
      BY <1>1, <1>3, <2>1, <3>1, <3>2 DEF Progress
  <2>3. CASE kind \notin Sends
    BY <1>3, <2>1, <2>3 DEF Progress
  <2> QED
    BY <2>2, <2>3
<1>5. /\ Finals' = Finals /\ Pending' = Pending /\ (NoPrompt' <=> NoPrompt)
      /\ (Waiting' <=> Waiting)
  BY <1>1 DEF Finals, Pending, NoBody, NoPrompt, Waiting
<1>6. Credit'
  BY <1>1, <1>5 DEF Credited, Credit
<1>7. StalePrompt'
  <2>1. ~OwnOpen
    BY <1>1 DEF OwnOpen
  <2> QED
    BY <1>1, <1>4, <1>5, <2>1 DEF Credited, StalePrompt
<1>8. StaleSubmit'
  BY <1>1, <1>4, <1>5 DEF Credited, StaleSubmit
<1>9. TextUnderOwn' /\ SentUnderOwn'
  BY <1>1 DEF Credited, TextUnderOwn, SentUnderOwn
<1> QED
  BY <1>6, <1>7, <1>8, <1>9 DEF Credited

\* The prompt is read: with at most two answers given up on, it is that of the
\* submission, so the text that follows is given under its own CMGS.
LEMMA PromptReadCredited ==
  ASSUME Typed, Typed', Prompted, Credited, phase = "prompt", phase' = "confirm",
         line # <<>>, line' = Tail(line), Head(line).t = "prompt",
         tx' = Append(tx, Written("body", Msg, Head(todo).part)),
         kinds' = kinds, todo' = todo, dev' = dev, sent' = sent, used' = used
  PROVE  Credited'
<1>1. ClientTyped /\ WritesTyped /\ LinesTyped /\ todo # <<>> /\ Head(todo).role = "submit"
  BY BusyTodo DEF Typed, ClientTyped
<1>2. PICK w \in WriteSet : w = Written("body", Msg, Head(todo).part) /\ w.cmd = "body"
  BY <1>1, WrittenFacts
<1>3. /\ Len(tx') = Len(tx) + 1 /\ Len(tx) \in Nat /\ NoBody' <=> FALSE
  BY <1>1, <1>2, TxGrows
<1>4. /\ Len(line) \in Nat \ {0} /\ Head(line) = line[1] /\ Len(line') = Len(line) - 1
      /\ \A i \in 1 .. Len(line') : line'[i] = line[i + 1]
  BY <1>1, TailFacts DEF LinesTyped
<1>5. ~NoPrompt
  BY <1>4 DEF NoPrompt
<1>6. dev.input # NoInput /\ NoPrompt'
  <2>1. dev.input # NoInput
    BY <1>5 DEF Prompted, PromptsMatch
  <2>2. 1 \in 1 .. Len(line) /\ \A i \in 1 .. Len(line') : i + 1 \in 1 + 1 .. Len(line)
    BY <1>4
  <2>3. \A i \in 1 .. Len(line') : line'[i].t = "data"
    BY <1>4, <2>2 DEF Prompted, LastPrompt
  <2> QED
    BY <2>1, <2>3 DEF NoPrompt
<1>7. NoBody
  BY <1>6, <1>5, BodyMeansReports, <1>1
<1>8. /\ Cardinality(Finals) \in Nat /\ used.late \in Nat
      /\ Cardinality(Finals') <= Cardinality(Finals) - 1
  BY <1>1, PendingTyped, ReadCount DEF Typed
<1>9. Cardinality(Finals') \in Nat
  <2>1. Cardinality(Finals') \in Nat
    BY FinalsNext DEF Typed
  <2> QED
    BY <2>1
<1>10. Credit'
  <2>1. Waiting /\ Waiting' /\ Pending = 0 /\ Pending' = 1
    BY <1>3, <1>6, <1>7 DEF Waiting, Pending
  <2> QED
    BY <1>8, <1>9, <2>1 DEF Credited, Credit
<1>11. StalePrompt' /\ StaleSubmit'
  BY <1>6 DEF StalePrompt, StaleSubmit
<1>12. TextUnderOwn'
  <2> SUFFICES ASSUME used.late <= 2 PROVE Own' /\ Len(tx') = 1
    BY DEF TextUnderOwn
  <2>1. Progress = 2
    BY <1>1, ProgressSteps
  <2>2. OwnOpen
    <3> SUFFICES ASSUME ~OwnOpen PROVE FALSE
      OBVIOUS
    <3>1. Cardinality(Finals) + 2 <= used.late
      BY <1>5, <2>1 DEF Credited, StalePrompt
    <3> QED
      BY <1>8, <1>9, <3>1
  <2>3. Own'
    BY <2>2 DEF OwnOpen, Own, Msg
  <2> QED
    BY <1>3, <2>2, <2>3 DEF OwnOpen
<1>13. SentUnderOwn'
  BY DEF Credited, SentUnderOwn
<1> QED
  BY <1>10, <1>11, <1>12, <1>13 DEF Credited

\* The prompt is read and the text not written, or not to its end.
LEMMA BodyFailsCredited ==
  ASSUME Typed, Typed', Prompted, Credited, BodyFails
  PROVE  Credited'
<1>1. /\ phase = "prompt" /\ phase' \in {"idle", "send"} /\ line # <<>> /\ line' = Tail(line)
      /\ Head(line).t = "prompt" /\ dev' = dev /\ sent' = sent
      /\ tx' = tx \/ tx' = Append(tx, Written("text", Msg, Head(todo).part))
  BY DEF BodyFails, modemVars, Failed, Proceed
<1>2. ClientTyped /\ WritesTyped /\ LinesTyped /\ todo # <<>>
  BY <1>1, BusyTodo DEF Typed
<1>3. used'.late = used.late
  BY DEF BodyFails, Err, Typed, CountsTyped
<1>4. /\ Len(line) \in Nat \ {0} /\ Head(line) = line[1] /\ Len(line') = Len(line) - 1
      /\ \A i \in 1 .. Len(line') : line'[i] = line[i + 1]
  BY <1>1, <1>2, TailFacts DEF LinesTyped
<1>5. ~NoPrompt
  BY <1>1, <1>4 DEF NoPrompt
<1>6. dev.input # NoInput /\ NoPrompt'
  <2>1. dev.input # NoInput
    BY <1>5 DEF Prompted, PromptsMatch
  <2>2. 1 \in 1 .. Len(line) /\ \A i \in 1 .. Len(line') : i + 1 \in 1 + 1 .. Len(line)
    BY <1>4
  <2>3. \A i \in 1 .. Len(line') : line'[i].t = "data"
    BY <1>1, <1>4, <2>2 DEF Prompted, LastPrompt
  <2> QED
    BY <2>1, <2>3 DEF NoPrompt
<1>7. NoBody
  BY <1>1, BodyOnlyToConfirm DEF Prompted
<1>8. NoBody'
  <2>1. CASE tx' = tx
    BY <1>7, <2>1 DEF NoBody
  <2>2. CASE tx' = Append(tx, Written("text", Msg, Head(todo).part))
    <3>1. PICK w \in WriteSet : w = Written("text", Msg, Head(todo).part) /\ w.cmd = "text"
      BY <1>2, WrittenFacts
    <3> QED
      BY <1>2, <1>7, <2>2, <3>1, TxGrows
  <2> QED
    BY <1>1, <2>1, <2>2
<1>9. /\ Cardinality(Finals) \in Nat /\ used.late \in Nat
      /\ Cardinality(Finals') <= Cardinality(Finals) - 1
  BY <1>1, <1>2, PendingTyped, ReadCount DEF Typed
<1>10. Cardinality(Finals') \in Nat
  <2>1. Cardinality(Finals') \in Nat
    BY FinalsNext DEF Typed
  <2> QED
    BY <2>1
<1>11. Credit'
  <2>1. Waiting /\ ~Waiting' /\ Pending = 0 /\ Pending' = 0
    BY <1>1, <1>6, <1>7, <1>8 DEF Waiting, Pending
  <2> QED
    BY <1>3, <1>9, <1>10, <2>1 DEF Credited, Credit
<1>12. StalePrompt' /\ StaleSubmit'
  BY <1>1, <1>6 DEF StalePrompt, StaleSubmit
<1>13. TextUnderOwn' /\ SentUnderOwn'
  BY <1>1, <1>3 DEF Credited, TextUnderOwn, SentUnderOwn
<1> QED
  BY <1>11, <1>12, <1>13 DEF Credited

LEMMA TimesOutCredited ==
  ASSUME Typed, Typed', Prompted, Credited, TimesOut
  PROVE  Credited'
<1>1. /\ phase' \in {"idle", "send"} /\ tx' = tx /\ line' = line /\ dev' = dev
      /\ sent' = sent /\ used' = used /\ line = <<>>
      /\ tx = <<>> \/ (dev.input # NoInput /\ \A i \in DOMAIN tx : tx[i].cmd # "body")
  BY DEF TimesOut, Silent, Failed, Proceed, modemVars
<1>2. NoBody /\ used.late \in Nat
  BY <1>1 DEF NoBody, Typed, WritesTyped, CountsTyped
<1>3. Pending' = 0
  BY <1>1, <1>2 DEF Pending, NoBody
<1>4. Finals' = {} /\ NoPrompt'
  BY <1>1 DEF Finals, NoPrompt
<1>5. Cardinality({}) = 0
  BY FS_EmptySet
<1>6. Credit'
  BY <1>1, <1>2, <1>3, <1>4, <1>5 DEF Credit
<1>7. StalePrompt' /\ StaleSubmit'
  BY <1>1, <1>4 DEF StalePrompt, StaleSubmit
<1>8. TextUnderOwn' /\ SentUnderOwn'
  BY <1>1 DEF Credited, TextUnderOwn, SentUnderOwn
<1> QED
  BY <1>6, <1>7, <1>8 DEF Credited

LEMMA AnswersEndOnce ==
  ASSUME NEW cmd \in Commands, dev \in DevSet, NEW answer \in Answers(cmd)
  PROVE  /\ answer \in Seq(LineSet)
         /\ \A i \in 1 .. Len(answer) : i = Len(answer) \/ answer[i].t = "data"
<1>1. answer \in Seq(LineSet)
  BY AnswersTyped
<1>2. CASE cmd \in Queries
  <2>1. PICK v \in Says(cmd) : answer = <<Line("data", cmd, v), OK(cmd)>>
    BY <1>2 DEF Answers
  <2>2. Line("data", cmd, v).t = "data"
    BY DEF Line
  <2>3. Len(answer) = 2 /\ answer[1] = Line("data", cmd, v)
    BY <2>1
  <2> QED
    BY <1>1, <2>2, <2>3
<1>3. CASE cmd \notin Queries
  <2>1. Len(answer) = 1
    BY <1>3 DEF Answers
  <2> QED
    BY <1>1, <2>1
<1> QED
  BY <1>2, <1>3

\* The modem reads something while it waits for no text, answers it and opens no prompt.
LEMMA ClosedCredited ==
  ASSUME Typed, Typed', Prompted', Credited, tx # <<>>, tx' = Tail(tx), kinds' = kinds,
         todo' = todo, phase' = phase, dev.input = NoInput, dev'.input = NoInput, sent' = sent,
         used'.late = used.late, Cardinality(Finals') <= Cardinality(Finals) + 1
  PROVE  Credited'
<1>1. WritesTyped /\ ClientTyped
  BY DEF Typed
<1>2. /\ Len(tx') = Len(tx) - 1 /\ Len(tx) \in Nat \ {0} /\ Len(tx') \in Nat
      /\ \A k \in 1 .. Len(tx') : k + 1 \in 1 .. Len(tx) /\ tx'[k] = tx[k + 1]
  BY <1>1, TxShrinks
<1>3. /\ Cardinality(Finals) \in Nat /\ used.late \in Nat
  BY PendingTyped DEF Typed
<1>4. Cardinality(Finals') \in Nat
  <2>1. Cardinality(Finals') \in Nat
    BY FinalsNext DEF Typed
  <2> QED
    BY <2>1
<1>5. Progress' = Progress /\ Progress \in Nat
  <2>1. CASE todo = <<>>
    BY <2>1 DEF Progress
  <2>2. CASE todo # <<>>
    BY <1>1, <2>2, ProgressSteps
  <2> QED
    BY <2>1, <2>2
<1>6. NoPrompt' /\ NoTexts'
  BY DEF Prompted, PromptsMatch
<1>7. Credit'
  <2>1. Pending = Len(tx) /\ Pending' = Len(tx')
    BY DEF Pending
  <2>2. Waiting' <=> Waiting
    BY DEF Waiting
  <2>3. CASE Waiting
    BY <1>2, <1>3, <1>4, <2>1, <2>2, <2>3 DEF Credited, Credit
  <2>4. CASE ~Waiting
    BY <1>2, <1>3, <1>4, <2>1, <2>2, <2>4 DEF Credited, Credit
  <2> QED
    BY <2>3, <2>4
<1>8. StalePrompt'
  BY <1>6 DEF StalePrompt
<1>9. StaleSubmit'
  <2> SUFFICES ASSUME NEW k \in 1 .. Len(tx'), tx'[k].cmd = "CMGS",
                      ~(phase = "prompt" /\ k = Len(tx'))
               PROVE  Cardinality(Finals') + k + Progress' <= used'.late
    BY DEF StaleSubmit
  <2>1. k + 1 \in 1 .. Len(tx) /\ tx[k + 1].cmd = "CMGS" /\ ~(phase = "prompt" /\ k + 1 = Len(tx))
    <3>1. k + 1 \in 1 .. Len(tx) /\ tx[k + 1] = tx'[k]
      BY <1>2, Zenon
    <3>2. k + 1 = Len(tx) => k = Len(tx')
      <4>1. \A m, n, i \in Int : m = n - 1 /\ i + 1 = n => i = m
        OBVIOUS
      <4>2. \A n \in Nat : n \in Int /\ 1 .. n \subseteq Int
        OBVIOUS
      <4> QED
        BY <1>2, <4>1, <4>2, Zenon
    <3> QED
      BY <3>1, <3>2, Zenon
  <2>2. Cardinality(Finals) + (k + 1) + Progress <= used.late
    BY <2>1 DEF Credited, StaleSubmit
  <2>3. Cardinality(Finals') + k <= Cardinality(Finals) + (k + 1)
    <3>1. \A a \in Nat, b \in Nat, i \in Nat : a <= b + 1 => a + i <= b + (i + 1)
      OBVIOUS
    <3>2. k \in Nat
      <4>1. \A n \in Nat : 1 .. n \subseteq Nat
        OBVIOUS
      <4> QED
        BY <1>2, <4>1, Zenon
    <3> QED
      BY <1>3, <1>4, <3>1, <3>2, Zenon
  <2>4. \A a, b, p, u, i \in Nat :
          a + i <= b + (i + 1) /\ b + (i + 1) + p <= u => a + i + p <= u
    OBVIOUS
  <2>5. k \in Nat
    <3>1. \A n \in Nat : 1 .. n \subseteq Nat
      OBVIOUS
    <3> QED
      BY <1>2, <3>1, Zenon
  <2> QED
    BY <1>3, <1>4, <1>5, <2>2, <2>3, <2>4, <2>5, Zenon
<1>10. NoBody'
  BY <1>6 DEF NoTexts, NoBody, Texts
<1>11. TextUnderOwn' /\ SentUnderOwn'
  BY <1>10 DEF Credited, TextUnderOwn, SentUnderOwn
<1> QED
  BY <1>7, <1>8, <1>9, <1>11 DEF Credited

\* The text is read, and taken or refused.
LEMMA TextEndCredited ==
  ASSUME Typed, Typed', Prompted, Prompted', Credited, tx # <<>>, tx' = Tail(tx),
         kinds' = kinds, todo' = todo, phase' = phase, Head(tx).cmd = "body",
         dev'.input = NoInput, used'.late = used.late,
         Cardinality(Finals') <= Cardinality(Finals) + 1, SentUnderOwn'
  PROVE  Credited'
<1>1. /\ phase = "confirm" /\ ~NoBody /\ tx' = <<>>
  BY TextRead
<1>2. dev.input # NoInput
  BY <1>1, BodyMeansReports DEF Typed
<1>3. Pending = 1 /\ Pending' = 0
  BY <1>1, <1>2 DEF Pending
<1>4. Cardinality(Finals) \in Nat /\ used.late \in Nat
  BY PendingTyped DEF Typed
<1>5. Cardinality(Finals') \in Nat
  <2>1. Cardinality(Finals') \in Nat
    BY FinalsNext DEF Typed
  <2> QED
    BY <2>1
<1>6. Credit'
  <2>1. Waiting /\ Waiting'
    BY <1>1 DEF Waiting
  <2> QED
    BY <1>3, <1>4, <1>5, <2>1 DEF Credited, Credit
<1>7. StalePrompt'
  BY DEF Prompted, PromptsMatch, StalePrompt
<1>8. StaleSubmit' /\ TextUnderOwn'
  <2>1. \A k \in 1 .. Len(tx') : FALSE
    BY <1>1, EmptyFacts, Zenon
  <2>2. NoBody'
    BY <2>1 DEF NoBody
  <2>3. StaleSubmit'
    BY <2>1 DEF StaleSubmit
  <2>4. TextUnderOwn'
    BY <2>2 DEF TextUnderOwn
  <2> QED
    BY <2>3, <2>4
<1> QED
  BY <1>6, <1>7, <1>8 DEF Credited

LEMMA TakesTextCredited ==
  ASSUME Typed, Typed', Prompted, Prompted', Credited, tx # <<>>, tx' = Tail(tx),
         UNCHANGED <<clientVars, used>>, TakesText(Head(tx))
  PROVE  Credited'
<1>1. /\ Head(tx).cmd = "body" /\ dev' = [dev EXCEPT !.input = NoInput, !.clean = TRUE]
      /\ sent' = Append(sent, [msg |-> Head(tx).msg, part |-> Head(tx).part, to |-> dev.input.msg,
                               of |-> dev.input.part, whole |-> dev.clean, as |-> Encoded])
      /\ line' = line \o <<Line("cmgs", Head(tx).cmd, FALSE), OK(Head(tx).cmd)>>
  BY DEF TakesText
<1>2. kinds' = kinds /\ todo' = todo /\ phase' = phase /\ used'.late = used.late
  BY DEF clientVars
<1>3. dev \in DevSet /\ LinesTyped /\ sent \in Seq(SentSet)
  BY DEF Typed, ModemTyped
<1>4. dev'.input = NoInput
  BY <1>1, <1>3 DEF DevSet
<1>5. Cardinality(Finals') <= Cardinality(Finals) + 1
  <2>1. Head(tx).cmd \in Names
    BY <1>1 DEF Names
  <2>2. PICK a \in LineSet, b \in LineSet : a.t = "cmgs" /\ line' = line \o <<a, b>>
    BY <1>1, <2>1, OneLineTyped DEF OK
  <2>3. <<a, b>> \in Seq(LineSet) /\ Len(<<a, b>>) = 2 /\ <<a, b>>[1] = a
    BY <2>2
  <2>4. \A i \in 1 .. Len(<<a, b>>) :
          i = Len(<<a, b>>) \/ <<a, b>>[i].t \notin {"ok", "error", "prompt"}
    BY <2>2, <2>3
  <2> QED
    BY <1>3, <2>2, <2>3, <2>4, AnswerCount
<1>6. SentUnderOwn'
  <2> SUFFICES ASSUME used.late <= 2, NEW i \in 1 .. Len(sent')
               PROVE  sent'[i].to = sent'[i].msg /\ sent'[i].of = sent'[i].part /\ sent'[i].whole
    BY DEF SentUnderOwn
  <2>1. /\ phase = "confirm" /\ ~NoBody /\ Head(tx).msg = Msg /\ Head(tx).part = Head(todo).part
    BY <1>1, TextRead
  <2>2. dev.input = Written("CMGS", Msg, Head(todo).part) /\ dev.clean
    BY <2>1 DEF Credited, TextUnderOwn, Own
  <2>3. dev.input.msg = Msg /\ dev.input.part = Head(todo).part
    BY <2>2 DEF Written
  <2>4. PICK e : sent' = Append(sent, e) /\ e.to = e.msg /\ e.of = e.part /\ e.whole
    BY <1>1, <2>1, <2>2, <2>3
  <2>5. /\ Len(sent') = Len(sent) + 1 /\ Len(sent) \in Nat /\ sent'[Len(sent) + 1] = e
        /\ \A k \in 1 .. Len(sent) : sent'[k] = sent[k]
    BY <1>3, <2>4
  <2>6. CASE i \in 1 .. Len(sent)
    BY <2>5, <2>6 DEF Credited, SentUnderOwn
  <2>7. CASE i = Len(sent) + 1
    BY <2>4, <2>5, <2>7
  <2> QED
    BY <2>5, <2>6, <2>7
<1> QED
  BY <1>1, <1>2, <1>4, <1>5, <1>6, TextEndCredited

LEMMA SwallowedCredited ==
  ASSUME Typed, Typed', Prompted, Credited, tx # <<>>, tx' = Tail(tx),
         UNCHANGED <<clientVars, used>>, dev.input # NoInput, Swallowed(Head(tx))
  PROVE  Credited'
<1>1. /\ Head(tx).cmd # "body" /\ dev' = [dev EXCEPT !.clean = FALSE] /\ line' = line /\ sent' = sent
  BY DEF Swallowed
<1>2. kinds' = kinds /\ todo' = todo /\ phase' = phase /\ used' = used
  BY DEF clientVars
<1>3. dev'.input = dev.input /\ ~dev'.clean
  BY <1>1 DEF Typed, ModemTyped, DevSet
<1>4. NoBody' <=> NoBody
  BY <1>1, TxShrinks DEF Typed
<1>5. Pending' = Pending /\ Finals' = Finals /\ (NoPrompt' <=> NoPrompt) /\ (Waiting' <=> Waiting)
      /\ Progress' = Progress
  BY <1>1, <1>2, <1>3, <1>4 DEF Pending, Finals, NoPrompt, Waiting, Progress, Kind
<1>6. Credit'
  BY <1>2, <1>5 DEF Credited, Credit
<1>7. ~OwnOpen
  BY DEF OwnOpen
<1>8. StalePrompt' /\ StaleSubmit'
  BY <1>2, <1>3, <1>5, <1>7 DEF Credited, StalePrompt, StaleSubmit
<1>9. TextUnderOwn'
  <2> SUFFICES ASSUME used.late <= 2, phase = "confirm", ~NoBody PROVE FALSE
    BY <1>2, <1>4 DEF TextUnderOwn
  <2>1. Len(tx) = 1
    BY DEF Credited, TextUnderOwn
  <2>2. Head(tx) = tx[1]
    BY TxShrinks DEF Typed
  <2> QED
    BY <1>1, <2>1, <2>2 DEF NoBody
<1>10. SentUnderOwn'
  BY <1>1, <1>2 DEF Credited, SentUnderOwn
<1> QED
  BY <1>6, <1>8, <1>9, <1>10 DEF Credited

\* A CMGS is read and opens the prompt.
LEMMA OpensCredited ==
  ASSUME Typed, Typed', Prompted, Credited, tx # <<>>, tx' = Tail(tx),
         UNCHANGED <<clientVars, used>>, dev.input = NoInput, Head(tx).cmd = "CMGS",
         dev' = [dev EXCEPT !.input = Head(tx), !.clean = TRUE], sent' = sent,
         Cardinality(Finals') <= Cardinality(Finals) + 1
  PROVE  Credited'
<1>1. kinds' = kinds /\ todo' = todo /\ phase' = phase /\ used' = used
  BY DEF clientVars
<1>2. WritesTyped /\ ClientTyped
  BY DEF Typed
<1>3. dev'.input = Head(tx) /\ dev'.clean /\ dev'.input # NoInput
  <2>1. Head(tx) # NoInput
    BY DEF NoInput, Written
  <2> QED
    BY <2>1 DEF Typed, ModemTyped, DevSet
<1>4. /\ Len(tx') = Len(tx) - 1 /\ Len(tx) \in Nat \ {0} /\ Len(tx') \in Nat
      /\ Head(tx) = tx[1] /\ 1 \in 1 .. Len(tx)
      /\ NoTexts => NoTexts'
  BY <1>2, TxShrinks
<1>5. NoTexts /\ NoTexts' /\ NoBody'
  <2>1. NoTexts
    BY DEF Prompted, PromptsMatch
  <2> QED
    BY <1>4, <2>1 DEF NoTexts, NoBody, Texts
<1>6. Cardinality(Finals) \in Nat /\ used.late \in Nat
  BY PendingTyped DEF Typed
<1>7. Cardinality(Finals') \in Nat
  <2>1. Cardinality(Finals') \in Nat
    BY FinalsNext DEF Typed
  <2> QED
    BY <2>1
<1>8. Credit'
  <2>1. Pending = Len(tx) /\ Pending' = 0
    BY <1>3, <1>5 DEF Pending
  <2>2. Waiting' <=> Waiting
    BY <1>1 DEF Waiting
  <2>3. CASE Waiting
    BY <1>1, <1>4, <1>6, <1>7, <2>1, <2>2, <2>3 DEF Credited, Credit
  <2>4. CASE ~Waiting
    BY <1>1, <1>4, <1>6, <1>7, <2>1, <2>2, <2>4 DEF Credited, Credit
  <2> QED
    BY <2>3, <2>4
<1>9. StalePrompt'
  <2> SUFFICES ASSUME ~OwnOpen' PROVE Cardinality(Finals') + Progress' <= used.late
    BY <1>1 DEF StalePrompt
  <2>1. ~(phase = "prompt" /\ 1 = Len(tx))
    <3> SUFFICES ASSUME phase = "prompt", 1 = Len(tx) PROVE FALSE
      OBVIOUS
    <3>1. tx[1] = Written("CMGS", Msg, Head(todo).part)
      BY <1>4 DEF Prompted, OwnSubmit
    <3>2. tx' = <<>>
      BY <1>2 DEF WritesTyped
    <3> QED
      BY <1>1, <1>3, <1>4, <3>1, <3>2 DEF OwnOpen, Own, Msg
  <2>2. Cardinality(Finals) + 1 + Progress <= used.late
    BY <1>4, <2>1 DEF Credited, StaleSubmit
  <2>3. Progress' = Progress /\ Progress \in Nat
    <3>1. CASE todo = <<>>
      BY <1>1, <3>1 DEF Progress
    <3>2. CASE todo # <<>>
      BY <1>1, <1>2, <3>2, ProgressSteps
    <3> QED
      BY <3>1, <3>2
  <2> QED
    BY <1>6, <1>7, <2>2, <2>3
<1>10. StaleSubmit' /\ TextUnderOwn' /\ SentUnderOwn'
  BY <1>1, <1>3, <1>5 DEF Credited, StaleSubmit, TextUnderOwn, SentUnderOwn
<1> QED
  BY <1>8, <1>9, <1>10 DEF Credited

LEMMA ModemCredited ==
  ASSUME Typed, Typed', Prompted, Prompted', Credited, ModemAnswers \/ ModemRefuses
  PROVE  Credited'
<1> DEFINE w == Head(tx)
<1>1. tx # <<>> /\ tx' = Tail(tx) /\ UNCHANGED clientVars
  BY DEF ModemAnswers, ModemRefuses
<1>2. kinds' = kinds /\ todo' = todo /\ phase' = phase
  BY <1>1 DEF clientVars
<1>3. LinesTyped /\ w \in WriteSet /\ dev \in DevSet /\ WritesTyped
  BY <1>1, <1>2, WritesShrink DEF Typed, ModemTyped
<1>4. w.cmd \in Names /\ w.cmd \in Commands \cup Texts
  BY <1>3, CommandsAreNoTexts DEF WriteSet, Names, Texts
<1>5. used'.late = used.late
  BY DEF ModemAnswers, ModemRefuses, Err, Typed, CountsTyped
<1>6. ASSUME NEW t \in {"prompt", "error"}, line' = Append(line, Line(t, w.cmd, FALSE))
      PROVE  Cardinality(Finals') <= Cardinality(Finals) + 1
  <2>1. PICK e \in LineSet : e = Line(t, w.cmd, FALSE)
    BY <1>4, OneLineTyped
  <2> QED
    BY <1>3, <1>6, <2>1, AppendCount
<1>7. ASSUME dev.input = NoInput, dev' = dev, sent' = sent, line' = Append(line, Error(w.cmd))
      PROVE  Credited'
  <2>1. Cardinality(Finals') <= Cardinality(Finals) + 1
    BY <1>6, <1>7 DEF Error
  <2> QED
    BY <1>1, <1>2, <1>5, <1>7, <2>1, ClosedCredited
<1>8. CASE ModemAnswers
  <2>1. UNCHANGED <<clientVars, used>>
    BY <1>8 DEF ModemAnswers
  <2>2. CASE dev.input # NoInput /\ TakesText(w)
    BY <1>1, <2>1, <2>2, TakesTextCredited
  <2>3. CASE dev.input # NoInput /\ Swallowed(w)
    BY <1>1, <2>1, <2>3, SwallowedCredited
  <2>4. CASE dev.input = NoInput /\ Command(w)
    <3>1. PICK cmd \in Commands : cmd = w.cmd
      BY <1>3, <2>4 DEF Command, WriteSet
    <3>2. PICK answer \in Answers(cmd) : line' = line \o answer
      BY <2>4, <3>1 DEF Command
    <3>3. answer \in Seq(LineSet)
          /\ \A i \in 1 .. Len(answer) : i = Len(answer) \/ answer[i].t = "data"
      BY <1>3, AnswersEndOnce
    <3>4. Cardinality(Finals') <= Cardinality(Finals) + 1
      BY <1>3, <3>2, <3>3, AnswerCount
    <3>5. dev' = Effect(cmd) /\ sent' = sent
      BY <2>4, <3>1 DEF Command
    <3>6. dev'.input = NoInput
      BY <1>3, <2>4, <3>5, EffectTyped
    <3> QED
      BY <1>1, <1>2, <1>5, <2>4, <3>4, <3>5, <3>6, ClosedCredited
  <2>5. CASE dev.input = NoInput /\ OpensInput(w)
    <3>1. CASE Understood(w)
      <4>1. /\ w.cmd = "CMGS" /\ dev' = [dev EXCEPT !.input = w, !.clean = TRUE] /\ sent' = sent
            /\ line' = Append(line, Line("prompt", w.cmd, FALSE))
        BY <2>5, <3>1 DEF OpensInput
      <4>2. Cardinality(Finals') <= Cardinality(Finals) + 1
        BY <1>6, <4>1
      <4> QED
        BY <1>1, <2>1, <2>5, <4>1, <4>2, OpensCredited
    <3>2. CASE ~Understood(w)
      BY <1>7, <2>5, <3>2 DEF OpensInput
    <3> QED
      BY <3>1, <3>2
  <2>6. CASE /\ dev.input = NoInput /\ w.cmd \in {"body", "text"}
             /\ line' = Append(line, Error(w.cmd)) /\ UNCHANGED <<modemVars, unset>>
    BY <1>7, <2>6 DEF modemVars
  <2> QED
    BY <1>8, <2>2, <2>3, <2>4, <2>5, <2>6 DEF ModemAnswers
<1>9. CASE ModemRefuses
  <2>1. line' = Append(line, Error(w.cmd)) /\ sent' = sent
    BY <1>9 DEF ModemRefuses
  <2>2. CASE dev.input = NoInput /\ UNCHANGED dev
    BY <1>7, <2>1, <2>2
  <2>3. CASE w.cmd = "body" /\ dev' = [dev EXCEPT !.input = NoInput, !.clean = TRUE]
    <3>1. dev'.input = NoInput
      BY <1>3, <2>3 DEF DevSet
    <3>2. Cardinality(Finals') <= Cardinality(Finals) + 1
      BY <1>6, <2>1 DEF Error
    <3>3. SentUnderOwn'
      BY <1>5, <2>1 DEF Credited, SentUnderOwn
    <3> QED
      BY <1>1, <1>2, <1>5, <2>3, <3>1, <3>2, <3>3, TextEndCredited
  <2> QED
    BY <1>9, <2>2, <2>3 DEF ModemRefuses
<1> QED
  BY <1>8, <1>9

LEMMA CreditedStep ==
  Typed /\ Typed' /\ Prompted /\ Prompted' /\ Credited /\ [Next]_vars => Credited'
<1> SUFFICES ASSUME Typed, Typed', Prompted, Prompted', Credited, [Next]_vars PROVE Credited'
  OBVIOUS
<1>0. ClientTyped /\ LinesTyped /\ WritesTyped /\ CountsTyped
  BY DEF Typed
<1>1. CASE \E kind \in Kinds : Start(kind)
  BY <1>1, StartCredited
<1>2. CASE RestartGnssTask \/ UNCHANGED vars
  <2>1. /\ kinds' = kinds /\ todo' = todo /\ phase' = phase /\ dev' = dev /\ used' = used
        /\ tx' = tx /\ line' = line /\ sent' = sent
    BY <1>2 DEF RestartGnssTask, vars, clientVars, modemVars
  <2>2. (NoPrompt' <=> NoPrompt) /\ Cardinality(Finals') <= Cardinality(Finals)
    BY <1>0, <2>1, FinalsCounted DEF NoPrompt, Finals
  <2> QED
    BY <2>1, <2>2, WaitCredited
<1>3. CASE Urc
  <2>1. /\ kinds' = kinds /\ todo' = todo /\ phase' = phase /\ dev' = dev /\ tx' = tx
        /\ sent' = sent /\ used' = [used EXCEPT !.urcs = @ + 1]
    BY <1>3 DEF Urc, clientVars, modemVars
  <2>2. PICK i \in 1 .. Len(line) + 1, e \in LineSet :
          e.t = "data" /\ line' = InsertAt(line, i, e)
    BY <1>3, UrcInserts
  <2>4. (NoPrompt' <=> NoPrompt) /\ Cardinality(Finals') <= Cardinality(Finals)
    BY <1>0, <2>2, ReportKeeps, ReportCount
  <2>5. used'.late = used.late
    BY <1>0, <2>1 DEF CountsTyped
  <2> QED
    BY <2>1, <2>4, <2>5, WaitCredited
\* A line is read that ends the step.
<1>4. ASSUME phase \in {"reply", "prompt", "confirm"}, line # <<>>, line' = Tail(line),
             Head(line).t \in {"ok", "error"}, Succeeded \/ Failed, phase = "prompt" => Failed,
             tx' = tx, dev' = dev, sent' = sent, used' = used
      PROVE  Credited'
  <2>1. /\ kinds' = kinds /\ todo' \in {Follow(TRUE), Follow(FALSE)}
        /\ phase' \in {"idle", "send"} /\ (phase = "prompt" => todo' = Follow(FALSE))
    BY <1>4 DEF Succeeded, Failed, Proceed
  <2>2. NoBody
    BY <1>0, <1>4, BodyMeansReportFirst
  <2>3. NoPrompt => NoPrompt'
    BY <1>0, <1>4, ReadPurges, PurgeKeeps
  <2>4. Cardinality(Finals') <= Cardinality(Finals) - 1
    BY <1>0, <1>4, ReadCount
  <2> QED
    BY <1>4, <2>1, <2>2, <2>3, <2>4, EndCredited
\* A line is read that does not.
<1>5. ASSUME line # <<>>, line' = Tail(line), phase' = phase, kinds' = kinds, todo' = todo,
             tx' = tx, dev' = dev, sent' = sent, used' = used
      PROVE  Credited'
  <2>1. NoPrompt => NoPrompt'
    BY <1>0, <1>5, ReadPurges, PurgeKeeps
  <2>2. Cardinality(Finals') <= Cardinality(Finals)
    BY <1>0, <1>5, SkipCount
  <2> QED
    BY <1>5, <2>1, <2>2, WaitCredited
<1>6. CASE Reply
  <2>1. /\ phase = "reply" /\ line # <<>> /\ line' = Tail(line) /\ tx' = tx /\ dev' = dev
        /\ sent' = sent /\ used' = used
    BY <1>6 DEF Reply, modemVars
  <2>2. \/ Head(line).t \in {"ok", "error"} /\ (Succeeded \/ Failed)
        \/ kinds' = kinds /\ todo' = todo /\ phase' = phase
    BY <1>6 DEF Reply
  <2> QED
    BY <1>4, <1>5, <2>1, <2>2
<1>7. CASE AwaitPrompt
  <2>1. /\ phase = "prompt" /\ line # <<>> /\ line' = Tail(line) /\ dev' = dev
        /\ sent' = sent /\ used' = used
    BY <1>7 DEF AwaitPrompt, modemVars
  <2>2. CASE /\ Head(line).t = "prompt" /\ phase' = "confirm" /\ kinds' = kinds /\ todo' = todo
             /\ tx' = Append(tx, Written("body", Msg, Head(todo).part))
    BY <2>1, <2>2, PromptReadCredited
  <2>3. CASE Head(line).t = "error" /\ Failed /\ UNCHANGED tx
    BY <1>4, <2>1, <2>3
  <2>4. CASE UNCHANGED <<clientVars, tx>>
    BY <1>5, <2>1, <2>4 DEF clientVars
  <2> QED
    BY <1>7, <2>2, <2>3, <2>4 DEF AwaitPrompt
<1>8. CASE AwaitConfirmation
  <2>1. /\ phase = "confirm" /\ line # <<>> /\ line' = Tail(line) /\ tx' = tx /\ dev' = dev
        /\ sent' = sent /\ used' = used
    BY <1>8 DEF AwaitConfirmation, modemVars
  <2>2. \/ Head(line).t \in {"ok", "error"} /\ (Succeeded \/ Failed)
        \/ kinds' = kinds /\ todo' = todo /\ phase' = phase
    BY <1>8 DEF AwaitConfirmation, clientVars
  <2> QED
    BY <1>4, <1>5, <2>1, <2>2
<1>9. CASE GivesUp
  <2>1. /\ phase \in {"reply", "prompt", "confirm"} /\ tx' = tx /\ line' = line /\ dev' = dev
        /\ sent' = sent /\ tx = <<>> /\ used' = [used EXCEPT !.late = @ + 1]
        /\ kinds' = kinds /\ todo' = Follow(FALSE) /\ phase' \in {"idle", "send"}
    BY <1>9 DEF GivesUp, Waiting, Failed, Proceed, modemVars
  <2>2. used'.late = used.late + 1
    BY <1>0, <2>1 DEF CountsTyped
  <2>3. NoBody /\ (NoPrompt => NoPrompt') /\ Cardinality(Finals') <= Cardinality(Finals)
    BY <1>0, <2>1, FinalsCounted DEF NoBody, NoPrompt, Finals
  <2> QED
    BY <2>1, <2>2, <2>3, EndCredited
<1> QED
  BY <1>1, <1>2, <1>3, <1>6, <1>7, <1>8, <1>9, SendCredited, SendFailsCredited,
     BodyFailsCredited, TimesOutCredited, ModemCredited DEF Next, Client

\* An answer that is about belongs to a command the client has given up on, or to the
\* one it waits for.
THEOREM CreditInvariant == Spec => []Credited
<1>1. Init => Credited
  <2> SUFFICES ASSUME Init PROVE Credited
    OBVIOUS
  <2>1. /\ tx = <<>> /\ line = <<>> /\ sent = <<>> /\ phase = "idle" /\ used.late = 0
        /\ dev.input = NoInput
    BY DEF Init
  <2>2. Finals = {} /\ Cardinality({}) = 0 /\ Pending = 0 /\ ~Waiting
    BY <2>1, FS_EmptySet DEF Finals, Pending, Waiting
  <2> QED
    BY <2>1, <2>2
    DEF Credited, Credit, StalePrompt, NoPrompt, StaleSubmit, TextUnderOwn, SentUnderOwn
<1>2. Typed /\ Typed' /\ Prompted /\ Prompted' /\ Credited /\ [Next]_vars => Credited'
  BY CreditedStep
<1> QED
  BY <1>1, <1>2, TypeInvariant, PromptInvariant, PTL DEF Spec

-----------------------------------------------------------------------------
(* The charset a message is sent in. *)

\* At most two answers have been given up on, and none if a command was refused.
Mild == used.late <= 2 /\ (used.late = 0 \/ used.errors = 0)

\* What a send sets before it submits, with which command and at how many steps from
\* its end, and the command that sets it otherwise.
Attributes == {"mode", "charset", "dcs"}
SetBy(kind) == IF kind = "long" THEN {"mode"} ELSE Attributes
Asked(kind, set) ==
  IF set = "mode" THEN IF kind = "long" THEN "CMGF=0" ELSE "CMGF=1"
  ELSE IF set = "charset" THEN IF kind = "gsm" THEN "CSCS=GSM" ELSE "CSCS=UCS2"
  ELSE IF kind = "gsm" THEN "CSMP=GSM" ELSE "CSMP=UCS2"
Unasked(kind, set) ==
  IF set = "mode" THEN IF kind = "long" THEN "CMGF=1" ELSE "CMGF=0"
  ELSE IF set = "charset" THEN IF kind = "gsm" THEN "CSCS=UCS2" ELSE "CSCS=GSM"
  ELSE IF kind = "gsm" THEN "CSMP=UCS2" ELSE "CSMP=GSM"
AskedAt(kind, set) ==
  IF kind = "long" THEN Parts + 3
  ELSE LET first == IF kind = "gsm" THEN 5 ELSE 4
       IN  IF set = "mode" THEN first ELSE IF set = "charset" THEN first - 1 ELSE first - 2
LastSubmit(kind) == IF kind = "gsm" THEN 2 ELSE IF kind = "ucs2" THEN 1 ELSE 3

Given(kind, set) ==
  IF set = "mode" THEN dev.mode = (IF kind = "long" THEN "pdu" ELSE "text")
  ELSE IF set = "charset" THEN dev.charset = (IF kind = "gsm" THEN "GSM" ELSE "UCS2")
  ELSE dev.dcs = (IF kind = "gsm" THEN "GSM" ELSE "UCS2")

\* The setting has been asked for, and a submission that relies on it is to come.
Chosen(set) ==
  /\ todo # <<>> /\ Kind \in Sends /\ set \in SetBy(Kind)
  /\ \/ Len(todo) \in LastSubmit(Kind) .. AskedAt(Kind, set) - 1
     \/ Len(todo) = AskedAt(Kind, set) /\ phase # "send"

\* Of two commands the modem still has to read: the one is always followed by the
\* other; the other is not among them.
Follows(away, back) ==
  \A k \in 1 .. Len(tx) : tx[k].cmd = away => \E j \in k + 1 .. Len(tx) : tx[j].cmd = back
Absent(back) == \A k \in 1 .. Len(tx) : tx[k].cmd # back

\* The command that asked was refused, and the client is about to be told.
HasError == \E i \in 1 .. Len(line) : line[i].t = "error"
Refused == used.late = 0 /\ used.errors > 0 /\ phase = "reply" /\ HasError

\* The setting is what was asked for once the modem has read everything, and it is
\* when the modem waits for the text of the submission.
ToBeGiven(set) ==
  dev.input = NoInput =>
    /\ Follows(Unasked(Kind, set), Asked(Kind, set))
    /\ Absent(Asked(Kind, set)) => Given(Kind, set)
NowGiven(set) ==
  OwnOpen \/ (phase = "confirm" /\ ~NoBody /\ Own) => Given(Kind, set)
InForce(set) == Chosen(set) => Refused \/ (ToBeGiven(set) /\ NowGiven(set))

SentEncoded == \A i \in 1 .. Len(sent) : sent[i].as = Encoding(kinds[sent[i].msg])

Encodes == Mild => SentEncoded /\ \A set \in Attributes : InForce(set)

-----------------------------------------------------------------------------

LEMMA AskedFacts ==
  ASSUME NEW kind, NEW set
  PROVE  /\ Asked(kind, set) \in Commands /\ Unasked(kind, set) \in Commands
         /\ Asked(kind, set) # "CMGS" /\ Asked(kind, set) \notin Texts
         /\ Unasked(kind, set) # "CMGS" /\ Unasked(kind, set) \notin Texts
         /\ Asked(kind, set) # Unasked(kind, set)
<1>1. /\ {"CMGF=0", "CMGF=1", "CSCS=GSM", "CSCS=UCS2", "CSMP=GSM", "CSMP=UCS2"} \subseteq Commands
  BY DEF Commands
<1> QED
  BY <1>1 DEF Asked, Unasked, Texts

\* Where in its script a send asks for a setting.
LEMMA AskedWhen ==
  ASSUME ScriptedAs(todo), todo # <<>>, Kind \in Sends, NEW set \in SetBy(Kind)
  PROVE  LET n == Len(todo)
             last == LastSubmit(Kind)
             at == AskedAt(Kind, set)
         IN  /\ n \in Nat /\ last \in Nat \ {0} /\ at \in Nat /\ last < at
             /\ n = at => Head(todo).cmd = Asked(Kind, set) /\ Head(todo).role = "must"
             /\ n \in last .. at - 1 =>
                  /\ Head(todo).role \in {"must", "submit"}
                  /\ Head(todo).cmd \notin {Asked(Kind, set), Unasked(Kind, set)}
             /\ LeftAfterFailure(Kind, n) < last \/ LeftAfterFailure(Kind, n) >= at
             /\ LeftAfterUnsent(Kind, n) < last \/ LeftAfterUnsent(Kind, n) >= at
             /\ Head(todo).role = "submit" => n \in last .. at - 1
             /\ LengthOf(Kind) > at
<1>0. Parts \in Nat \ {0}
  BY AtDialogAssumption
<1>1. CASE Kind = "gsm"
  <2>1. Len(todo) \in 1 .. 6 /\ LengthOf(Kind) = 6
    BY <1>1, GsmHead, GsmStepOf
  <2>2. LastSubmit(Kind) = 2 /\ AskedAt(Kind, set) \in 3 .. 5
        /\ (set = "mode" => AskedAt(Kind, set) = 5 /\ Asked(Kind, set) = "CMGF=1"
                            /\ Unasked(Kind, set) = "CMGF=0")
        /\ (set = "charset" => AskedAt(Kind, set) = 4 /\ Asked(Kind, set) = "CSCS=GSM"
                            /\ Unasked(Kind, set) = "CSCS=UCS2")
        /\ (set = "dcs" => AskedAt(Kind, set) = 3 /\ Asked(Kind, set) = "CSMP=GSM"
                            /\ Unasked(Kind, set) = "CSMP=UCS2")
        /\ set \in {"mode", "charset", "dcs"}
    BY <1>1 DEF LastSubmit, AskedAt, Asked, Unasked, SetBy, Attributes
  <2>3. CASE Len(todo) = 6
    BY <1>1, <2>1, <2>2, <2>3, GsmHead, LeftValues
  <2>4. CASE Len(todo) = 5
    BY <1>1, <2>1, <2>2, <2>4, GsmHead, LeftValues DEF StepIs
  <2>5. CASE Len(todo) = 4
    BY <1>1, <2>1, <2>2, <2>5, GsmHead, LeftValues DEF StepIs
  <2>6. CASE Len(todo) = 3
    BY <1>1, <2>1, <2>2, <2>6, GsmHead, LeftValues DEF StepIs
  <2>7. CASE Len(todo) = 2
    BY <1>1, <2>1, <2>2, <2>7, GsmHead, LeftValues DEF StepIs
  <2>8. CASE Len(todo) = 1
    BY <1>1, <2>1, <2>2, <2>8, GsmHead, LeftValues DEF StepIs
  <2> QED
    BY <2>1, <2>3, <2>4, <2>5, <2>6, <2>7, <2>8
<1>2. CASE Kind = "ucs2"
  <2>1. Len(todo) \in 1 .. 5 /\ LengthOf(Kind) = 5
    BY <1>2, Ucs2Head, Ucs2StepOf
  <2>2. LastSubmit(Kind) = 1 /\ AskedAt(Kind, set) \in 2 .. 4
        /\ (set = "mode" => AskedAt(Kind, set) = 4 /\ Asked(Kind, set) = "CMGF=1"
                            /\ Unasked(Kind, set) = "CMGF=0")
        /\ (set = "charset" => AskedAt(Kind, set) = 3 /\ Asked(Kind, set) = "CSCS=UCS2"
                            /\ Unasked(Kind, set) = "CSCS=GSM")
        /\ (set = "dcs" => AskedAt(Kind, set) = 2 /\ Asked(Kind, set) = "CSMP=UCS2"
                            /\ Unasked(Kind, set) = "CSMP=GSM")
        /\ set \in {"mode", "charset", "dcs"}
    BY <1>2 DEF LastSubmit, AskedAt, Asked, Unasked, SetBy, Attributes
  <2>3. CASE Len(todo) = 5
    BY <1>2, <2>1, <2>2, <2>3, Ucs2Head, LeftValues
  <2>4. CASE Len(todo) = 4
    BY <1>2, <2>1, <2>2, <2>4, Ucs2Head, LeftValues DEF StepIs
  <2>5. CASE Len(todo) = 3
    BY <1>2, <2>1, <2>2, <2>5, Ucs2Head, LeftValues DEF StepIs
  <2>6. CASE Len(todo) = 2
    BY <1>2, <2>1, <2>2, <2>6, Ucs2Head, LeftValues DEF StepIs
  <2>7. CASE Len(todo) = 1
    BY <1>2, <2>1, <2>2, <2>7, Ucs2Head, LeftValues DEF StepIs
  <2> QED
    BY <2>1, <2>3, <2>4, <2>5, <2>6, <2>7
<1>3. CASE Kind = "long"
  <2>1. Len(todo) \in 1 .. Parts + 4 /\ LengthOf(Kind) = Parts + 4
    BY <1>3, LongHead, LongStepOf
  <2>2. LastSubmit(Kind) = 3 /\ AskedAt(Kind, set) = Parts + 3 /\ set = "mode"
        /\ Asked(Kind, set) = "CMGF=0" /\ Unasked(Kind, set) = "CMGF=1"
    BY <1>3 DEF LastSubmit, AskedAt, Asked, Unasked, SetBy
  <2>3. CASE Len(todo) = Parts + 4
    BY <1>0, <1>3, <2>1, <2>2, <2>3, LongHead, LeftValues
  <2>4. CASE Len(todo) = Parts + 3
    BY <1>0, <1>3, <2>1, <2>2, <2>4, LongHead, LeftValues DEF StepIs
  <2>5. CASE Len(todo) \in 3 .. Parts + 2
    <3>1. StepIs(Head(todo), "CMGS", "submit", RestoreMode)
      BY <1>3, <2>5, LongHead
    <3>2. LeftAfterFailure("long", Len(todo)) = 2 /\ LeftAfterUnsent("long", Len(todo)) = 2
      BY <2>5, LeftValues
    <3> QED
      BY <1>0, <1>3, <2>1, <2>2, <2>5, <3>1, <3>2 DEF StepIs
  <2>6. CASE Len(todo) = 2
    BY <1>0, <1>3, <2>1, <2>2, <2>6, LongHead, LeftValues DEF StepIs
  <2>7. CASE Len(todo) = 1
    BY <1>0, <1>3, <2>1, <2>2, <2>7, LongHead, LeftValues DEF StepIs
  <2>8. Len(todo) \in {1, 2, Parts + 3, Parts + 4} \/ Len(todo) \in 3 .. Parts + 2
    BY <2>1, LongCases
  <2> QED
    BY <2>3, <2>4, <2>5, <2>6, <2>7, <2>8
<1> QED
  BY <1>1, <1>2, <1>3 DEF Sends

\* A setting stays chosen only as the steps of the send succeed.
LEMMA ChosenEnds ==
  ASSUME ClientTyped, todo # <<>>, kinds' = kinds, NEW set,
         phase' = IF todo' = <<>> THEN "idle" ELSE "send",
         Chosen(set)', todo' \in {Follow(TRUE), Follow(FALSE), Unsent}
  PROVE  /\ phase # "send" /\ todo' = Follow(TRUE) => Chosen(set)
         /\ Kind \in Sends /\ set \in SetBy(Kind)
         /\ todo' \notin {Follow(FALSE), Unsent}
<1>1. ScriptedAs(todo) /\ Kind' = Kind
  BY DEF ClientTyped, Kind
<1>2. Kind \in Sends /\ set \in SetBy(Kind)
  BY <1>1 DEF Chosen
<1>3. PICK n \in Nat, last \in Nat, at \in Nat :
        n = Len(todo) /\ last = LastSubmit(Kind) /\ at = AskedAt(Kind, set)
  BY <1>1, <1>2, AskedWhen
<1>4. Len(todo') \in last .. at - 1
  <2>1. \/ Len(todo') \in LastSubmit(Kind) .. AskedAt(Kind, set) - 1
        \/ Len(todo') = AskedAt(Kind, set) /\ phase' # "send"
    BY <1>1 DEF Chosen
  <2>2. phase' = "send"
    BY DEF Chosen
  <2> QED
    BY <1>3, <2>1, <2>2
<1>5. /\ Len(Follow(TRUE)) = n - 1
      /\ Len(Follow(FALSE)) = LeftAfterFailure(Kind, n)
      /\ Len(Unsent) = LeftAfterUnsent(Kind, n)
  BY <1>1, <1>2, <1>3, SendFollow
<1>6. todo' \notin {Follow(FALSE), Unsent}
  <2>1. /\ LeftAfterFailure(Kind, n) < last \/ LeftAfterFailure(Kind, n) >= at
        /\ LeftAfterUnsent(Kind, n) < last \/ LeftAfterUnsent(Kind, n) >= at
    BY <1>1, <1>2, <1>3, AskedWhen
  <2>2. ASSUME Len(todo') < last \/ Len(todo') >= at PROVE FALSE
    BY <1>3, <1>4, <2>2
  <2>3. todo' # Follow(FALSE)
    <3>1. ASSUME todo' = Follow(FALSE) PROVE Len(todo') = LeftAfterFailure(Kind, n)
      BY <1>5, <3>1
    <3> QED
      BY <2>1, <2>2, <3>1
  <2>4. todo' # Unsent
    <3>1. ASSUME todo' = Unsent PROVE Len(todo') = LeftAfterUnsent(Kind, n)
      BY <1>5, <3>1
    <3> QED
      BY <2>1, <2>2, <3>1
  <2> QED
    BY <2>3, <2>4
<1>7. ASSUME phase # "send", todo' = Follow(TRUE) PROVE Chosen(set)
  <2>1. n \in last .. at - 1 \/ n = at
    <3>1. \A k \in Nat, l \in Nat, a \in Nat : k - 1 \in l .. a - 1 => k \in l .. a - 1 \/ k = a
      OBVIOUS
    <3>2. n - 1 \in last .. at - 1
      BY <1>4, <1>5, <1>7
    <3> QED
      BY <1>3, <3>1, <3>2
  <2> QED
    BY <1>2, <1>3, <1>7, <2>1 DEF Chosen
<1> QED
  BY <1>2, <1>6, <1>7

\* What the modem reads, and what is written, of two commands.
LEMMA FollowsRead ==
  ASSUME WritesTyped, tx # <<>>, tx' = Tail(tx), NEW away, NEW back, Follows(away, back)
  PROVE  /\ Follows(away, back)'
         /\ Head(tx).cmd = away => ~Absent(back)
         /\ Absent(back)' /\ Head(tx).cmd # back => Absent(back)
<1>1. /\ Len(tx') = Len(tx) - 1 /\ Len(tx) \in Nat \ {0} /\ Head(tx) = tx[1] /\ Len(tx') \in Nat
      /\ \A k \in 1 .. Len(tx') : k + 1 \in 1 .. Len(tx) /\ tx'[k] = tx[k + 1]
      /\ \A k \in 1 .. Len(tx) : k = 1 \/ (k - 1 \in 1 .. Len(tx') /\ tx[k] = tx'[k - 1])
  BY TxShrinks
<1>2. Follows(away, back)'
  <2> SUFFICES ASSUME NEW k \in 1 .. Len(tx'), tx'[k].cmd = away
               PROVE  \E j \in k + 1 .. Len(tx') : tx'[j].cmd = back
    BY DEF Follows
  <2>1. k + 1 \in 1 .. Len(tx) /\ tx[k + 1].cmd = away
    BY <1>1
  <2>2. PICK j \in (k + 1) + 1 .. Len(tx) : tx[j].cmd = back
    BY <2>1 DEF Follows
  <2>3. j \in 1 .. Len(tx) /\ j # 1 /\ j - 1 \in k + 1 .. Len(tx')
    BY <1>1, <2>1
  <2> QED
    BY <1>1, <2>2, <2>3
<1>3. ASSUME Head(tx).cmd = away PROVE ~Absent(back)
  <2>1. 1 \in 1 .. Len(tx) /\ tx[1].cmd = away
    BY <1>1, <1>3
  <2>2. PICK j \in 1 + 1 .. Len(tx) : tx[j].cmd = back
    BY <2>1 DEF Follows
  <2>3. j \in 1 .. Len(tx)
    BY <1>1
  <2> QED
    BY <2>2, <2>3 DEF Absent
<1>4. ASSUME Absent(back)', Head(tx).cmd # back PROVE Absent(back)
  BY <1>1, <1>4 DEF Absent
<1> QED
  BY <1>2, <1>3, <1>4

LEMMA FollowsWritten ==
  ASSUME WritesTyped, NEW w \in WriteSet, tx' = Append(tx, w), NEW away, NEW back, away # back
  PROVE  /\ w.cmd = back => Follows(away, back)' /\ ~Absent(back)'
         /\ w.cmd \notin {away, back} =>
              /\ Follows(away, back) => Follows(away, back)'
              /\ Absent(back)' => Absent(back)
<1>1. /\ Len(tx') = Len(tx) + 1 /\ Len(tx) \in Nat /\ tx'[Len(tx')] = w
      /\ \A k \in 1 .. Len(tx) : tx'[k] = tx[k]
      /\ \A k \in 1 .. Len(tx') : (k \in 1 .. Len(tx) /\ tx'[k] = tx[k]) \/ (k = Len(tx') /\ tx'[k] = w)
  BY TxGrows
<1>2. Len(tx') \in 1 .. Len(tx') /\ \A k \in 1 .. Len(tx) : k \in 1 .. Len(tx')
      /\ \A i \in 1 .. Len(tx') : i # Len(tx') => Len(tx') \in i + 1 .. Len(tx')
  BY <1>1
<1>3. ASSUME w.cmd = back PROVE Follows(away, back)' /\ ~Absent(back)'
  <2>1. ~Absent(back)'
    BY <1>1, <1>2, <1>3 DEF Absent
  <2>2. Follows(away, back)'
    BY <1>1, <1>2, <1>3 DEF Follows
  <2> QED
    BY <2>1, <2>2
<1>4. ASSUME w.cmd \notin {away, back}, Follows(away, back) PROVE Follows(away, back)'
  <2> SUFFICES ASSUME NEW k \in 1 .. Len(tx'), tx'[k].cmd = away
               PROVE  \E j \in k + 1 .. Len(tx') : tx'[j].cmd = back
    BY DEF Follows
  <2>1. k \in 1 .. Len(tx) /\ tx[k].cmd = away
    BY <1>1, <1>4
  <2>2. PICK j \in k + 1 .. Len(tx) : tx[j].cmd = back
    BY <1>4, <2>1 DEF Follows
  <2>3. j \in 1 .. Len(tx) /\ j \in k + 1 .. Len(tx')
    BY <1>1, <2>1
  <2> QED
    BY <1>1, <2>2, <2>3
<1>5. ASSUME Absent(back)' PROVE Absent(back)
  BY <1>1, <1>2, <1>5 DEF Absent
<1> QED
  BY <1>3, <1>4, <1>5

LEMMA EffectGiven ==
  ASSUME dev \in DevSet, NEW kind, NEW set \in Attributes, NEW cmd \in Commands,
         dev' = Effect(cmd)
  PROVE  /\ cmd = Asked(kind, set) => Given(kind, set)'
         /\ cmd \notin {Asked(kind, set), Unasked(kind, set)} =>
              (Given(kind, set)' <=> Given(kind, set))
<1>1. /\ dev'.mode = (CASE cmd = "CMGF=0" -> "pdu" [] cmd = "CMGF=1" -> "text" [] OTHER -> dev.mode)
      /\ dev'.charset =
           (CASE cmd = "CSCS=GSM" -> "GSM" [] cmd = "CSCS=UCS2" -> "UCS2" [] OTHER -> dev.charset)
      /\ dev'.dcs =
           (CASE cmd = "CSMP=GSM" -> "GSM" [] cmd = "CSMP=UCS2" -> "UCS2" [] OTHER -> dev.dcs)
  BY DEF Effect, DevSet
<1>2. CASE set = "mode"
  BY <1>1, <1>2 DEF Given, Asked, Unasked
<1>3. CASE set = "charset"
  BY <1>1, <1>3 DEF Given, Asked, Unasked
<1>4. CASE set = "dcs"
  BY <1>1, <1>4 DEF Given, Asked, Unasked
<1> QED
  BY <1>2, <1>3, <1>4 DEF Attributes

\* What gives or takes a text changes no setting.
LEMMA StillGiven ==
  ASSUME dev \in DevSet, NEW kind, NEW set, NEW input, NEW clean,
         \/ dev' = dev \/ dev' = [dev EXCEPT !.input = input, !.clean = clean]
         \/ dev' = [dev EXCEPT !.clean = clean]
  PROVE  Given(kind, set)' <=> Given(kind, set)
<1>1. dev'.mode = dev.mode /\ dev'.charset = dev.charset /\ dev'.dcs = dev.dcs
  BY DEF DevSet
<1> QED
  BY <1>1 DEF Given

-----------------------------------------------------------------------------

\* The client reads the refusal before any success of the same step.
LEMMA RefusedRead ==
  ASSUME Typed, Credited, Refused, line # <<>>, line' = Tail(line)
  PROVE  /\ Head(line).t # "ok"
         /\ Head(line).t # "error" => HasError'
<1>1. LinesTyped /\ used.late = 0 /\ HasError /\ Waiting
  BY DEF Typed, Refused, Waiting
<1>2. /\ Len(line) \in Nat \ {0} /\ Head(line) = line[1] /\ Len(line') = Len(line) - 1
      /\ \A i \in 1 .. Len(line') : line'[i] = line[i + 1]
  BY <1>1, TailFacts DEF LinesTyped
<1>3. PICK i \in 1 .. Len(line) : line[i].t = "error"
  BY <1>1 DEF HasError
<1>4. Head(line).t # "ok"
  <2> SUFFICES ASSUME Head(line).t = "ok" PROVE FALSE
    OBVIOUS
  <2>1. 1 \in Finals /\ i \in Finals /\ i # 1
    BY <1>2, <1>3 DEF Finals
  <2>2. /\ IsFiniteSet(Finals) /\ Cardinality(Finals) \in Nat
    BY <1>1, FinalsCounted
  <2>3. IsFiniteSet(Finals \ {1}) /\ Cardinality(Finals \ {1}) = Cardinality(Finals) - 1
    BY <2>1, <2>2, FS_RemoveElement
  <2>4. Cardinality(Finals \ {1}) # 0
    <3>1. Finals \ {1} # {}
      BY <2>1
    <3> QED
      BY <2>3, <3>1, FS_EmptySet
  <2>5. Cardinality(Finals) <= 1
    <3>1. Cardinality(Finals) + Pending <= 0 + 1 /\ Pending \in Nat
      BY <1>1, PendingTyped DEF Credited, Credit, Typed
    <3> QED
      BY <2>2, <3>1
  <2>6. \A c \in Nat : c <= 1 /\ c - 1 # 0 => c = 0
    OBVIOUS
  <2>7. Cardinality(Finals) = 0
    BY <2>2, <2>3, <2>4, <2>5, <2>6
  <2> QED
    BY <2>1, <2>2, <2>7, FS_EmptySet
<1>5. ASSUME Head(line).t # "error" PROVE HasError'
  <2>1. i - 1 \in 1 .. Len(line') /\ (i - 1) + 1 = i
    BY <1>2, <1>3, <1>5
  <2>2. line'[i - 1].t = "error"
    BY <1>2, <1>3, <2>1
  <2> QED
    BY <2>1, <2>2 DEF HasError
<1> QED
  BY <1>4, <1>5

LEMMA ErrorStays ==
  ASSUME LinesTyped, HasError, NEW more \in Seq(LineSet), line' = line \o more
  PROVE  HasError'
<1>1. /\ line \in Seq(LineSet) /\ Len(line) \in Nat /\ Len(more) \in Nat
      /\ Len(line') = Len(line) + Len(more)
      /\ \A i \in 1 .. Len(line) : line'[i] = line[i]
  BY JoinFacts DEF LinesTyped
<1>2. \A i \in 1 .. Len(line) : i \in 1 .. Len(line')
  BY <1>1
<1> QED
  BY <1>1, <1>2 DEF HasError

LEMMA ErrorAppended ==
  ASSUME LinesTyped, NEW e \in LineSet, line' = Append(line, e)
  PROVE  /\ HasError => HasError'
         /\ e.t = "error" => HasError'
<1>1. /\ Len(line') = Len(line) + 1 /\ Len(line) \in Nat /\ line'[Len(line) + 1] = e
      /\ \A i \in 1 .. Len(line) : line'[i] = line[i]
  BY AppendFacts DEF LinesTyped
<1>2. Len(line) + 1 \in 1 .. Len(line') /\ \A i \in 1 .. Len(line) : i \in 1 .. Len(line')
  BY <1>1
<1> QED
  BY <1>1, <1>2 DEF HasError

LEMMA ErrorReported ==
  ASSUME LinesTyped, HasError, NEW n \in 1 .. Len(line) + 1, NEW e \in LineSet,
         line' = InsertAt(line, n, e)
  PROVE  HasError'
<1>1. /\ Len(line') = Len(line) + 1 /\ Len(line) \in Nat
      /\ \A i \in 1 .. n - 1 : line'[i] = line[i]
      /\ \A i \in n .. Len(line) : line'[i + 1] = line[i]
  BY InsertFacts DEF LinesTyped
<1>2. PICK i \in 1 .. Len(line) : line[i].t = "error"
  BY DEF HasError
<1>3. CASE i \in 1 .. n - 1
  <2>1. i \in 1 .. Len(line')
    BY <1>1
  <2> QED
    BY <1>1, <1>2, <1>3, <2>1 DEF HasError
<1>4. CASE i \notin 1 .. n - 1
  <2>1. i \in n .. Len(line) /\ i + 1 \in 1 .. Len(line')
    BY <1>1, <1>4
  <2> QED
    BY <1>1, <1>2, <2>1 DEF HasError
<1> QED
  BY <1>3, <1>4

\* The step ends: if the submission is still to come, it has succeeded.
LEMMA EndInForce ==
  ASSUME Typed, Credited, phase \in {"reply", "prompt", "confirm"}, Succeeded \/ Failed,
         Failed \/ (line # <<>> /\ line' = Tail(line) /\ Head(line).t = "ok" /\ tx' = tx),
         dev' = dev, NEW set \in Attributes, InForce(set)
  PROVE  InForce(set)'
<1> SUFFICES ASSUME Chosen(set)' PROVE InForce(set)'
  BY DEF InForce
<1>1. /\ kinds' = kinds /\ phase' = IF todo' = <<>> THEN "idle" ELSE "send"
      /\ Succeeded => todo' = Follow(TRUE)
      /\ Failed => todo' = Follow(FALSE)
  BY DEF Succeeded, Failed, Proceed
<1>2. ClientTyped /\ todo # <<>>
  BY BusyTodo DEF Typed
<1>3. todo' # Follow(FALSE)
  BY <1>1, <1>2, ChosenEnds
<1>4. ~Failed /\ todo' = Follow(TRUE)
  BY <1>1, <1>3
<1>5. Chosen(set)
  BY <1>1, <1>2, <1>4, ChosenEnds
<1>6. ~Refused
  BY <1>4, RefusedRead
<1>7. ToBeGiven(set) /\ tx' = tx
  BY <1>4, <1>5, <1>6 DEF InForce
<1>8. Kind' = Kind
  BY <1>1 DEF Kind
<1>9. ToBeGiven(set)'
  BY <1>7, <1>8 DEF ToBeGiven, Follows, Absent, Given
<1>10. NowGiven(set)'
  BY <1>1 DEF NowGiven, OwnOpen
<1> QED
  BY <1>9, <1>10 DEF InForce

\* The client waits on.
LEMMA WaitInForce ==
  ASSUME kinds' = kinds, todo' = todo, phase' = phase, tx' = tx, dev' = dev,
         Refused => Refused', NEW set, InForce(set)
  PROVE  InForce(set)'
<1>1. Kind' = Kind /\ Msg' = Msg
  BY DEF Kind, Msg
<1>2. Chosen(set)' <=> Chosen(set)
  BY <1>1 DEF Chosen
<1>3. ToBeGiven(set)' <=> ToBeGiven(set)
  BY <1>1 DEF ToBeGiven, Follows, Absent, Given
<1>4. NowGiven(set)' <=> NowGiven(set)
  BY <1>1 DEF NowGiven, OwnOpen, Own, NoBody, Given
<1> QED
  BY <1>2, <1>3, <1>4 DEF InForce

LEMMA PromptReadInForce ==
  ASSUME Typed, Prompted, Credited', used'.late <= 2, phase = "prompt", phase' = "confirm",
         line # <<>>, Head(line).t = "prompt",
         tx' = Append(tx, Written("body", Msg, Head(todo).part)),
         kinds' = kinds, todo' = todo, dev' = dev, NEW set, InForce(set)
  PROVE  InForce(set)'
<1>1. ClientTyped /\ WritesTyped /\ LinesTyped /\ todo # <<>>
  BY BusyTodo DEF Typed
<1>2. PICK w \in WriteSet : w = Written("body", Msg, Head(todo).part) /\ w.cmd = "body"
  BY <1>1, WrittenFacts
<1>3. /\ Len(tx') = Len(tx) + 1 /\ Len(tx) \in Nat /\ NoBody' <=> FALSE
  BY <1>1, <1>2, TxGrows
<1>4. Kind' = Kind /\ Msg' = Msg
  BY DEF Kind, Msg
<1>5. Chosen(set)' => Chosen(set)
  BY <1>4 DEF Chosen
<1>6. ~NoPrompt
  <2>1. Head(line) = line[1] /\ 1 \in 1 .. Len(line)
    BY <1>1 DEF LinesTyped
  <2> QED
    BY <2>1 DEF NoPrompt
<1>7. dev.input # NoInput
  BY <1>6 DEF Prompted, PromptsMatch
<1>8. OwnOpen
  <2>1. Own' /\ Len(tx') = 1
    BY <1>3 DEF Credited, TextUnderOwn
  <2>2. Own /\ Len(tx) = 0
    BY <1>3, <1>4, <2>1 DEF Own
  <2> QED
    BY <1>1, <2>2 DEF OwnOpen, WritesTyped
<1>9. ASSUME Chosen(set)' PROVE ToBeGiven(set)' /\ NowGiven(set)'
  <2>1. Given(Kind, set)
    BY <1>5, <1>8, <1>9 DEF InForce, Refused, NowGiven
  <2> QED
    BY <1>4, <1>7, <2>1 DEF ToBeGiven, NowGiven, Given
<1> QED
  BY <1>9 DEF InForce

LEMMA SendInForce ==
  ASSUME Typed, Send, NEW set \in Attributes, InForce(set)
  PROVE  InForce(set)'
<1> SUFFICES ASSUME Chosen(set)' PROVE InForce(set)'
  BY DEF InForce
<1>1. /\ phase = "send" /\ kinds' = kinds /\ todo' = todo /\ dev' = dev
      /\ phase' \in {"prompt", "reply"}
      /\ tx' = Append(tx, Written(Head(todo).cmd, Msg, Head(todo).part))
  BY DEF Send, modemVars
<1>2. ClientTyped /\ WritesTyped /\ ScriptedAs(todo) /\ todo # <<>>
  BY <1>1, BusyTodo DEF Typed
<1>3. PICK w \in WriteSet :
        w = Written(Head(todo).cmd, Msg, Head(todo).part) /\ w.cmd = Head(todo).cmd
  <2>1. PICK cmd \in Commands : cmd = Head(todo).cmd
    BY <1>2, SubmitPart
  <2> QED
    BY <1>2, <2>1, WrittenFacts
<1>4. Kind' = Kind
  BY <1>1 DEF Kind
<1>5. Kind \in Sends /\ set \in SetBy(Kind)
  BY <1>4 DEF Chosen
<1>6. PICK away \in Commands, back \in Commands :
        away = Unasked(Kind, set) /\ back = Asked(Kind, set) /\ away # back
  BY AskedFacts
<1>7. tx' # <<>>
  BY <1>1, <1>2, <1>3, TxGrows
<1>8. NowGiven(set)'
  BY <1>1, <1>7 DEF NowGiven, OwnOpen
<1>9. CASE Len(todo) = AskedAt(Kind, set)
  <2>1. w.cmd = back
    BY <1>2, <1>3, <1>5, <1>6, <1>9, AskedWhen
  <2>2. Follows(away, back)' /\ ~Absent(back)'
    BY <1>1, <1>2, <1>3, <1>6, <2>1, FollowsWritten
  <2>3. ToBeGiven(set)'
    BY <1>4, <1>6, <2>2 DEF ToBeGiven
  <2> QED
    BY <1>8, <2>3 DEF InForce
<1>10. CASE Len(todo) \in LastSubmit(Kind) .. AskedAt(Kind, set) - 1
  <2>1. w.cmd \notin {away, back}
    BY <1>2, <1>3, <1>5, <1>6, <1>10, AskedWhen
  <2>2. /\ Follows(away, back) => Follows(away, back)'
        /\ Absent(back)' => Absent(back)
    BY <1>1, <1>2, <1>3, <1>6, <2>1, FollowsWritten
  <2>3. Chosen(set)
    BY <1>2, <1>5, <1>10 DEF Chosen
  <2>4. ToBeGiven(set)
    BY <1>1, <2>3 DEF InForce, Refused
  <2>5. ToBeGiven(set)'
    BY <1>1, <1>4, <1>6, <2>2, <2>4 DEF ToBeGiven, Given
  <2> QED
    BY <1>8, <2>5 DEF InForce
<1> QED
  BY <1>1, <1>4, <1>9, <1>10 DEF Chosen

LEMMA SendFailsInForce ==
  ASSUME Typed, SendFails, NEW set \in Attributes
  PROVE  InForce(set)'
<1>1. /\ phase = "send" /\ kinds' = kinds
      /\ \/ Head(todo).role = "blind" /\ todo' = todo
         \/ (phase' = IF todo' = <<>> THEN "idle" ELSE "send") /\ todo' = Unsent
  BY DEF SendFails, Proceed
<1>2. ClientTyped /\ ScriptedAs(todo) /\ todo # <<>>
  BY <1>1, BusyTodo DEF Typed
<1>3. CASE Head(todo).role = "blind" /\ todo' = todo
  <2> SUFFICES ASSUME Chosen(set)' PROVE FALSE
    BY DEF InForce
  <2>1. Kind' = Kind
    BY <1>1 DEF Kind
  <2>2. /\ Kind \in Sends /\ set \in SetBy(Kind)
        /\ \/ Len(todo) \in LastSubmit(Kind) .. AskedAt(Kind, set) - 1
           \/ Len(todo) = AskedAt(Kind, set)
    BY <1>3, <2>1 DEF Chosen
  <2> QED
    BY <1>2, <1>3, <2>2, AskedWhen
<1>4. CASE (phase' = IF todo' = <<>> THEN "idle" ELSE "send") /\ todo' = Unsent
  BY <1>1, <1>2, <1>4, ChosenEnds DEF InForce
<1> QED
  BY <1>1, <1>3, <1>4

LEMMA StartInForce ==
  ASSUME Typed, NEW kind \in Kinds, Start(kind), NEW set \in Attributes
  PROVE  InForce(set)'
<1> SUFFICES ASSUME Chosen(set)' PROVE FALSE
  BY DEF InForce
<1>1. kinds' = Append(kinds, kind) /\ todo' = Script(kind) /\ phase' = "send"
  BY DEF Start
<1>2. Kind' = kind
  <2>1. kinds \in Seq(Kinds)
    BY DEF Typed, ClientTyped
  <2>2. Len(kinds') = Len(kinds) + 1 /\ kinds'[Len(kinds) + 1] = kind
    BY <1>1, <2>1, AppendFacts
  <2> QED
    BY <2>2 DEF Kind, Last
<1>3. /\ kind \in Sends /\ set \in SetBy(kind)
      /\ Len(todo') \in LastSubmit(kind) .. AskedAt(kind, set) - 1
  BY <1>1, <1>2 DEF Chosen
<1>4. Len(todo') = LengthOf(kind)
  BY <1>1, <1>3, SendScripts
<1>5. LengthOf(kind) > AskedAt(kind, set) /\ AskedAt(kind, set) \in Nat
      /\ LengthOf(kind) \in Nat /\ LastSubmit(kind) \in Nat
  BY <1>3, AtDialogAssumption, GsmStepOf, Ucs2StepOf, LongStepOf
  DEF AskedAt, LastSubmit, Sends, SetBy, Attributes
<1> QED
  BY <1>3, <1>4, <1>5

\* The modem reads a command while it waits for no text.
LEMMA ReadInForce ==
  ASSUME WritesTyped, tx # <<>>, tx' = Tail(tx), kinds' = kinds, todo' = todo, phase' = phase,
         dev.input = NoInput, dev'.input = NoInput, NEW set, ToBeGiven(set),
         Head(tx).cmd = Asked(Kind, set) => Given(Kind, set)',
         Head(tx).cmd \notin {Asked(Kind, set), Unasked(Kind, set)} =>
           (Given(Kind, set)' <=> Given(Kind, set))
  PROVE  ToBeGiven(set)' /\ NowGiven(set)'
<1>1. Kind' = Kind
  BY DEF Kind
<1>2. PICK away \in Commands, back \in Commands :
        away = Unasked(Kind, set) /\ back = Asked(Kind, set) /\ away # back
  BY AskedFacts
<1>3. /\ Follows(away, back)'
      /\ Head(tx).cmd = away => ~Absent(back)
      /\ Absent(back)' /\ Head(tx).cmd # back => Absent(back)
  <2>1. Follows(away, back)
    BY <1>2 DEF ToBeGiven
  <2> QED
    BY <2>1, FollowsRead
<1>4. Absent(back) => Given(Kind, set)
  BY <1>2 DEF ToBeGiven
<1>5. Absent(back)' => Given(Kind, set)'
  <2> SUFFICES ASSUME Absent(back)', Head(tx).cmd # back PROVE Given(Kind, set)'
    BY <1>2
  <2>1. Absent(back) /\ Head(tx).cmd # away
    BY <1>3
  <2> QED
    BY <1>2, <1>4, <2>1
<1>6. ToBeGiven(set)'
  BY <1>1, <1>2, <1>3, <1>5 DEF ToBeGiven
<1>7. NowGiven(set)'
  <2>1. ~Own'
    BY DEF Own, NoInput, Written
  <2> QED
    BY <2>1 DEF NowGiven, OwnOpen
<1> QED
  BY <1>6, <1>7

\* The text is read, and taken or refused.
LEMMA TextInForce ==
  ASSUME Typed, Prompted, Credited, used.late <= 2, tx # <<>>, tx' = Tail(tx),
         kinds' = kinds, todo' = todo, phase' = phase, Head(tx).cmd = "body",
         dev' = [dev EXCEPT !.input = NoInput, !.clean = TRUE],
         NEW set \in Attributes, InForce(set)
  PROVE  InForce(set)' /\ (Chosen(set) => Given(Kind, set))
<1>1. /\ phase = "confirm" /\ ~NoBody /\ tx' = <<>>
  BY TextRead
<1>2. Own
  BY <1>1 DEF Credited, TextUnderOwn
<1>3. Chosen(set) => Given(Kind, set)
  BY <1>1, <1>2 DEF InForce, Refused, NowGiven
<1>4. Kind' = Kind
  BY DEF Kind
<1>5. Given(Kind, set)' <=> Given(Kind, set)
  <2>1. PICK k : k = Kind
    OBVIOUS
  <2>2. Given(k, set)' <=> Given(k, set)
    BY StillGiven DEF Typed, ModemTyped
  <2> QED
    BY <1>4, <2>1, <2>2 DEF Given
<1>6. Chosen(set)' <=> Chosen(set)
  BY <1>4 DEF Chosen
<1>7. Follows(Unasked(Kind, set), Asked(Kind, set))'
  BY <1>1 DEF Follows
<1>8. InForce(set)'
  BY <1>3, <1>5, <1>6, <1>7 DEF InForce, ToBeGiven, NowGiven
<1> QED
  BY <1>3, <1>8

\* The modem answers with an error what it does not do.
LEMMA ErrorInForce ==
  ASSUME Typed, tx # <<>>, tx' = Tail(tx), kinds' = kinds, todo' = todo, phase' = phase,
         dev.input = NoInput, dev' = dev, Head(tx).cmd = "CMGS" \/ Head(tx).cmd \in Texts,
         Refused => Refused', NEW set, InForce(set)
  PROVE  InForce(set)'
<1>1. Kind' = Kind
  BY DEF Kind
<1>2. Chosen(set)' <=> Chosen(set)
  BY <1>1 DEF Chosen
<1>3. Given(Kind, set)' <=> Given(Kind, set)
  BY <1>1 DEF Given
<1>4. Head(tx).cmd \notin {Asked(Kind, set), Unasked(Kind, set)}
  BY AskedFacts
<1>5. ToBeGiven(set) => ToBeGiven(set)' /\ NowGiven(set)'
  BY <1>3, <1>4, ReadInForce DEF Typed
<1> QED
  BY <1>2, <1>5 DEF InForce

LEMMA ModemAnswersInForce ==
  ASSUME Typed, Prompted, Credited, used.late <= 2, ModemAnswers,
         NEW set \in Attributes, InForce(set)
  PROVE  InForce(set)'
<1> DEFINE w == Head(tx)
<1>1. /\ tx # <<>> /\ tx' = Tail(tx) /\ kinds' = kinds /\ todo' = todo /\ phase' = phase
      /\ used' = used
  BY DEF ModemAnswers, clientVars
<1>2. WritesTyped /\ dev \in DevSet /\ w \in WriteSet /\ LinesTyped
  BY <1>1, WritesShrink DEF Typed, ModemTyped
<1>3. Kind' = Kind
  BY <1>1 DEF Kind
<1>4. Chosen(set)' <=> Chosen(set)
  BY <1>1, <1>3 DEF Chosen
<1>5. w.cmd \in Names
  BY <1>2 DEF WriteSet, Names
\* A refusal stays where it is.
<1>6. ASSUME NEW t \in {"prompt", "error"}, line' = Append(line, Line(t, w.cmd, FALSE)), Refused
      PROVE  Refused'
  <2>1. PICK e \in LineSet : e = Line(t, w.cmd, FALSE)
    BY <1>5, OneLineTyped
  <2> QED
    BY <1>1, <1>2, <1>6, <2>1, ErrorAppended DEF Refused
<1>7. CASE dev.input # NoInput /\ TakesText(w)
  <2>1. w.cmd = "body" /\ dev' = [dev EXCEPT !.input = NoInput, !.clean = TRUE]
    BY <1>7 DEF TakesText
  <2> QED
    BY <1>1, <2>1, TextInForce
<1>8. CASE dev.input # NoInput /\ Swallowed(w)
  <2>1. dev' = [dev EXCEPT !.clean = FALSE] /\ line' = line
    BY <1>8 DEF Swallowed
  <2>2. dev'.input # NoInput /\ ~dev'.clean
    BY <1>2, <1>8, <2>1 DEF DevSet
  <2>3. ToBeGiven(set)' /\ NowGiven(set)'
    BY <2>2 DEF ToBeGiven, NowGiven, OwnOpen, Own
  <2> QED
    BY <2>3 DEF InForce
<1>9. CASE dev.input = NoInput /\ Command(w)
  <2>1. PICK cmd \in Commands : cmd = w.cmd /\ dev' = Effect(cmd)
    BY <1>2, <1>9 DEF Command, WriteSet
  <2>2. PICK answer \in Answers(cmd) : line' = line \o answer
    BY <1>9, <2>1 DEF Command
  <2>3. Refused => Refused'
    <3>1. answer \in Seq(LineSet)
      BY <1>2, AnswersTyped
    <3> QED
      BY <1>1, <1>2, <2>2, <3>1, ErrorStays DEF Refused
  <2>4. dev'.input = NoInput
    BY <1>2, <1>9, <2>1, EffectTyped
  <2>5. /\ cmd = Asked(Kind, set) => Given(Kind, set)'
        /\ cmd \notin {Asked(Kind, set), Unasked(Kind, set)} =>
             (Given(Kind, set)' <=> Given(Kind, set))
    <3>1. PICK k : k = Kind
      OBVIOUS
    <3>2. /\ cmd = Asked(k, set) => Given(k, set)'
          /\ cmd \notin {Asked(k, set), Unasked(k, set)} => (Given(k, set)' <=> Given(k, set))
      BY <1>2, <2>1, EffectGiven
    <3> QED
      BY <1>3, <3>1, <3>2 DEF Given
  <2>6. ToBeGiven(set) => ToBeGiven(set)' /\ NowGiven(set)'
    BY <1>1, <1>2, <1>9, <2>1, <2>4, <2>5, ReadInForce
  <2> QED
    BY <1>4, <2>3, <2>6 DEF InForce
<1>10. CASE dev.input = NoInput /\ OpensInput(w)
  <2>1. CASE Understood(w)
    <3>1. /\ w.cmd = "CMGS" /\ dev' = [dev EXCEPT !.input = w, !.clean = TRUE]
          /\ line' = Append(line, Line("prompt", w.cmd, FALSE))
      BY <1>10, <2>1 DEF OpensInput
    <3>2. Refused => Refused'
      BY <1>6, <3>1
    <3>3. dev'.input # NoInput
      <4>1. w # NoInput
        BY <3>1 DEF NoInput, Written
      <4> QED
        BY <1>2, <3>1, <4>1 DEF DevSet
    <3>4. Given(Kind, set)' <=> Given(Kind, set)
      <4>1. PICK k : k = Kind
        OBVIOUS
      <4>2. PICK input : input = w
        OBVIOUS
      <4>3. Given(k, set)' <=> Given(k, set)
        BY <1>2, <3>1, <4>2, StillGiven
      <4> QED
        BY <1>3, <4>1, <4>3 DEF Given
    <3>5. NoBody'
      <4>1. NoTexts
        BY <1>10 DEF Prompted, PromptsMatch
      <4>2. NoTexts'
        BY <1>1, <1>2, <4>1, TxShrinks
      <4> QED
        BY <4>2 DEF NoTexts, NoBody, Texts
    <3>6. tx' = <<>> => Absent(Asked(Kind, set))
      <4> SUFFICES ASSUME tx' = <<>> PROVE Absent(Asked(Kind, set))
        OBVIOUS
      <4>1. Len(tx') = Len(tx) - 1 /\ Len(tx) \in Nat \ {0} /\ Head(tx) = tx[1]
        BY <1>1, <1>2, TxShrinks
      <4>2. \A k \in 1 .. Len(tx) : tx[k].cmd = "CMGS"
        <5>1. Len(tx') = 0
          BY EmptyFacts, Zenon
        <5>2. \A n \in Nat : n - 1 = 0 => \A k \in 1 .. n : k = 1
          OBVIOUS
        <5>3. \A k \in 1 .. Len(tx) : k = 1
          BY <4>1, <5>1, <5>2
        <5> QED
          BY <3>1, <4>1, <5>3
      <4> QED
        BY <4>2, AskedFacts DEF Absent
    <3>7. ToBeGiven(set) => NowGiven(set)'
      BY <1>1, <1>3, <1>10, <3>4, <3>5, <3>6 DEF ToBeGiven, NowGiven, OwnOpen
    <3> QED
      BY <1>4, <3>2, <3>3, <3>7 DEF InForce, ToBeGiven
  <2>2. CASE ~Understood(w)
    <3>1. w.cmd = "CMGS" /\ dev' = dev /\ line' = Append(line, Line("error", w.cmd, FALSE))
      BY <1>10, <2>2 DEF OpensInput, Error
    <3> QED
      BY <1>1, <1>6, <1>10, <3>1, ErrorInForce
  <2> QED
    BY <2>1, <2>2
<1>11. CASE /\ dev.input = NoInput /\ w.cmd \in Texts
            /\ line' = Append(line, Error(w.cmd)) /\ UNCHANGED <<modemVars, unset>>
  <2>1. dev' = dev /\ line' = Append(line, Line("error", w.cmd, FALSE))
    BY <1>11 DEF Error, modemVars
  <2> QED
    BY <1>1, <1>6, <1>11, <2>1, ErrorInForce
<1> QED
  BY <1>7, <1>8, <1>9, <1>10, <1>11 DEF ModemAnswers, Texts

\* A refused command: the client is about to read of it, or it was no setting.
LEMMA ModemRefusesInForce ==
  ASSUME Typed, Prompted, Credited, used'.late = 0, ModemRefuses,
         NEW set \in Attributes, InForce(set)
  PROVE  InForce(set)'
<1> DEFINE w == Head(tx)
<1>1. /\ tx # <<>> /\ tx' = Tail(tx) /\ kinds' = kinds /\ todo' = todo /\ phase' = phase
      /\ used' = [used EXCEPT !.errors = @ + 1]
      /\ line' = Append(line, Line("error", w.cmd, FALSE))
  BY DEF ModemRefuses, clientVars, Err, Error
<1>2. WritesTyped /\ w \in WriteSet /\ LinesTyped /\ CountsTyped
  BY <1>1, WritesShrink DEF Typed
<1>3. used.late = 0 /\ used'.errors > 0
  BY <1>1, <1>2 DEF CountsTyped
<1>4. HasError'
  <2>1. w.cmd \in Names
    BY <1>2 DEF WriteSet, Names
  <2>2. PICK e \in LineSet : e = Line("error", w.cmd, FALSE) /\ e.t = "error"
    BY <2>1, ErrorTyped
  <2> QED
    BY <1>1, <1>2, <2>2, ErrorAppended
<1>5. CASE phase = "reply"
  BY <1>1, <1>3, <1>4, <1>5 DEF InForce, Refused
<1>6. CASE phase # "reply" /\ dev.input = NoInput /\ UNCHANGED dev
  <2>1. /\ Len(tx) \in Nat \ {0} /\ Head(tx) = tx[1]
        /\ Cardinality(Finals) \in Nat
    BY <1>1, <1>2, TxShrinks, PendingTyped
  <2>2. Waiting /\ Len(tx) = 1
    <3>1. Cardinality(Finals) + Len(tx) <= 0 + (IF Waiting THEN 1 ELSE 0)
      BY <1>3, <1>6 DEF Credited, Credit, Pending
    <3>2. \A c \in Nat, n \in Nat \ {0} : c + n <= 0 + 1 => n = 1
      OBVIOUS
    <3>3. \A c \in Nat, n \in Nat \ {0} : ~(c + n <= 0 + 0)
      OBVIOUS
    <3>4. Waiting
      BY <2>1, <3>1, <3>3
    <3> QED
      BY <2>1, <3>1, <3>2, <3>4
  <2>3. phase # "confirm"
    <3>1. NoBody
      BY <1>6 DEF Prompted, PromptsMatch, NoTexts, NoBody, Texts
    <3> QED
      BY <1>1, <3>1 DEF Prompted, TextGiven
  <2>4. w.cmd = "CMGS"
    <3>1. tx[Len(tx)] = Written("CMGS", Msg, Head(todo).part)
      BY <1>1, <1>6, <2>2, <2>3 DEF Prompted, OwnSubmit, Waiting
    <3> QED
      BY <2>1, <2>2, <3>1 DEF Written
  <2> QED
    BY <1>1, <1>6, <2>4, ErrorInForce DEF Refused
<1>7. CASE w.cmd = "body" /\ dev' = [dev EXCEPT !.input = NoInput, !.clean = TRUE]
  BY <1>1, <1>3, <1>7, TextInForce
<1> QED
  BY <1>5, <1>6, <1>7 DEF ModemRefuses

LEMMA BoundsGrow ==
  ASSUME Typed, [Next]_vars
  PROVE  /\ used'.late \in Nat /\ used'.late >= used.late
         /\ used'.errors \in Nat /\ used'.errors >= used.errors
         /\ Mild' => Mild
<1>1. used \in [late : Nat, errors : Nat, urcs : Nat]
  BY DEF Typed, CountsTyped
<1>2. \/ used' = used
      \/ used' = [used EXCEPT !.errors = @ + 1]
      \/ used' = [used EXCEPT !.late = @ + 1]
      \/ used' = [used EXCEPT !.urcs = @ + 1]
  BY DEF Next, Client, Start, RestartGnssTask, Send, SendFails, Reply, AwaitPrompt, BodyFails,
         AwaitConfirmation, TimesOut, GivesUp, ModemAnswers, ModemRefuses, Urc, Err, vars
<1>3. /\ used'.late \in Nat /\ used'.late >= used.late
      /\ used'.errors \in Nat /\ used'.errors >= used.errors
  BY <1>1, <1>2
<1>4. used.late \in Nat /\ used.errors \in Nat
  BY <1>1
<1> QED
  BY <1>3, <1>4 DEF Mild

\* The text taken is encoded as the send asked for.
LEMMA TakenEncoded ==
  ASSUME Typed, Prompted, Credited, used.late <= 2, tx # <<>>, tx' = Tail(tx),
         kinds' = kinds, todo' = todo, phase' = phase, TakesText(Head(tx)),
         \A set \in Attributes : InForce(set), SentEncoded
  PROVE  SentEncoded'
<1>1. /\ Head(tx).cmd = "body" /\ dev' = [dev EXCEPT !.input = NoInput, !.clean = TRUE]
      /\ sent' = Append(sent, [msg |-> Head(tx).msg, part |-> Head(tx).part, to |-> dev.input.msg,
                               of |-> dev.input.part, whole |-> dev.clean, as |-> Encoded])
  BY DEF TakesText
<1>2. /\ phase = "confirm" /\ todo # <<>> /\ Kind \in Sends /\ Head(tx).msg = Msg
      /\ Head(todo).role = "submit"
  BY <1>1, TextRead
<1>3. ScriptedAs(todo) /\ sent \in Seq(SentSet)
  BY DEF Typed, ClientTyped, ModemTyped
<1>4. ASSUME NEW set \in SetBy(Kind) PROVE Given(Kind, set)
  <2>1. set \in Attributes
    BY DEF SetBy, Attributes
  <2>2. Chosen(set) => Given(Kind, set)
    BY <1>1, <2>1, TextInForce
  <2>3. Len(todo) \in LastSubmit(Kind) .. AskedAt(Kind, set) - 1
    BY <1>2, <1>3, AskedWhen
  <2> QED
    BY <1>2, <2>2, <2>3 DEF Chosen
<1>5. Encoded = Encoding(Kind)
  <2>1. CASE Kind = "long"
    <3>1. Given(Kind, "mode")
      BY <1>4, <2>1 DEF SetBy
    <3>2. dev.mode = "pdu" /\ Encoding(Kind) = "PDU"
      BY <2>1, <3>1 DEF Given, Encoding
    <3> QED
      BY <3>2 DEF Encoded
  <2>2. CASE Kind = "gsm"
    <3>1. Given(Kind, "mode") /\ Given(Kind, "charset") /\ Given(Kind, "dcs")
      BY <1>4, <2>2 DEF SetBy, Attributes
    <3>2. dev.mode = "text" /\ dev.charset = "GSM" /\ dev.dcs = "GSM" /\ Encoding(Kind) = "GSM"
      BY <2>2, <3>1 DEF Given, Encoding
    <3> QED
      BY <3>2 DEF Encoded
  <2>3. CASE Kind = "ucs2"
    <3>1. Given(Kind, "mode") /\ Given(Kind, "charset") /\ Given(Kind, "dcs")
      BY <1>4, <2>3 DEF SetBy, Attributes
    <3>2. dev.mode = "text" /\ dev.charset = "UCS2" /\ dev.dcs = "UCS2" /\ Encoding(Kind) = "UCS2"
      BY <2>3, <3>1 DEF Given, Encoding
    <3> QED
      BY <3>2 DEF Encoded
  <2> QED
    BY <1>2, <2>1, <2>2, <2>3 DEF Sends
<1>6. PICK e : sent' = Append(sent, e) /\ e.msg = Msg /\ e.as = Encoding(Kind)
  BY <1>1, <1>2, <1>5
<1>7. /\ Len(sent') = Len(sent) + 1 /\ Len(sent) \in Nat /\ sent'[Len(sent) + 1] = e
      /\ \A i \in 1 .. Len(sent) : sent'[i] = sent[i]
  BY <1>3, <1>6
<1>8. Kind = kinds[Msg]
  BY DEF Kind, Msg, Last
<1>9. ASSUME NEW i \in 1 .. Len(sent') PROVE sent'[i].as = Encoding(kinds[sent'[i].msg])
  <2>1. CASE i \in 1 .. Len(sent)
    BY <1>7, <2>1 DEF SentEncoded
  <2>2. CASE i = Len(sent) + 1
    BY <1>6, <1>7, <1>8, <2>2
  <2> QED
    BY <1>7, <2>1, <2>2
<1> QED
  BY <1>9 DEF SentEncoded

LEMMA SentEncodedStays ==
  ASSUME Typed, SentTyped, SentEncoded, sent' = sent,
         kinds' = kinds \/ \E kind \in Kinds : kinds' = Append(kinds, kind)
  PROVE  SentEncoded'
<1>1. ASSUME NEW i \in 1 .. Len(sent) PROVE kinds'[sent[i].msg] = kinds[sent[i].msg]
  <2>1. sent[i].msg \in 1 .. Len(kinds) /\ kinds \in Seq(Kinds)
    BY DEF SentTyped, Typed, ClientTyped
  <2> QED
    BY <2>1, AppendFacts
<1> QED
  BY <1>1 DEF SentEncoded

LEMMA EncodesStep ==
  ASSUME Typed, Prompted, Ordered, Credited, Credited', Encodes, [Next]_vars
  PROVE  Encodes'
<1> SUFFICES ASSUME Mild' PROVE SentEncoded' /\ \A set \in Attributes : InForce(set)'
  BY DEF Encodes
<1>0. ClientTyped /\ LinesTyped /\ WritesTyped /\ CountsTyped /\ SentTyped
  BY DEF Typed, Ordered
<1>1. /\ SentEncoded /\ \A set \in Attributes : InForce(set)
      /\ used.late <= 2 /\ used'.late <= 2
      /\ used'.errors > 0 => used'.late = 0
  <2>1. Mild
    BY BoundsGrow
  <2>2. used'.errors > 0 => used'.late = 0
    BY BoundsGrow DEF Mild
  <2> QED
    BY <2>1, <2>2 DEF Encodes, Mild
<1> DEFINE Goal == SentEncoded' /\ \A set \in Attributes : InForce(set)'
<1>2. ASSUME kinds' = kinds, sent' = sent PROVE SentEncoded'
  BY <1>0, <1>1, <1>2, SentEncodedStays
<1>3. CASE \E kind \in Kinds : Start(kind)
  <2>1. PICK kind \in Kinds : Start(kind)
    BY <1>3
  <2>2. SentEncoded'
    BY <1>0, <1>1, <2>1, SentEncodedStays DEF Start, modemVars
  <2> QED
    BY <2>1, <2>2, StartInForce
<1>4. CASE RestartGnssTask \/ UNCHANGED vars
  <2>1. /\ kinds' = kinds /\ todo' = todo /\ phase' = phase /\ dev' = dev /\ used' = used
        /\ tx' = tx /\ line' = line /\ sent' = sent
    BY <1>4 DEF RestartGnssTask, vars, clientVars, modemVars
  <2>2. Refused => Refused'
    BY <2>1 DEF Refused, HasError
  <2> QED
    BY <1>1, <1>2, <2>1, <2>2, WaitInForce
<1>5. CASE Urc
  <2>1. /\ kinds' = kinds /\ todo' = todo /\ phase' = phase /\ dev' = dev /\ tx' = tx
        /\ sent' = sent /\ used' = [used EXCEPT !.urcs = @ + 1]
    BY <1>5 DEF Urc, clientVars, modemVars
  <2>2. PICK i \in 1 .. Len(line) + 1, e \in LineSet : line' = InsertAt(line, i, e)
    BY <1>5, UrcInserts
  <2>4. HasError => HasError'
    BY <1>0, <2>2, ErrorReported
  <2>5. used'.late = used.late /\ used'.errors = used.errors
    BY <1>0, <2>1 DEF CountsTyped
  <2>6. Refused => Refused'
    BY <2>1, <2>4, <2>5 DEF Refused
  <2> QED
    BY <1>1, <1>2, <2>1, <2>6, WaitInForce
\* A line is read that ends no step.
<1>6. ASSUME line # <<>>, line' = Tail(line), Head(line).t # "error", phase' = phase,
             kinds' = kinds, todo' = todo, tx' = tx, dev' = dev, sent' = sent, used' = used
      PROVE  Goal
  <2>1. Refused => Refused'
    BY <1>6, RefusedRead DEF Refused
  <2> QED
    BY <1>1, <1>2, <1>6, <2>1, WaitInForce
\* A step ends.
<1>7. ASSUME phase \in {"reply", "prompt", "confirm"}, Succeeded \/ Failed,
             Failed \/ (line # <<>> /\ line' = Tail(line) /\ Head(line).t = "ok" /\ tx' = tx),
             dev' = dev, sent' = sent
      PROVE  Goal
  <2>1. kinds' = kinds
    BY <1>7 DEF Succeeded, Failed, Proceed
  <2> QED
    BY <1>1, <1>2, <1>7, <2>1, EndInForce
<1>8. CASE Reply
  <2>1. /\ phase = "reply" /\ line # <<>> /\ line' = Tail(line) /\ tx' = tx /\ dev' = dev
        /\ sent' = sent /\ used' = used
    BY <1>8 DEF Reply, modemVars
  <2>2. \/ Head(line).t = "ok" /\ Succeeded
        \/ Failed
        \/ Head(line).t # "error" /\ kinds' = kinds /\ todo' = todo /\ phase' = phase
    BY <1>8 DEF Reply
  <2> QED
    BY <1>6, <1>7, <2>1, <2>2
<1>9. CASE AwaitPrompt
  <2>1. /\ phase = "prompt" /\ line # <<>> /\ line' = Tail(line) /\ dev' = dev
        /\ sent' = sent /\ used' = used
    BY <1>9 DEF AwaitPrompt, modemVars
  <2>2. CASE /\ Head(line).t = "prompt" /\ phase' = "confirm" /\ kinds' = kinds /\ todo' = todo
             /\ tx' = Append(tx, Written("body", Msg, Head(todo).part))
    BY <1>1, <1>2, <2>1, <2>2, PromptReadInForce
  <2>3. CASE Failed
    BY <1>7, <2>1, <2>3
  <2>4. CASE Head(line).t # "error" /\ UNCHANGED <<clientVars, tx>>
    BY <1>6, <2>1, <2>4 DEF clientVars
  <2> QED
    BY <1>9, <2>2, <2>3, <2>4 DEF AwaitPrompt
<1>10. CASE AwaitConfirmation
  <2>1. /\ phase = "confirm" /\ line # <<>> /\ line' = Tail(line) /\ tx' = tx /\ dev' = dev
        /\ sent' = sent /\ used' = used
    BY <1>10 DEF AwaitConfirmation, modemVars
  <2>2. \/ Head(line).t = "ok" /\ Succeeded
        \/ Failed
        \/ Head(line).t # "error" /\ kinds' = kinds /\ todo' = todo /\ phase' = phase
    BY <1>10 DEF AwaitConfirmation, clientVars
  <2> QED
    BY <1>6, <1>7, <2>1, <2>2
<1>11. CASE TimesOut \/ GivesUp \/ BodyFails
  <2>1. /\ phase \in {"reply", "prompt", "confirm"} /\ Failed /\ dev' = dev /\ sent' = sent
    BY <1>11 DEF TimesOut, GivesUp, BodyFails, Waiting, modemVars
  <2> QED
    BY <1>7, <2>1
<1>12. CASE Send
  <2>1. kinds' = kinds /\ sent' = sent
    BY <1>12 DEF Send, modemVars
  <2> QED
    BY <1>1, <1>2, <1>12, <2>1, SendInForce
<1>13. CASE SendFails
  <2>1. kinds' = kinds /\ sent' = sent
    BY <1>13 DEF SendFails, Proceed, modemVars
  <2> QED
    BY <1>2, <1>13, <2>1, SendFailsInForce
<1>14. CASE ModemAnswers
  <2>1. /\ tx # <<>> /\ tx' = Tail(tx) /\ kinds' = kinds /\ todo' = todo /\ phase' = phase
    BY <1>14 DEF ModemAnswers, clientVars
  <2>2. TakesText(Head(tx)) \/ sent' = sent
    BY <1>14 DEF ModemAnswers, Swallowed, Command, OpensInput, modemVars
  <2>3. SentEncoded'
    BY <1>1, <1>2, <2>1, <2>2, TakenEncoded
  <2> QED
    BY <1>1, <1>14, <2>3, ModemAnswersInForce
<1>15. CASE ModemRefuses
  <2>1. kinds' = kinds /\ sent' = sent /\ used' = [used EXCEPT !.errors = @ + 1]
    BY <1>15 DEF ModemRefuses, clientVars, Err
  <2>2. used'.late = 0
    BY <1>0, <1>1, <2>1 DEF CountsTyped
  <2> QED
    BY <1>1, <1>2, <1>15, <2>1, <2>2, ModemRefusesInForce
<1> QED
  BY <1>3, <1>4, <1>5, <1>8, <1>9, <1>10, <1>11, <1>12, <1>13, <1>14, <1>15 DEF Next, Client

\* Unless a command was refused, or a third answer is given up on, the settings a send
\* asks for are those its text is taken in.
THEOREM EncodingInvariant == Spec => []Encodes
<1>1. Init => Encodes
  BY DEF Init, Encodes, SentEncoded, InForce, Chosen
<1>2. Typed /\ Prompted /\ Ordered /\ Credited /\ Credited' /\ Encodes /\ [Next]_vars => Encodes'
  BY EncodesStep
<1> QED
  BY <1>1, <1>2, TypeInvariant, PromptInvariant, OrderInvariant, CreditInvariant, PTL DEF Spec

\* An SMS reported as sent has been accepted by the modem, every part of it under its
\* own CMGS, whole and in its charset, as far as late answers allow.
THEOREM SentWhenReported == Spec => []SuccessMeansSent
<1>1. Typed /\ Ordered /\ Credited /\ Encodes => SuccessMeansSent
  <2> SUFFICES ASSUME Typed, Ordered, Credited, Encodes, Idle, kinds # <<>>, Kind \in Sends, ok,
                      NEW p \in 1 .. (IF Kind = "long" THEN Parts ELSE 1)
               PROVE  \E i \in DOMAIN sent :
                        /\ sent[i].msg = Msg /\ sent[i].part = p
                        /\ used.late <= 2 => sent[i].to = Msg /\ sent[i].of = p /\ sent[i].whole
                        /\ used.late = 0 \/ (used.late <= 2 /\ used.errors = 0) =>
                             sent[i].as = Encoding(Kind)
    BY DEF SuccessMeansSent
  <2>1. todo = <<>> /\ Len(todo) = 0
    BY DEF Idle, Typed, ClientTyped
  <2>2. NextPart(Kind, 0) - 1 = IF Kind = "long" THEN Parts ELSE 1
    BY AtDialogAssumption DEF NextPart, Sends
  <2>3. Has(p)
    BY <2>1, <2>2 DEF Ordered, PartsIn
  <2>4. PICK i \in 1 .. Len(sent) : sent[i].msg = Msg /\ sent[i].part = p
    BY <2>3 DEF Has
  <2>5. i \in DOMAIN sent
    BY DEF Typed, ModemTyped
  <2>6. used.late <= 2 => sent[i].to = Msg /\ sent[i].of = p /\ sent[i].whole
    BY <2>4 DEF Credited, SentUnderOwn
  <2>7. ASSUME used.late = 0 \/ (used.late <= 2 /\ used.errors = 0)
        PROVE  sent[i].as = Encoding(Kind)
    <3>1. Mild
      BY <2>7 DEF Mild
    <3>2. sent[i].as = Encoding(kinds[Msg])
      BY <2>4, <3>1 DEF Encodes, SentEncoded
    <3> QED
      BY <3>2 DEF Kind, Msg, Last
  <2> QED
    BY <2>4, <2>5, <2>6, <2>7
<1> QED
  BY <1>1, TypeInvariant, OrderInvariant, CreditInvariant, EncodingInvariant, PTL

-----------------------------------------------------------------------------
(* Which answer a status field is taken from. *)

\* No answer has been given up on, nothing was refused and no write has failed: then
\* the client and the modem take turns.
Exact == used.late = 0 /\ used.errors = 0

\* The steps that do not look into the second store, and the two that do.
Inert(step) ==
  /\ step.cmd # "CPMS=SM" /\ step.role # "store" /\ step.field # "smsSm"
  /\ step.cmd = "CPMS?" <=> step.field = "smsMe"
SelectSm == Step("CPMS=SM", "store", "none", <<>>)
AskSm == Ask("CPMS?", "smsSm")

\* The second store is selected and asked at once, and the first one selected after it.
StoreShape(left) ==
  left # <<>> /\ Kind \notin Sends =>
    /\ \A i \in 2 .. Len(left) : Inert(left[i])
    /\ \/ Inert(left[1])
       \/ left[1] \in {SelectSm, AskSm} /\ Len(left) >= 2 /\ left[2].cmd = "CPMS=ME"

GotInReply == got # NoLine => phase = "reply"

\* The modem waits for a text only in a submission; while the client waits, the answer
\* is on its way, of the kind it waits for, and of a reply to the command of the step.
TurnTaken ==
  /\ phase \notin {"prompt", "confirm"} => dev.input = NoInput
  /\ phase = "prompt" /\ dev.input # NoInput => ~NoPrompt
  /\ Waiting => Pending # 0 \/ Finals # {}
  /\ \A i \in Finals : line[i].t = "error" \/ (line[i].t = "prompt" <=> phase = "prompt")
  /\ phase = "reply" => \A k \in 1 .. Len(tx) : tx[k].cmd = Head(todo).cmd

\* Only a step that asks for the counters is answered with them, and of its store.
AsksStore(v) == phase = "reply" /\ Head(todo).cmd = "CPMS?" /\ v = (Head(todo).field = "smsSm")
StoreLines ==
  /\ \A i \in 1 .. Len(line) : line[i].t \notin {"ok", "error"} /\ line[i].of = "CPMS?" =>
       /\ AsksStore(line[i].v)
       /\ \E j \in i + 1 .. Len(line) : line[j].t \in {"ok", "error", "prompt"}
  /\ got.of = "CPMS?" => AsksStore(got.v)

\* The second store is selected from the answer of the step that selects it until the
\* modem reads the command that selects the first one again.
SelectedSm == todo # <<>> /\ Head(todo).cmd = "CPMS=SM" /\ phase = "reply" /\ tx = <<>>
StoreSelected ==
  /\ todo # <<>> /\ Head(todo).field = "smsSm" => dev.store = "SM"
  /\ SelectedSm => dev.store = "SM"
  /\ dev.store = "SM" /\ ~SelectedSm =>
       /\ todo # <<>>
       /\ \/ Head(todo).field = "smsSm"
          \/ Head(todo).cmd = "CPMS=ME" /\ (phase = "send" \/ tx # <<>>)

Fitting ==
  \A f \in fields : f.field \in {"cgatt", "fw"} \/ f.of \in Readable[f.field]
StoresFit ==
  \A f \in fields : f.field \in {"smsMe", "smsSm"} => f.v = (f.field = "smsSm")

Fits == GotInReply /\ Fitting
Turns == Exact => StoreShape(todo) /\ TurnTaken /\ StoreLines /\ StoreSelected /\ StoresFit

-----------------------------------------------------------------------------

InertSteps == {step \in PlainSteps : Inert(step)}

LEMMA InertStep ==
  ASSUME NEW cmd \in Commands \ SendOnly, NEW role \in Roles \ {"submit"}, NEW field \in Fields,
         cmd # "CPMS=SM", role # "store", field # "smsSm", cmd = "CPMS?" <=> field = "smsMe"
  PROVE  Step(cmd, role, field, <<>>) \in InertSteps
<1>1. Step(cmd, role, field, <<>>) \in PlainSteps
  BY PlainTyped
<1>2. /\ Step(cmd, role, field, <<>>).cmd = cmd /\ Step(cmd, role, field, <<>>).role = role
      /\ Step(cmd, role, field, <<>>).field = field
  BY DEF Step
<1> QED
  BY <1>1, <1>2 DEF InertSteps, Inert

LEMMA InertAnswers ==
  /\ May("CPMS=ME") \in InertSteps /\ Ask("GSN", "imei") \in InertSteps
  /\ Must("CGNSSPWR=0", <<>>) \in InertSteps /\ Must("CGNSSPWR=1", <<>>) \in InertSteps
  /\ Step("CGNSSMODE?", "mode", "none", <<>>) \in InertSteps
  /\ May("CGNSSMODE=3") \in InertSteps
<1>1. {"CPMS=ME", "GSN", "CGNSSPWR=0", "CGNSSPWR=1", "CGNSSMODE?", "CGNSSMODE=3"}
        \subseteq Commands \ SendOnly
  BY DEF Commands, Queries, SendOnly
<1>2. {"may", "must", "mode"} \subseteq Roles \ {"submit"} /\ {"none", "imei"} \subseteq Fields
  BY DEF Roles, Fields
<1> QED
  BY <1>1, <1>2, InertStep DEF May, Ask, Must

LEMMA InertSequences ==
  /\ \A a \in InertSteps : <<a>> \in Seq(InertSteps)
  /\ \A a, b \in InertSteps : <<a, b>> \in Seq(InertSteps)
  /\ <<>> \in Seq(InertSteps)
  /\ \A s, t \in Seq(InertSteps) : s \o t \in Seq(InertSteps)
OBVIOUS

\* Only the answer to the counters leads to the second store.
LEMMA InertFollow ==
  ASSUME todo \in Seq(InertSteps), todo # <<>>, NEW good \in BOOLEAN,
         ~(good /\ Head(todo).role = "counters")
  PROVE  Follow(good) \in Seq(InertSteps)
<1> DEFINE step == Head(todo)
           rest == Tail(todo)
<1>1. step \in InertSteps /\ rest \in Seq(InertSteps)
  OBVIOUS
<1>2. step.role \in Roles \ {"submit", "store"} /\ step.undo = <<>> /\ step.tries \in 1 .. Tries
  BY <1>1 DEF InertSteps, Inert, PlainSteps, StepSet
<1>3. <<>> \in Seq(InertSteps)
  OBVIOUS
<1>4. PowerOn \in Seq(InertSteps)
  BY InertAnswers, InertSequences DEF PowerOn
<1>5. Retry(step) \in Seq(InertSteps)
  <2>1. CASE step.tries = 1
    BY <2>1, <1>3 DEF Retry
  <2>2. CASE step.tries # 1
    <3>1. step.tries - 1 \in 1 .. Tries
      BY <2>2, <1>2, AtDialogAssumption
    <3>2. [step EXCEPT !.tries = @ - 1] \in PlainSteps
      BY <3>1, <1>1 DEF InertSteps, PlainSteps, StepSet
    <3>3. PICK less : less = [step EXCEPT !.tries = @ - 1]
      OBVIOUS
    <3>4. less.cmd = step.cmd /\ less.role = step.role /\ less.field = step.field
      BY <1>1, <3>3 DEF InertSteps, PlainSteps, StepSet
    <3>5. less \in InertSteps
      BY <1>1, <3>2, <3>3, <3>4 DEF InertSteps, Inert
    <3> QED
      BY <2>2, <3>3, <3>5, InertSequences DEF Retry
  <2> QED
    BY <2>1, <2>2
<1>6. \A first \in Seq(InertSteps) : first \o rest \in Seq(InertSteps)
  BY <1>1
<1>7. CASE step.role \in {"may", "blind", "must"}
  BY <1>1, <1>2, <1>3, <1>7 DEF Follow
<1>8. CASE step.role = "probe"
  BY <1>1, <1>3, <1>5, <1>6, <1>8 DEF Follow
<1>9. CASE step.role = "counters"
  BY <1>1, <1>9 DEF Follow
<1>10. CASE step.role = "imei"
  BY <1>1, <1>6, <1>10, InertAnswers, InertSequences DEF Follow
<1>11. CASE step.role = "cycle"
  BY <1>1, <1>3, <1>6, <1>11, InertAnswers, InertSequences DEF Follow
<1>12. CASE step.role = "ensure"
  BY <1>1, <1>4, <1>6, <1>12, InertAnswers, InertSequences DEF Follow
<1>13. CASE step.role = "mode"
  BY <1>1, <1>6, <1>13, InertAnswers, InertSequences DEF Follow
<1> QED
  BY <1>2, <1>7, <1>8, <1>9, <1>10, <1>11, <1>12, <1>13 DEF Roles

LEMMA InertShape ==
  ASSUME NEW left \in Seq(InertSteps)
  PROVE  StoreShape(left) /\ (left # <<>> => left[1].field # "smsSm")
<1>1. \A i \in 1 .. Len(left) : Inert(left[i])
  BY DEF InertSteps
<1>2. left # <<>> => 1 \in 1 .. Len(left)
  OBVIOUS
<1>3. \A i \in 2 .. Len(left) : i \in 1 .. Len(left)
  OBVIOUS
<1> QED
  BY <1>1, <1>2, <1>3 DEF StoreShape, Inert

\* A send has nothing to do with the stores.
LEMMA SendInert ==
  ASSUME ScriptedAs(todo), todo # <<>>, Kind \in Sends
  PROVE  Inert(Head(todo)) /\ Head(todo).field = "none"
<1>1. "none" \notin {"smsMe", "smsSm"} /\ "CMGS" \notin {"CPMS?", "CPMS=SM"}
  OBVIOUS
<1>2. /\ Blind("AT").field = "none" /\ May("CSCS=UCS2").field = "none"
      /\ Blind("CMGF=1").field = "none"
  BY DEF Blind, May, Step
<1>3. CASE Kind = "gsm"
  <2>1. Len(todo) \in 1 .. 6 /\ Head(todo) = StepOf("gsm", Len(todo))
    BY <1>3, SendHead, GsmStepOf DEF Sends
  <2>2. (Len(todo) \in {1, 6} => Head(todo).field = "none")
        /\ (Len(todo) \in 2 .. 5 => Head(todo).field = "none")
    <3>1. Len(todo) = 6 => Head(todo) = Blind("AT")
      BY <2>1, GsmStepOf
    <3>2. Len(todo) = 1 => Head(todo) = May("CSCS=UCS2")
      BY <2>1, GsmStepOf
    <3> QED
      BY <1>2, <1>3, <3>1, <3>2, GsmHead DEF StepIs
  <2>3. Head(todo).field = "none"
    BY <2>1, <2>2
  <2> QED
    BY <1>3, <2>1, <2>3, GsmHead DEF StepIs, Inert
<1>4. CASE Kind = "ucs2"
  <2>1. Len(todo) \in 1 .. 5 /\ Head(todo) = StepOf("ucs2", Len(todo))
    BY <1>4, SendHead, Ucs2StepOf DEF Sends
  <2>2. Len(todo) = 5 => Head(todo) = Blind("AT")
    BY <2>1, Ucs2StepOf
  <2>3. Head(todo).field = "none"
    BY <1>2, <1>4, <2>1, <2>2, Ucs2Head DEF StepIs
  <2> QED
    BY <1>4, <2>1, <2>3, Ucs2Head DEF StepIs, Inert
<1>5. CASE Kind = "long"
  <2>1. Len(todo) \in 1 .. Parts + 4 /\ Head(todo) = StepOf("long", Len(todo)) /\ Parts \in Nat
    BY <1>5, SendHead, LongStepOf, AtDialogAssumption DEF Sends
  <2>2. /\ Len(todo) = Parts + 4 => Head(todo) = Blind("AT")
        /\ Len(todo) = 2 => Head(todo) = Blind("CMGF=1")
        /\ Len(todo) = 1 => Head(todo) = May("CSCS=UCS2")
    BY <2>1, LongStepOf
  <2>3. Len(todo) \in {1, 2, Parts + 3, Parts + 4} \/ Len(todo) \in 3 .. Parts + 2
    BY <2>1, LongCases
  <2>4. Head(todo).field = "none"
    BY <1>2, <1>5, <2>2, <2>3, LongHead DEF StepIs
  <2> QED
    BY <1>5, <2>3, <2>4, LongHead DEF StepIs, Inert
<1> QED
  BY <1>3, <1>4, <1>5 DEF Sends

LEMMA SendInertNow ==
  ScriptedAs(todo) /\ todo # <<>> /\ Kind \in Sends => Head(todo).field = "none"
BY SendInert

LEMMA SendInertNext ==
  ASSUME ScriptedAs(todo)', todo' # <<>>, Kind' \in Sends
  PROVE  Head(todo').field = "none"
<1>1. (ScriptedAs(todo) /\ todo # <<>> /\ Kind \in Sends => Head(todo).field = "none")'
  BY SendInertNow, PTL
<1> QED
  BY <1>1

LEMMA InertScripts ==
  ASSUME NEW kind \in {"init", "poll", "gnss"}
  PROVE  Script(kind) \in Seq(InertSteps)
<1>1. {"AT", "ATE0", "ATV1", "CMEE", "CMGF=1", "CSCS=UCS2", "CSDH", "CPMS=ME", "CNMI", "CPIN?",
       "CSQ", "CESQ", "CEREG?", "CREG?", "CGATT?", "COPS?", "CPMS?", "CCLK?", "CGSN", "CGMR",
       "CGDRT", "CGSETV", "CGNSSPWR?", "CGNSSMODE?", "CGPSINFO", "CGNSSINFO"}
      \subseteq Commands \ SendOnly
  BY DEF Commands, Queries, SendOnly
<1>2. {"may", "must", "probe", "counters", "imei", "cycle", "ensure"}
        \subseteq Roles \ {"submit", "store"}
  BY DEF Roles
<1>3. {"none", "cpin", "csq", "cesq", "cereg", "creg", "cgatt", "cops", "smsMe", "cclk", "imei",
       "fw", "powered", "mode", "fix", "sats"} \subseteq Fields \ {"smsSm"}
  BY DEF Fields
<1>4. \A cmd \in (Commands \ SendOnly) \ {"CPMS=SM", "CPMS?"},
         role \in Roles \ {"submit", "store"}, field \in Fields \ {"smsSm", "smsMe"} :
        Step(cmd, role, field, <<>>) \in InertSteps
  BY InertStep
<1>5. Step("CPMS?", "counters", "smsMe", <<>>) \in InertSteps
  BY <1>1, <1>2, <1>3, InertStep
<1>6. {"AT", "ATE0", "ATV1", "CMEE", "CMGF=1", "CSCS=UCS2", "CSDH", "CPMS=ME", "CNMI", "CPIN?",
       "CSQ", "CESQ", "CEREG?", "CREG?", "CGATT?", "COPS?", "CCLK?", "CGSN", "CGMR",
       "CGDRT", "CGSETV", "CGNSSPWR?", "CGNSSMODE?", "CGPSINFO", "CGNSSINFO"}
      \subseteq (Commands \ SendOnly) \ {"CPMS=SM", "CPMS?"}
  BY <1>1
<1>7. {"none", "cpin", "csq", "cesq", "cereg", "creg", "cgatt", "cops", "cclk", "imei",
       "fw", "powered", "mode", "fix", "sats"} \subseteq Fields \ {"smsSm", "smsMe"}
  BY <1>3
<1>8. InitScript \in Seq(InertSteps)
  BY <1>2, <1>4, <1>6, <1>7 DEF InitScript, May
<1>9. PollScript \in Seq(InertSteps)
  BY <1>2, <1>4, <1>5, <1>6, <1>7 DEF PollScript, Must, Ask
<1>10. EnsurePowered \in Seq(InertSteps)
  BY <1>2, <1>4, <1>6, <1>7 DEF EnsurePowered, Must
<1>11. GnssRestart \in Seq(InertSteps)
  <2>1. <<Step("CGNSSPWR?", "cycle", "none", <<>>)>> \in Seq(InertSteps)
    BY <1>2, <1>4, <1>6, <1>7
  <2> QED
    BY <2>1, <1>10, JoinFacts DEF GnssRestart
<1>12. GnssPoll \in Seq(InertSteps)
  <2>1. <<Must("AT", <<>>)>> \in Seq(InertSteps)
    BY <1>2, <1>4, <1>6, <1>7 DEF Must
  <2>2. <<Ask("CGNSSPWR?", "powered"), Ask("CGNSSMODE?", "mode"), Ask("CGPSINFO", "fix"),
          Ask("CGNSSINFO", "sats")>> \in Seq(InertSteps)
    BY <1>2, <1>4, <1>6, <1>7 DEF Ask
  <2> HIDE DEF Must, Ask
  <2>3. <<Must("AT", <<>>)>> \o EnsurePowered \in Seq(InertSteps)
    BY <2>1, <1>10, JoinFacts
  <2> QED
    BY <2>2, <2>3, JoinFacts DEF GnssPoll
<1>13. CASE kind = "gnss"
  <2>1. Script(kind) = (IF restartRequired THEN GnssRestart ELSE <<>>) \o GnssPoll
    BY <1>13 DEF Script
  <2>2. (IF restartRequired THEN GnssRestart ELSE <<>>) \in Seq(InertSteps)
    BY <1>11
  <2> QED
    BY <2>1, <2>2, <1>12, JoinFacts
<1> QED
  BY <1>8, <1>9, <1>13 DEF Script

LEMMA HeadOfStores ==
  ASSUME ScriptedAs(todo), todo # <<>>, StoreShape(todo)
  PROVE  \/ Inert(Head(todo))
         \/ /\ Kind \notin Sends /\ Head(todo) \in {SelectSm, AskSm}
            /\ Len(todo) >= 2 /\ todo[2].cmd = "CPMS=ME" /\ Inert(todo[2])
<1>1. CASE Kind \in Sends
  BY <1>1, SendInert
<1>2. CASE Kind \notin Sends
  <2>1. Head(todo) = todo[1] /\ Len(todo) \in Nat
    BY DEF ScriptedAs
  <2>2. Len(todo) >= 2 => 2 \in 2 .. Len(todo)
    BY <2>1
  <2> QED
    BY <1>2, <2>1, <2>2 DEF StoreShape
<1> QED
  BY <1>1, <1>2

\* A shape put before steps that do not look into the second store.
LEMMA StoreJoin ==
  ASSUME NEW a \in StepSet, NEW b \in StepSet, NEW rest \in Seq(InertSteps), Inert(b),
         b.cmd = "CPMS=ME"
  PROVE  /\ a \in {SelectSm, AskSm} => StoreShape(<<a, b>> \o rest)
         /\ <<a, b>> \o rest # <<>> /\ Head(<<a, b>> \o rest) = a
<1>1. rest \in Seq(StepSet) /\ \A i \in 1 .. Len(rest) : Inert(rest[i])
  BY DEF InertSteps, PlainSteps
<1>2. <<a, b>> \in Seq(StepSet) /\ Len(<<a, b>>) = 2 /\ <<a, b>>[1] = a /\ <<a, b>>[2] = b
  OBVIOUS
<1>3. PICK both \in Seq(StepSet) : both = <<a, b>>
  BY <1>2
<1>4. Len(both) = 2 /\ both[1] = a /\ both[2] = b
  BY <1>2, <1>3
<1>5. PICK all : all = both \o rest
  OBVIOUS
<1>6. /\ all \in Seq(StepSet) /\ Len(all) = 2 + Len(rest) /\ Len(rest) \in Nat
      /\ all[1] = a /\ all[2] = b /\ \A i \in 1 .. Len(rest) : all[2 + i] = rest[i]
  <2>1. all \in Seq(StepSet) /\ Len(all) = Len(both) + Len(rest)
    BY <1>1, <1>5, JoinFacts
  <2>2. \A i \in 1 .. Len(both) : all[i] = both[i]
    BY <1>1, <1>5, JoinFacts
  <2>3. \A i \in 1 .. Len(rest) : all[Len(both) + i] = rest[i]
    BY <1>1, <1>5, JoinFacts
  <2> QED
    BY <1>1, <1>4, <2>1, <2>2, <2>3
<1>7. \A i \in 2 .. Len(all) : Inert(all[i])
  <2> SUFFICES ASSUME NEW i \in 2 .. Len(all) PROVE Inert(all[i])
    OBVIOUS
  <2>1. CASE i = 2
    BY <1>6, <2>1
  <2>2. CASE i # 2
    <3>1. i - 2 \in 1 .. Len(rest) /\ 2 + (i - 2) = i
      BY <1>6, <2>2
    <3> QED
      BY <1>1, <1>6, <3>1
  <2> QED
    BY <2>1, <2>2
<1>8. all # <<>> /\ Head(all) = a /\ Len(all) >= 2
  BY <1>6
<1>9. a \in {SelectSm, AskSm} => StoreShape(all)
  BY <1>6, <1>7, <1>8 DEF StoreShape
<1> QED
  BY <1>3, <1>5, <1>8, <1>9

\* The same when the step that selects the first store again is the rest's first.
LEMMA AskJoin ==
  ASSUME NEW a \in {SelectSm, AskSm}, a \in StepSet, NEW rest \in Seq(InertSteps), rest # <<>>,
         Head(rest).cmd = "CPMS=ME"
  PROVE  /\ StoreShape(<<a>> \o rest)
         /\ <<a>> \o rest # <<>> /\ Head(<<a>> \o rest) = a
<1>1. rest \in Seq(StepSet) /\ \A i \in 1 .. Len(rest) : Inert(rest[i])
  BY DEF InertSteps, PlainSteps
<1>2. Len(rest) \in Nat \ {0} /\ Head(rest) = rest[1]
  BY <1>1, TailFacts
<1>3. PICK one \in Seq(StepSet) : one = <<a>> /\ Len(one) = 1 /\ one[1] = a
  <2>1. <<a>> \in Seq(StepSet) /\ Len(<<a>>) = 1 /\ <<a>>[1] = a
    OBVIOUS
  <2> QED
    BY <2>1
<1>4. PICK all : all = one \o rest
  OBVIOUS
<1>5. /\ all \in Seq(StepSet) /\ Len(all) = 1 + Len(rest)
      /\ all[1] = a /\ \A i \in 1 .. Len(rest) : all[1 + i] = rest[i]
  <2>1. all \in Seq(StepSet) /\ Len(all) = Len(one) + Len(rest)
    BY <1>1, <1>4, JoinFacts
  <2>2. \A i \in 1 .. Len(one) : all[i] = one[i]
    BY <1>1, <1>4, JoinFacts
  <2>3. \A i \in 1 .. Len(rest) : all[Len(one) + i] = rest[i]
    BY <1>1, <1>4, JoinFacts
  <2> QED
    BY <1>1, <1>3, <2>1, <2>2, <2>3
<1>6. ASSUME NEW i \in 2 .. Len(all) PROVE Inert(all[i])
  <2>1. i - 1 \in 1 .. Len(rest) /\ 1 + (i - 1) = i
    BY <1>2, <1>5
  <2> QED
    BY <1>1, <1>5, <2>1
<1>7. all # <<>> /\ Head(all) = a /\ Len(all) >= 2
  BY <1>2, <1>5
<1>8. 1 \in 1 .. Len(rest) /\ 1 + 1 = 2
  BY <1>2
<1>9. all[2].cmd = "CPMS=ME"
  BY <1>2, <1>5, <1>8
<1>10. StoreShape(all)
  BY <1>5, <1>6, <1>7, <1>9 DEF StoreShape
<1> QED
  BY <1>3, <1>4, <1>7, <1>10

LEMMA StoreSteps ==
  /\ SelectSm.role = "store" /\ SelectSm.cmd = "CPMS=SM" /\ SelectSm.field = "none"
  /\ AskSm.role = "may" /\ AskSm.cmd = "CPMS?" /\ AskSm.field = "smsSm"
  /\ SelectSm \in StepSet /\ AskSm \in StepSet /\ May("CPMS=ME") \in StepSet
  /\ May("CPMS=ME").cmd = "CPMS=ME" /\ Inert(May("CPMS=ME")) /\ May("CPMS=ME") \in InertSteps
<1>1. /\ SelectSm.role = "store" /\ SelectSm.cmd = "CPMS=SM" /\ SelectSm.field = "none"
      /\ AskSm.role = "may" /\ AskSm.cmd = "CPMS?" /\ AskSm.field = "smsSm"
      /\ May("CPMS=ME").cmd = "CPMS=ME"
  BY DEF SelectSm, AskSm, Ask, May, Step
<1>2. SelectSm \in StepSet /\ AskSm \in StepSet /\ May("CPMS=ME") \in StepSet
  BY PlainAnswers DEF SelectSm, AskSm, PlainSteps
<1>3. Inert(May("CPMS=ME")) /\ May("CPMS=ME") \in InertSteps
  BY InertAnswers DEF InertSteps
<1> QED
  BY <1>1, <1>2, <1>3

\* What is left after an answer has the shape, and begins in the second store only
\* where that store has been selected.
LEMMA StoreFollow ==
  ASSUME ScriptedAs(todo), todo # <<>>, StoreShape(todo), NEW good \in BOOLEAN
  PROVE  LET left == Follow(good) IN
         /\ StoreShape(left)
         /\ Kind \notin Sends /\ Inert(Head(todo)) /\ left # <<>> => Head(left).field # "smsSm"
         /\ Head(todo) = SelectSm =>
              /\ left # <<>>
              /\ IF good THEN Head(left).field = "smsSm"
                 ELSE Head(left).cmd = "CPMS=ME" /\ Head(left).field # "smsSm"
         /\ Head(todo) = AskSm =>
              left # <<>> /\ Head(left).cmd = "CPMS=ME" /\ Head(left).field # "smsSm"
<1> DEFINE step == Head(todo)
           rest == Tail(todo)
<1>0. ~Inert(SelectSm) /\ ~Inert(AskSm) /\ SelectSm # AskSm
  <2>1. ~Inert(SelectSm)
    BY StoreSteps DEF Inert
  <2>2. ~Inert(AskSm)
    BY StoreSteps DEF Inert
  <2> QED
    BY <2>1, <2>2, StoreSteps
<1>1. CASE Kind \in Sends
  <2>1. Inert(step)
    BY <1>1, SendInert
  <2> QED
    BY <1>0, <1>1, <2>1 DEF StoreShape
<1>2. CASE Kind \notin Sends
  <2>1. todo \in Seq(PlainSteps)
    BY <1>2 DEF ScriptedAs
  <2>2. /\ step = todo[1] /\ rest \in Seq(PlainSteps) /\ Len(rest) = Len(todo) - 1
        /\ Len(todo) \in Nat \ {0} /\ step \in PlainSteps
        /\ \A i \in 1 .. Len(rest) : rest[i] = todo[i + 1]
    BY <2>1, TailFacts
  <2>3. \A i \in 1 .. Len(rest) : rest[i] \in PlainSteps /\ Inert(rest[i])
    <3> SUFFICES ASSUME NEW i \in 1 .. Len(rest) PROVE rest[i] \in PlainSteps /\ Inert(rest[i])
      OBVIOUS
    <3>1. i + 1 \in 2 .. Len(todo)
      BY <2>2
    <3> QED
      BY <1>2, <2>2, <3>1 DEF StoreShape
  <2>4. rest \in Seq(InertSteps)
    <3>1. \A i \in 1 .. Len(rest) : rest[i] \in InertSteps
      BY <2>3 DEF InertSteps
    <3> QED
      BY <2>2, <3>1, Restricted
  <2>5. StoreShape(rest) /\ (rest # <<>> => Head(rest).field # "smsSm")
    <3>1. rest # <<>> => Head(rest) = rest[1]
      BY <2>2
    <3> QED
      BY <2>4, <3>1, InertShape
  <2>6. CASE Inert(step) /\ ~(good /\ step.role = "counters")
    <3>1. todo \in Seq(InertSteps)
      <4>1. \A i \in 1 .. Len(todo) : todo[i] \in InertSteps
        <5> SUFFICES ASSUME NEW i \in 1 .. Len(todo) PROVE todo[i] \in InertSteps
          OBVIOUS
        <5>1. CASE i = 1
          BY <2>2, <2>6, <5>1 DEF InertSteps
        <5>2. CASE i # 1
          <6>1. i \in 2 .. Len(todo)
            BY <2>2, <5>2
          <6> QED
            BY <1>2, <2>1, <6>1 DEF StoreShape, InertSteps
        <5> QED
          BY <5>1, <5>2
      <4> QED
        BY <2>1, <4>1, Restricted
    <3>2. Follow(good) \in Seq(InertSteps)
      BY <2>6, <3>1, InertFollow
    <3>3. PICK left \in Seq(InertSteps) : left = Follow(good)
      BY <3>2
    <3>4. left # <<>> => Head(left) = left[1]
      OBVIOUS
    <3>5. StoreShape(left) /\ (left # <<>> => Head(left).field # "smsSm")
      BY <3>4, InertShape
    <3> QED
      BY <1>0, <2>6, <3>3, <3>5
  <2>7. CASE Inert(step) /\ good /\ step.role = "counters"
    <3>1. Follow(good) = <<SelectSm, May("CPMS=ME")>> \o rest
      BY <2>7 DEF Follow, SelectSm
    <3>2. StoreShape(<<SelectSm, May("CPMS=ME")>> \o rest)
          /\ Head(<<SelectSm, May("CPMS=ME")>> \o rest) = SelectSm
      BY <2>4, StoreSteps, StoreJoin
    <3> QED
      BY <1>0, <2>7, <3>1, <3>2, StoreSteps
  <2>8. /\ ~Inert(step) => Len(todo) >= 2 /\ todo[2].cmd = "CPMS=ME" /\ Inert(todo[2])
        /\ ~Inert(step) => step \in {SelectSm, AskSm}
    BY HeadOfStores
  <2>9. ~Inert(step) =>
          rest # <<>> /\ Head(rest).cmd = "CPMS=ME" /\ Head(rest).field # "smsSm"
    <3>1. ~Inert(step) => 1 \in 1 .. Len(rest) /\ rest # <<>> /\ Head(rest) = rest[1]
      <4>1. ~Inert(step) => Len(rest) # 0
        BY <2>2, <2>8
      <4>2. ASSUME Len(rest) # 0
            PROVE  1 \in 1 .. Len(rest) /\ rest # <<>> /\ Head(rest) = rest[1]
        <5>1. rest # <<>>
          BY <4>2, EmptyFacts, Zenon
        <5> QED
          BY <2>4, <5>1, TailFacts
      <4> QED
        BY <4>1, <4>2
    <3>2. ~Inert(step) => rest[1] = todo[2]
      BY <2>2, <3>1
    <3> QED
      BY <2>5, <2>8, <3>1, <3>2
  <2>10. CASE step = SelectSm /\ good
    <3>1. rest # <<>> /\ Head(rest).cmd = "CPMS=ME"
      BY <1>0, <2>9, <2>10
    <3>2. Follow(good) = <<AskSm>> \o rest
      BY <2>10, StoreSteps DEF Follow, AskSm
    <3>3. /\ StoreShape(<<AskSm>> \o rest) /\ Head(<<AskSm>> \o rest) = AskSm
          /\ <<AskSm>> \o rest # <<>>
      <4>1. PICK more \in Seq(InertSteps) : more = rest
        BY <2>4
      <4>2. PICK a \in {SelectSm, AskSm} : a = AskSm /\ a \in StepSet
        BY StoreSteps
      <4>3. more # <<>> /\ Head(more).cmd = "CPMS=ME"
        BY <3>1, <4>1
      <4>4. /\ StoreShape(<<a>> \o more) /\ <<a>> \o more # <<>>
            /\ Head(<<a>> \o more) = a
        BY <4>2, <4>3, AskJoin
      <4> QED
        BY <4>1, <4>2, <4>4, Zenon
    <3>4. PICK left : left = Follow(good)
      OBVIOUS
    <3>5. StoreShape(left) /\ left # <<>> /\ Head(left) = AskSm
      BY <3>2, <3>3, <3>4, Zenon
    <3>6. Head(left).field = "smsSm"
      BY <3>5, StoreSteps
    <3>7. ~Inert(Head(todo)) /\ Head(todo) # AskSm
      BY <1>0, <2>10, StoreSteps
    <3> QED
      BY <2>10, <3>4, <3>5, <3>6, <3>7, Zenon
  <2>11. CASE step = SelectSm /\ ~good
    <3>1. Follow(good) = rest
      BY <2>11, StoreSteps DEF Follow
    <3> QED
      BY <1>0, <2>5, <2>9, <2>11, <3>1
  <2>12. CASE step = AskSm
    <3>1. Follow(good) = rest
      BY <2>12, StoreSteps DEF Follow
    <3> QED
      BY <1>0, <2>5, <2>9, <2>12, <3>1
  <2> QED
    BY <2>6, <2>7, <2>8, <2>10, <2>11, <2>12
<1> QED
  BY <1>1, <1>2

-----------------------------------------------------------------------------

LEMMA TakenFits ==
  ASSUME NEW field
  PROVE  \A f \in Taken(field) :
           /\ f.field = field /\ f.of = got.of /\ f.v = got.v
           /\ f.field \in {"cgatt", "fw"} \/ f.of \in Readable[f.field]
BY DEF Taken, Parsed

LEMMA FitsInit == Init => Fits
BY DEF Init, Fits, GotInReply, Fitting

\* A line is kept for a reply only, and a field taken only from a line it accepts.
LEMMA FitsStep == Typed /\ Fits /\ [Next]_vars => Fits'
<1> SUFFICES ASSUME Typed, Fits, [Next]_vars PROVE Fits'
  OBVIOUS
<1>1. CASE got' = got /\ fields' = fields /\ phase' = phase
  BY <1>1 DEF Fits, GotInReply, Fitting
<1>2. CASE got' = NoLine /\ fields' \subseteq fields
  BY <1>2 DEF Fits, GotInReply, Fitting
<1>3. CASE phase' = "reply" /\ fields' = fields
  BY <1>3 DEF Fits, GotInReply, Fitting
<1>4. CASE Succeeded
  <2>1. got' = NoLine /\ fields' = fields \cup Taken(Head(todo).field)
    BY <1>4 DEF Succeeded, Proceed
  <2>2. PICK field : field = Head(todo).field
    OBVIOUS
  <2>3. \A f \in Taken(field) : f.field \in {"cgatt", "fw"} \/ f.of \in Readable[f.field]
    BY TakenFits
  <2> QED
    BY <2>1, <2>2, <2>3 DEF Fits, GotInReply, Fitting
<1>5. CASE Failed
  BY <1>2, <1>5 DEF Failed, Proceed
<1>6. phase # "reply" => got = NoLine
  BY DEF Fits, GotInReply
<1>7. CASE (\E kind \in Kinds : Start(kind)) \/ RestartGnssTask \/ UNCHANGED vars
  BY <1>1, <1>2, <1>6, <1>7 DEF Start, RestartGnssTask, vars, clientVars
<1>8. CASE Send
  BY <1>2, <1>6, <1>8 DEF Send
<1>9. CASE SendFails
  BY <1>2, <1>3, <1>9 DEF SendFails, Proceed
<1>10. CASE Reply
  BY <1>3, <1>4, <1>5, <1>10 DEF Reply
<1>11. CASE AwaitPrompt \/ AwaitConfirmation
  BY <1>1, <1>2, <1>4, <1>5, <1>6, <1>11 DEF AwaitPrompt, AwaitConfirmation, clientVars
<1>12. CASE BodyFails \/ TimesOut \/ GivesUp
  BY <1>5, <1>12 DEF BodyFails, TimesOut, GivesUp
<1>13. CASE ModemAnswers \/ ModemRefuses \/ Urc
  BY <1>1, <1>13 DEF ModemAnswers, ModemRefuses, Urc, clientVars
<1> QED
  BY <1>7, <1>8, <1>9, <1>10, <1>11, <1>12, <1>13 DEF Next, Client

\* While no answer is given up on there is one answer about, and none between steps.
LEMMA AnswerInTime ==
  ASSUME Typed, Credited, used.late = 0
  PROVE  /\ Cardinality(Finals) \in Nat /\ Pending \in Nat
         /\ Finals = {} <=> Cardinality(Finals) = 0
         /\ ~Waiting => Finals = {} /\ Pending = 0
         /\ Finals # {} => Pending = 0
         /\ Finals # {} => Cardinality(Finals) = 1
         /\ Pending # 0 => Finals = {} /\ Pending = 1
<1>1. LinesTyped
  BY DEF Typed
<1>2. Cardinality(Finals) \in Nat /\ Pending \in Nat
  BY PendingTyped DEF Typed
<1>3. Cardinality(Finals) + Pending <= (IF Waiting THEN 1 ELSE 0)
  BY <1>2 DEF Credited, Credit
<1>4. Finals = {} <=> Cardinality(Finals) = 0
  BY <1>1, FinalsCounted
<1> QED
  BY <1>2, <1>3, <1>4

LEMMA OneAnswer ==
  ASSUME Typed, Credited, Exact
  PROVE  /\ Cardinality(Finals) \in Nat /\ Pending \in Nat
         /\ Finals = {} <=> Cardinality(Finals) = 0
         /\ ~Waiting => Finals = {} /\ Pending = 0
         /\ Finals # {} => Pending = 0
         /\ Finals # {} => Cardinality(Finals) = 1
         /\ Pending # 0 => Finals = {} /\ Pending = 1
BY AnswerInTime DEF Exact

LEMMA EndInTime ==
  ASSUME Typed, Typed', Credited, used.late = 0, line # <<>>, line' = Tail(line),
         Head(line).t \in {"ok", "error", "prompt"}
  PROVE  Finals' = {} /\ Pending = 0 /\ Head(line) = line[1] /\ 1 \in Finals
<1>1. LinesTyped /\ LinesTyped'
  BY DEF Typed
<1>2. Head(line) = line[1] /\ 1 \in 1 .. Len(line)
  BY <1>1 DEF LinesTyped
<1>3. 1 \in Finals
  BY <1>2 DEF Finals
<1>4. Cardinality(Finals) = 1 /\ Pending = 0
  BY <1>3, AnswerInTime
<1>5. Cardinality(Finals') <= Cardinality(Finals) - 1
  BY <1>1, ReadCount
<1>6. Cardinality(Finals') \in Nat /\ (Finals' = {} <=> Cardinality(Finals') = 0)
  BY <1>1, FinalsNext
<1>7. \A c \in Nat : c <= 1 - 1 => c = 0
  OBVIOUS
<1> QED
  BY <1>2, <1>3, <1>4, <1>5, <1>6, <1>7

LEMMA FinalRead ==
  ASSUME Typed, Typed', Credited, Exact, line # <<>>, line' = Tail(line),
         Head(line).t \in {"ok", "error", "prompt"}
  PROVE  Finals' = {} /\ Pending = 0 /\ Head(line) = line[1] /\ 1 \in Finals
BY EndInTime DEF Exact

\* Between a final line and the next command nothing of an answer is about.
LEMMA NothingCounted ==
  ASSUME LinesTyped, LinesTyped', StoreLines, Finals' = {}, Purge, got' = NoLine
  PROVE  StoreLines'
<1>1. PICK n \in 0 .. Len(line) :
        /\ Len(line') = Len(line) - n /\ Len(line) \in Nat /\ Len(line') \in Nat
        /\ \A i \in 1 .. Len(line') : i + n \in 1 .. Len(line) /\ line'[i] = line[i + n]
  BY PurgeFacts
<1>2. ASSUME NEW i \in 1 .. Len(line'), line'[i].t \notin {"ok", "error"}, line'[i].of = "CPMS?"
      PROVE  FALSE
  <2>1. i + n \in 1 .. Len(line) /\ line[i + n].t \notin {"ok", "error"} /\ line[i + n].of = "CPMS?"
    BY <1>1, <1>2
  <2>2. PICK j \in i + n + 1 .. Len(line) : line[j].t \in {"ok", "error", "prompt"}
    BY <2>1 DEF StoreLines
  <2>3. j - n \in 1 .. Len(line') /\ (j - n) + n = j
    BY <1>1, <2>2
  <2>4. j - n \in Finals'
    BY <1>1, <2>2, <2>3 DEF Finals
  <2> QED
    BY <2>4
<1>3. got'.of # "CPMS?"
  BY DEF NoLine, Line
<1> QED
  BY <1>2, <1>3 DEF StoreLines

\* A reply or a submission ends: the dialog goes on, or ends.
LEMMA EndTurns ==
  ASSUME Typed, Typed', Prompted, Credited, Fits, Exact, Turns, NEW good \in BOOLEAN,
         Waiting, line # <<>>, line' = Tail(line), Head(line).t \in {"ok", "error"},
         Proceed(Follow(good), Decides(good)),
         fields' \in {fields, fields \cup Taken(Head(todo).field)},
         dev' = dev, tx' = tx
  PROVE  Turns'
<1>1. ClientTyped /\ ClientTyped' /\ LinesTyped /\ LinesTyped' /\ WritesTyped
  BY DEF Typed
<1>2. todo # <<>> /\ ScriptedAs(todo) /\ phase \in {"reply", "prompt", "confirm"}
  BY <1>1, BusyTodo DEF Waiting
<1>3. StoreShape(todo) /\ TurnTaken /\ StoreLines /\ StoreSelected /\ StoresFit
  BY DEF Turns
<1>4. Finals' = {} /\ Pending = 0 /\ Head(line) = line[1] /\ 1 \in Finals
  BY FinalRead
<1>5. /\ kinds' = kinds /\ todo' = Follow(good) /\ got' = NoLine
      /\ phase' = (IF todo' = <<>> THEN "idle" ELSE "send")
  BY DEF Proceed
<1>6. NoBody
  BY <1>1, BodyMeansReportFirst
<1>7. dev.input = NoInput
  <2>1. CASE phase = "reply"
    BY <1>3, <2>1 DEF TurnTaken
  <2>2. CASE phase = "confirm"
    BY <1>6, <2>2 DEF Prompted, TextGiven
  <2>3. CASE phase = "prompt" /\ dev.input # NoInput
    <3>1. 1 \in 1 .. Len(line) /\ line[1].t \notin {"data", "prompt"} /\ Len(line) \in Nat
      BY <1>1, <1>4 DEF Finals, LinesTyped
    <3>2. PICK j \in 1 + 1 .. Len(line) : line[j].t = "prompt"
      BY <2>3, <3>1 DEF Prompted, QuietInput
    <3>3. \A n \in Nat : \A k \in 1 + 1 .. n : k - 1 \in 1 .. n - 1 /\ (k - 1) + 1 = k
      OBVIOUS
    <3>4. j - 1 \in 1 .. Len(line') /\ line'[j - 1] = line[j]
      BY <1>1, <3>1, <3>3, TailFacts DEF LinesTyped
    <3>5. j - 1 \in Finals'
      BY <3>2, <3>4 DEF Finals
    <3> QED
      BY <1>4, <3>5
  <2> QED
    BY <1>2, <2>1, <2>2, <2>3
<1>8. tx = <<>>
  <2>1. Len(tx) = 0
    BY <1>4, <1>7 DEF Pending
  <2> QED
    BY <1>1, <2>1 DEF WritesTyped
<1>9. PICK left : left = Follow(good)
  OBVIOUS
<1>10. /\ StoreShape(left)
       /\ Kind \notin Sends /\ Inert(Head(todo)) /\ left # <<>> => Head(left).field # "smsSm"
       /\ Head(todo) = SelectSm =>
            /\ left # <<>>
            /\ IF good THEN Head(left).field = "smsSm"
               ELSE Head(left).cmd = "CPMS=ME" /\ Head(left).field # "smsSm"
       /\ Head(todo) = AskSm =>
            left # <<>> /\ Head(left).cmd = "CPMS=ME" /\ Head(left).field # "smsSm"
  BY <1>2, <1>3, <1>9, StoreFollow
<1>11. Inert(Head(todo)) \/ (Kind \notin Sends /\ Head(todo) \in {SelectSm, AskSm})
  BY <1>2, <1>3, HeadOfStores
<1>12. StoreShape(todo)'
  BY <1>5, <1>9, <1>10 DEF StoreShape, Kind
<1>13. TurnTaken'
  BY <1>4, <1>5, <1>7 DEF TurnTaken, Waiting
<1>14. StoreLines'
  <2>1. Purge
    BY <1>1, ReadPurges
  <2> QED
    BY <1>1, <1>3, <1>4, <1>5, <2>1, NothingCounted
<1>15. Head(todo).cmd = "CPMS=SM" => phase = "reply" /\ Head(todo) = SelectSm
  <2>1. Head(todo).cmd = "CPMS=SM" => Head(todo) = SelectSm
    BY <1>11, StoreSteps DEF Inert
  <2>2. Head(todo) = SelectSm => phase = "reply"
    BY <1>1, <1>2, StoreSteps DEF ClientTyped
  <2> QED
    BY <2>1, <2>2
<1>16. Head(todo).field = "smsSm" => Head(todo) = AskSm
  BY <1>11, StoreSteps DEF Inert
<1>17. StoreSelected'
  <2>1. dev'.store = dev.store /\ todo' = left
    BY <1>5, <1>9
  <2>2. ~SelectedSm'
    BY <1>5 DEF SelectedSm
  <2>3. ASSUME left # <<>>, Head(left).field = "smsSm" PROVE dev.store = "SM"
    <3>1. CASE Kind \in Sends
      <4>1. Kind' = Kind /\ ScriptedAs(todo)' /\ todo' # <<>>
        BY <1>1, <1>5, <2>1, <2>3 DEF ClientTyped, Kind
      <4>2. Head(todo').field = "none"
        BY <3>1, <4>1, SendInertNext
      <4> QED
        BY <2>1, <2>3, <4>2
    <3>2. CASE Head(todo) = SelectSm
      <4>1. SelectedSm
        BY <1>2, <1>8, <1>15, <3>2, StoreSteps DEF SelectedSm
      <4> QED
        BY <1>3, <4>1 DEF StoreSelected
    <3> QED
      BY <1>10, <1>11, <2>3, <3>1, <3>2
  <2>4. ASSUME dev.store = "SM"
        PROVE  left # <<>> /\ (Head(left).field = "smsSm" \/ Head(left).cmd = "CPMS=ME")
    <3>1. CASE SelectedSm
      <4>1. Head(todo) = SelectSm
        BY <1>15, <3>1 DEF SelectedSm
      <4> QED
        BY <1>10, <4>1
    <3>2. CASE ~SelectedSm
      <4>1. Head(todo).field = "smsSm"
        BY <1>2, <1>3, <1>8, <2>4, <3>2 DEF StoreSelected
      <4> QED
        BY <1>10, <1>16, <4>1
    <3> QED
      BY <3>1, <3>2
  <2>5. left # <<>> => phase' = "send"
    BY <1>5, <2>1
  <2> QED
    BY <2>1, <2>2, <2>3, <2>4, <2>5 DEF StoreSelected
<1>18. StoresFit'
  <2>1. PICK field : field = Head(todo).field
    OBVIOUS
  <2>2. ASSUME NEW f \in Taken(field), f.field \in {"smsMe", "smsSm"}
        PROVE  f.v = (f.field = "smsSm")
    <3>1. f.field = field /\ f.of = got.of /\ f.v = got.v
          /\ (f.field \in {"cgatt", "fw"} \/ f.of \in Readable[f.field])
      BY <2>2, TakenFits
    <3>2. got.of = "CPMS?"
      BY <2>2, <3>1 DEF Readable
    <3>3. got.v = (Head(todo).field = "smsSm")
      BY <1>3, <3>2 DEF StoreLines, AsksStore
    <3> QED
      BY <2>1, <3>1, <3>3
  <2> QED
    BY <1>3, <2>1, <2>2 DEF StoresFit
<1> QED
  BY <1>12, <1>13, <1>14, <1>17, <1>18 DEF Turns

\* The steps of a submission have nothing to do with the stores.
LEMMA SubmitTurns ==
  ASSUME ClientTyped, phase \in {"prompt", "confirm"}, StoreLines, StoreSelected
  PROVE  /\ dev.store # "SM" /\ Head(todo).field # "smsSm" /\ Head(todo).cmd = "CMGS"
         /\ \A i \in 1 .. Len(line) : line[i].t \notin {"ok", "error"} => line[i].of # "CPMS?"
         /\ got.of # "CPMS?"
<1>1. todo # <<>> /\ ScriptedAs(todo) /\ Head(todo).role = "submit"
  BY BusyTodo DEF ClientTyped
<1>2. Kind \in Sends /\ Head(todo).cmd = "CMGS"
  BY <1>1, SubmitPart
<1>3. Head(todo).field = "none"
  BY <1>1, <1>2, SendInert
<1>4. dev.store # "SM"
  BY <1>2, <1>3 DEF StoreSelected, SelectedSm
<1> QED
  BY <1>2, <1>3, <1>4 DEF StoreLines, AsksStore

\* A line is read that ends nothing.
LEMMA WaitTurns ==
  ASSUME Typed, Typed', Fits, Exact, Turns, Waiting, line # <<>>, line' = Tail(line),
         Head(line).t \notin {"ok", "error", "prompt"},
         kinds' = kinds, todo' = todo, phase' = phase, fields' = fields, dev' = dev, tx' = tx,
         got' = got \/ (got' = Head(line) /\ phase = "reply")
  PROVE  Turns'
<1>1. ClientTyped /\ LinesTyped /\ WritesTyped
  BY DEF Typed
<1>2. StoreShape(todo) /\ TurnTaken /\ StoreLines /\ StoreSelected /\ StoresFit
  BY DEF Turns
<1>3. /\ Len(line') = Len(line) - 1 /\ Len(line) \in Nat \ {0} /\ Head(line) = line[1]
      /\ Len(line') \in Nat /\ \A i \in 1 .. Len(line') : line'[i] = line[i + 1]
  <2>1. /\ Len(line') = Len(line) - 1 /\ Len(line) \in Nat \ {0} /\ Head(line) = line[1]
        /\ \A i \in 1 .. Len(line') : line'[i] = line[i + 1]
    BY <1>1, TailFacts DEF LinesTyped
  <2> QED
    BY <2>1
<1>4. \A i \in 2 .. Len(line) : i - 1 \in 1 .. Len(line') /\ (i - 1) + 1 = i
  BY <1>3
<1>5. \A i \in 1 .. Len(line') : i + 1 \in 2 .. Len(line) /\ i + 1 \in 1 .. Len(line)
  BY <1>3
<1>6. ASSUME NEW i \in Finals PROVE i \in 2 .. Len(line) /\ i - 1 \in Finals'
  <2>1. i \in 1 .. Len(line) /\ line[i].t \in {"ok", "error", "prompt"} /\ i # 1
    BY <1>3 DEF Finals
  <2>2. i \in 2 .. Len(line)
    BY <1>3, <2>1
  <2> QED
    BY <1>3, <1>4, <2>1, <2>2 DEF Finals
<1>7. \A i \in Finals' : i + 1 \in Finals /\ line'[i] = line[i + 1]
  BY <1>3, <1>5 DEF Finals
<1>8. StoreShape(todo)'
  BY <1>2 DEF StoreShape, Kind
<1>9. TurnTaken'
  <2>1. ~NoPrompt => ~NoPrompt'
    <3> SUFFICES ASSUME NEW i \in 1 .. Len(line), line[i].t = "prompt" PROVE ~NoPrompt'
      BY DEF NoPrompt
    <3>1. i \in Finals
      BY DEF Finals
    <3>2. i \in 2 .. Len(line) /\ i - 1 \in 1 .. Len(line') /\ line'[i - 1] = line[i]
      BY <1>3, <1>4, <1>6, <3>1
    <3> QED
      BY <3>2 DEF NoPrompt
  <2>2. Pending' = Pending
    BY DEF Pending, NoBody
  <2>3. Finals # {} => Finals' # {}
    BY <1>6
  <2> QED
    BY <1>2, <1>7, <2>1, <2>2, <2>3 DEF TurnTaken, Waiting
<1>10. StoreLines'
  <2>1. ASSUME NEW i \in 1 .. Len(line'), line'[i].t \notin {"ok", "error"}, line'[i].of = "CPMS?"
        PROVE  /\ AsksStore(line[i + 1].v)
               /\ \E j \in i + 1 .. Len(line') : line'[j].t \in {"ok", "error", "prompt"}
    <3>1. i + 1 \in 1 .. Len(line) /\ line[i + 1] = line'[i]
      BY <1>3, <1>5
    <3>2. AsksStore(line[i + 1].v)
          /\ \E j \in (i + 1) + 1 .. Len(line) : line[j].t \in {"ok", "error", "prompt"}
      BY <1>2, <2>1, <3>1 DEF StoreLines
    <3>3. PICK j \in (i + 1) + 1 .. Len(line) : line[j].t \in {"ok", "error", "prompt"}
      BY <3>2
    <3>4. j - 1 \in i + 1 .. Len(line') /\ j - 1 \in 1 .. Len(line') /\ (j - 1) + 1 = j
      BY <1>3, <3>3
    <3> QED
      BY <1>3, <3>2, <3>3, <3>4
  <2>2. got'.of = "CPMS?" => AsksStore(got'.v)
    <3>1. 1 \in 1 .. Len(line)
      BY <1>3
    <3> QED
      BY <1>2, <1>3, <3>1 DEF StoreLines
  <2> QED
    BY <1>3, <1>5, <2>1, <2>2 DEF StoreLines, AsksStore
<1>11. StoreSelected' /\ StoresFit'
  BY <1>2 DEF StoreSelected, SelectedSm, StoresFit
<1> QED
  BY <1>8, <1>9, <1>10, <1>11 DEF Turns

\* The prompt is read, and the text written.
LEMMA PromptReadTurns ==
  ASSUME Typed, Typed', Prompted, Credited, Fits, Exact, Turns, AwaitPrompt,
         Head(line).t = "prompt"
  PROVE  Turns'
<1>1. ClientTyped /\ LinesTyped /\ LinesTyped' /\ WritesTyped
  BY DEF Typed
<1>2. StoreShape(todo) /\ TurnTaken /\ StoreLines /\ StoreSelected /\ StoresFit
  BY DEF Turns
<1>3. /\ phase = "prompt" /\ line # <<>> /\ line' = Tail(line) /\ phase' = "confirm"
      /\ tx' = Append(tx, Written("body", Msg, Head(todo).part))
      /\ kinds' = kinds /\ todo' = todo /\ got' = got /\ fields' = fields /\ dev' = dev
  BY DEF AwaitPrompt, modemVars
<1>4. Finals' = {} /\ Head(line) = line[1] /\ 1 \in Finals
  BY <1>3, FinalRead
<1>5. dev.input # NoInput
  BY <1>4 DEF Finals, Prompted, PromptsMatch, NoPrompt
<1>6. ~NoBody'
  <2>1. todo # <<>>
    BY <1>1, <1>3, BusyTodo
  <2>2. PICK w \in WriteSet : w = Written("body", Msg, Head(todo).part) /\ w.cmd = "body"
    BY <1>1, <2>1, WrittenFacts
  <2> QED
    BY <1>1, <1>3, <2>2, TxGrows
<1>7. /\ dev.store # "SM" /\ Head(todo).field # "smsSm" /\ Head(todo).cmd = "CMGS"
      /\ \A i \in 1 .. Len(line) : line[i].t \notin {"ok", "error"} => line[i].of # "CPMS?"
      /\ got.of # "CPMS?"
  BY <1>1, <1>2, <1>3, SubmitTurns
<1>8. StoreShape(todo)'
  BY <1>2, <1>3 DEF StoreShape, Kind
<1>9. TurnTaken'
  <2>1. Pending' # 0
    BY <1>3, <1>5, <1>6 DEF Pending
  <2> QED
    BY <1>3, <1>4, <2>1 DEF TurnTaken
<1>10. StoreLines'
  <2>1. PICK n \in 0 .. Len(line) :
          \A i \in 1 .. Len(line') : i + n \in 1 .. Len(line) /\ line'[i] = line[i + n]
    BY <1>1, <1>3, ReadPurges, PurgeFacts
  <2>2. \A i \in 1 .. Len(line') : line'[i].t \notin {"ok", "error"} => line'[i].of # "CPMS?"
    BY <1>7, <2>1
  <2> QED
    BY <1>3, <1>7, <2>2 DEF StoreLines
<1>11. StoreSelected' /\ StoresFit'
  BY <1>2, <1>3, <1>7 DEF StoreSelected, SelectedSm, StoresFit
<1> QED
  BY <1>8, <1>9, <1>10, <1>11 DEF Turns

\* A command is written.
LEMMA SendTurns ==
  ASSUME Typed, Typed', Credited, Fits, Exact, Turns, Send
  PROVE  Turns'
<1>1. ClientTyped /\ LinesTyped /\ LinesTyped' /\ WritesTyped
  BY DEF Typed
<1>2. StoreShape(todo) /\ TurnTaken /\ StoreLines /\ StoreSelected /\ StoresFit
  BY DEF Turns
<1>3. /\ phase = "send" /\ Purge
      /\ tx' = Append(tx, Written(Head(todo).cmd, Msg, Head(todo).part))
      /\ phase' \in {"prompt", "reply"}
      /\ kinds' = kinds /\ todo' = todo /\ got' = got /\ fields' = fields /\ dev' = dev
  BY DEF Send, modemVars
<1>4. Finals = {} /\ Pending = 0
  BY <1>3, OneAnswer DEF Waiting
<1>5. dev.input = NoInput
  BY <1>2, <1>3 DEF TurnTaken
<1>6. Len(tx) = 0
  BY <1>4, <1>5 DEF Pending
<1>7. todo # <<>> /\ Head(todo).cmd \in Commands
  BY <1>1, <1>3, BusyTodo, SubmitPart
<1>8. PICK w \in WriteSet : w = Written(Head(todo).cmd, Msg, Head(todo).part)
                            /\ w.cmd = Head(todo).cmd
  BY <1>1, <1>7, WrittenFacts
<1>9. Len(tx') = 1 /\ tx' # <<>> /\ \A k \in 1 .. Len(tx') : tx'[k].cmd = Head(todo).cmd
  BY <1>1, <1>3, <1>6, <1>8, TxGrows
<1>10. PICK n \in 0 .. Len(line) :
         \A i \in 1 .. Len(line') : i + n \in 1 .. Len(line) /\ line'[i] = line[i + n]
  BY <1>1, <1>3, PurgeFacts
<1>11. Finals' = {}
  BY <1>4, <1>10 DEF Finals
<1>12. StoreShape(todo)'
  BY <1>2, <1>3 DEF StoreShape, Kind
<1>13. TurnTaken'
  <2>1. Pending' # 0
    BY <1>3, <1>5, <1>9 DEF Pending
  <2> QED
    BY <1>3, <1>5, <1>9, <1>11, <2>1 DEF TurnTaken
<1>14. StoreLines'
  <2>1. \A i \in 1 .. Len(line) : line[i].t \notin {"ok", "error"} => line[i].of # "CPMS?"
    BY <1>2, <1>3 DEF StoreLines, AsksStore
  <2>2. \A i \in 1 .. Len(line') : line'[i].t \notin {"ok", "error"} => line'[i].of # "CPMS?"
    BY <1>10, <2>1
  <2>3. got'.of # "CPMS?"
    BY <1>2, <1>3 DEF StoreLines, AsksStore
  <2> QED
    BY <2>2, <2>3 DEF StoreLines
<1>15. StoreSelected' /\ StoresFit'
  <2>1. ~SelectedSm /\ ~SelectedSm'
    BY <1>3, <1>9 DEF SelectedSm
  <2> QED
    BY <1>2, <1>3, <1>9, <2>1 DEF StoreSelected, StoresFit
<1> QED
  BY <1>12, <1>13, <1>14, <1>15 DEF Turns

\* A dialog starts.
LEMMA StartTurns ==
  ASSUME Typed, Typed', Credited, Fits, Exact, Turns, NEW kind \in Kinds, Start(kind)
  PROVE  Turns'
<1>1. ClientTyped /\ ClientTyped' /\ LinesTyped
  BY DEF Typed
<1>2. StoreShape(todo) /\ TurnTaken /\ StoreLines /\ StoreSelected /\ StoresFit
  BY DEF Turns
<1>3. /\ phase = "idle" /\ phase' = "send" /\ todo' = Script(kind) /\ fields' = {}
      /\ kinds' = Append(kinds, kind) /\ got' = got /\ tx' = tx /\ line' = line /\ dev' = dev
  BY DEF Start, modemVars
<1>4. Finals = {} /\ todo = <<>>
  BY <1>1, <1>3, OneAnswer DEF Waiting, ClientTyped
<1>5. Kind' = kind
  <2>1. kinds \in Seq(Kinds)
    BY <1>1 DEF ClientTyped
  <2>2. Len(kinds') = Len(kinds) + 1 /\ kinds'[Len(kinds) + 1] = kind
    BY <1>3, <2>1, AppendFacts
  <2> QED
    BY <2>2 DEF Kind, Last
<1>6. todo' # <<>> /\ ScriptedAs(todo)'
  BY <1>1, <1>3 DEF ClientTyped
<1>7. StoreShape(todo)' /\ Head(todo').field # "smsSm"
  <2>1. CASE kind \in Sends
    <3>1. StoreShape(todo)'
      BY <1>5, <2>1 DEF StoreShape
    <3>2. Head(todo').field = "none"
      BY <1>5, <1>6, <2>1, SendInertNext
    <3> QED
      BY <3>1, <3>2
  <2>2. CASE kind \notin Sends
    <3>1. kind \in {"init", "poll", "gnss"}
      BY <2>2, AtDialogAssumption DEF Sends
    <3>2. PICK left \in Seq(InertSteps) : left = Script(kind)
      BY <3>1, InertScripts
    <3>3. \A i \in 1 .. Len(left) : Inert(left[i])
      BY DEF InertSteps
    <3>4. left # <<>> => Head(left) = left[1]
      OBVIOUS
    <3>5. left # <<>> => left[1].field # "smsSm"
      BY InertShape
    <3>6. \A i \in 2 .. Len(left) : i \in 1 .. Len(left)
      OBVIOUS
    <3>7. left # <<>> => 1 \in 1 .. Len(left)
      OBVIOUS
    <3> QED
      BY <1>3, <1>6, <3>2, <3>3, <3>4, <3>5, <3>6, <3>7 DEF StoreShape
  <2> QED
    BY <2>1, <2>2
<1>8. TurnTaken'
  <2>1. Finals' = {}
    BY <1>3, <1>4 DEF Finals
  <2> QED
    BY <1>2, <1>3, <2>1 DEF TurnTaken, Waiting
<1>9. StoreLines'
  BY <1>2, <1>3 DEF StoreLines, AsksStore
<1>10. StoreSelected' /\ StoresFit'
  <2>1. dev.store # "SM"
    BY <1>2, <1>4 DEF StoreSelected, SelectedSm
  <2> QED
    BY <1>3, <1>7, <2>1 DEF StoreSelected, SelectedSm, StoresFit
<1> QED
  BY <1>7, <1>8, <1>9, <1>10 DEF Turns

\* The client does not wait in vain.
LEMMA NeverSilent ==
  ASSUME Typed, Exact, Turns, Waiting
  PROVE  ~Silent
<1> SUFFICES ASSUME Silent PROVE FALSE
  OBVIOUS
<1>1. Finals = {}
  BY DEF Silent, Finals
<1>2. Pending # 0
  BY <1>1 DEF Turns, TurnTaken
<1>3. tx # <<>> /\ dev.input # NoInput => NoBody
  BY DEF Silent, NoBody
<1>4. tx = <<>> => Len(tx) = 0 /\ NoBody
  BY DEF NoBody
<1> QED
  BY <1>2, <1>3, <1>4 DEF Silent, Pending

\* What an answer consists of.
LEMMA AnswerParts ==
  ASSUME NEW cmd \in Commands, dev \in DevSet, NEW answer \in Answers(cmd)
  PROVE  /\ answer \in Seq(LineSet) /\ Len(answer) \in 1 .. 2
         /\ answer[Len(answer)].t = "ok"
         /\ \A i \in 1 .. Len(answer) :
              i = Len(answer)
              \/ (answer[i].t = "data" /\ answer[i].of = cmd /\ answer[i].v \in Says(cmd))
<1>1. answer \in Seq(LineSet)
  BY AnswersTyped
<1>2. cmd \in Names
  BY DEF Names
<1>3. OK(cmd).t = "ok"
  BY DEF OK, Line
<1>4. CASE cmd \in Queries
  <2>1. PICK v \in Says(cmd) : answer = <<Line("data", cmd, v), OK(cmd)>>
    BY <1>4 DEF Answers
  <2>2. v \in BOOLEAN
    BY DEF Says
  <2>3. Line("data", cmd, v).t = "data" /\ Line("data", cmd, v).of = cmd
        /\ Line("data", cmd, v).v = v
    BY <1>2, <2>2, OneLineTyped
  <2>4. Len(answer) = 2 /\ answer[1] = Line("data", cmd, v) /\ answer[2] = OK(cmd)
    BY <2>1
  <2>5. \A i \in 1 .. 2 : i = 1 \/ i = 2
    OBVIOUS
  <2> QED
    BY <1>1, <1>3, <2>3, <2>4, <2>5
<1>5. CASE cmd \notin Queries
  <2>1. Len(answer) = 1 /\ answer[1] = OK(cmd)
    BY <1>5 DEF Answers
  <2>2. \A i \in 1 .. 1 : i = 1
    OBVIOUS
  <2> QED
    BY <1>1, <1>3, <2>1, <2>2
<1> QED
  BY <1>4, <1>5

\* An answer comes after lines that end nothing.
LEMMA AnswerTurns ==
  ASSUME LinesTyped, Finals = {}, NEW more \in Seq(LineSet), Len(more) # 0,
         \A i \in 1 .. Len(more) : i = Len(more) \/ more[i].t \notin {"ok", "error", "prompt"},
         more[Len(more)].t \in {"ok", "error", "prompt"}, line' = line \o more
  PROVE  /\ Len(line') \in Finals' /\ line'[Len(line')] = more[Len(more)]
         /\ \A i \in Finals' : i = Len(line')
         /\ \A i \in 1 .. Len(line') :
              \/ i \in 1 .. Len(line) /\ line'[i] = line[i]
              \/ i = Len(line')
              \/ i + 1 \in 1 .. Len(line')
                 /\ \E k \in 1 .. Len(more) : k # Len(more) /\ line'[i] = more[k]
<1>1. /\ line \in Seq(LineSet) /\ Len(line) \in Nat /\ Len(more) \in Nat \ {0}
      /\ Len(line') = Len(line) + Len(more)
      /\ \A i \in 1 .. Len(line) : line'[i] = line[i]
      /\ \A i \in 1 .. Len(more) : line'[Len(line) + i] = more[i]
  BY JoinFacts DEF LinesTyped
<1>2. Len(more) \in 1 .. Len(more) /\ Len(line') \in 1 .. Len(line')
  BY <1>1
<1>3. line'[Len(line')] = more[Len(more)]
  BY <1>1, <1>2
<1>4. ASSUME NEW i \in 1 .. Len(line')
      PROVE  \/ i \in 1 .. Len(line) /\ line'[i] = line[i]
             \/ i = Len(line')
             \/ i + 1 \in 1 .. Len(line')
                /\ \E k \in 1 .. Len(more) : k # Len(more) /\ line'[i] = more[k]
  <2>1. CASE i \in 1 .. Len(line)
    BY <1>1, <2>1
  <2>2. CASE i \notin 1 .. Len(line) /\ i # Len(line')
    <3>1. /\ i - Len(line) \in 1 .. Len(more) /\ Len(line) + (i - Len(line)) = i
          /\ i - Len(line) # Len(more) /\ i + 1 \in 1 .. Len(line')
      BY <1>1, <2>2
    <3>2. line'[i] = more[i - Len(line)]
      BY <1>1, <3>1
    <3> QED
      BY <3>1, <3>2
  <2> QED
    BY <2>1, <2>2
<1>5. ASSUME NEW i \in Finals' PROVE i = Len(line')
  <2>1. i \in 1 .. Len(line') /\ line'[i].t \in {"ok", "error", "prompt"}
    BY DEF Finals
  <2>2. ~(i \in 1 .. Len(line) /\ line'[i] = line[i])
    BY <2>1 DEF Finals
  <2> QED
    BY <1>4, <2>1, <2>2
<1>6. Len(line') \in Finals'
  BY <1>2, <1>3 DEF Finals
<1> QED
  BY <1>3, <1>4, <1>5, <1>6

\* Counters are read or on their way only before the end of their answer.
LEMMA CountersEnd ==
  ASSUME LinesTyped, StoreLines, Finals = {}
  PROVE  \A i \in 1 .. Len(line) : line[i].t \notin {"ok", "error"} => line[i].of # "CPMS?"
<1> SUFFICES ASSUME NEW i \in 1 .. Len(line), line[i].t \notin {"ok", "error"},
                    line[i].of = "CPMS?"
             PROVE  FALSE
  OBVIOUS
<1>1. PICK j \in i + 1 .. Len(line) : line[j].t \in {"ok", "error", "prompt"}
  BY DEF StoreLines
<1>2. j \in 1 .. Len(line)
  BY DEF LinesTyped
<1> QED
  BY <1>1, <1>2 DEF Finals

\* The modem takes the text of a submission.
LEMMA TextTurns ==
  ASSUME Typed, Typed', Prompted, Credited, Exact, Turns, tx # <<>>, tx' = Tail(tx),
         UNCHANGED clientVars, TakesText(Head(tx))
  PROVE  Turns'
<1>1. ClientTyped /\ LinesTyped /\ WritesTyped /\ dev \in DevSet
  BY DEF Typed, ModemTyped
<1>2. StoreShape(todo) /\ TurnTaken /\ StoreLines /\ StoreSelected /\ StoresFit
  BY DEF Turns
<1>3. kinds' = kinds /\ todo' = todo /\ phase' = phase /\ got' = got /\ fields' = fields
  BY DEF clientVars
<1>4. Head(tx).cmd = "body" /\ phase = "confirm" /\ ~NoBody
  BY TextRead DEF TakesText
<1>5. \A i \in 1 .. Len(line) : line[i].t = "data"
  BY <1>1, <1>4, BodyMeansReports
<1>6. Finals = {}
  BY <1>5 DEF Finals
<1>7. dev'.input = NoInput /\ dev'.store = dev.store
  BY <1>1 DEF TakesText, DevSet
<1>8. "body" \in Names
  BY DEF Names
<1>9. PICK a \in LineSet : a = Line("cmgs", "body", FALSE) /\ a.t = "cmgs" /\ a.of = "body"
  <2>1. /\ Line("cmgs", "body", FALSE) \in LineSet /\ Line("cmgs", "body", FALSE).t = "cmgs"
        /\ Line("cmgs", "body", FALSE).of = "body"
    BY <1>8 DEF Line, LineSet
  <2> QED
    BY <2>1
<1>10. PICK b \in LineSet : b = Line("ok", "body", FALSE) /\ b.t = "ok"
  <2>1. Line("ok", "body", FALSE) \in LineSet /\ Line("ok", "body", FALSE).t = "ok"
    BY <1>8 DEF Line, LineSet
  <2> QED
    BY <2>1
<1>11. line' = line \o <<a, b>>
  <2>1. line' = line \o <<Line("cmgs", Head(tx).cmd, FALSE), OK(Head(tx).cmd)>>
    BY DEF TakesText
  <2>2. OK(Head(tx).cmd) = b
    BY <1>4, <1>10 DEF OK
  <2>3. Line("cmgs", Head(tx).cmd, FALSE) = a
    BY <1>4, <1>9
  <2> QED
    BY <2>1, <2>2, <2>3, Zenon
<1>12. PICK more \in Seq(LineSet) :
        more = <<a, b>> /\ Len(more) = 2 /\ more[1] = a /\ more[2] = b
  <2>1. <<a, b>> \in Seq(LineSet) /\ Len(<<a, b>>) = 2 /\ <<a, b>>[1] = a /\ <<a, b>>[2] = b
    OBVIOUS
  <2> QED
    BY <2>1
<1>13. \A i \in 1 .. 2 : i = 1 \/ i = 2
  OBVIOUS
<1>14. /\ Len(line') \in Finals' /\ line'[Len(line')] = more[Len(more)]
       /\ \A i \in Finals' : i = Len(line')
       /\ \A i \in 1 .. Len(line') :
            \/ i \in 1 .. Len(line) /\ line'[i] = line[i]
            \/ i = Len(line')
            \/ i + 1 \in 1 .. Len(line')
               /\ \E k \in 1 .. Len(more) : k # Len(more) /\ line'[i] = more[k]
  <2>1. line' = line \o more /\ Len(more) # 0
    BY <1>11, <1>12
  <2>2. more[Len(more)].t \in {"ok", "error", "prompt"}
    BY <1>12, <1>10
  <2>3. \A i \in 1 .. Len(more) : i = Len(more) \/ more[i].t \notin {"ok", "error", "prompt"}
    BY <1>12, <1>13, <1>9
  <2> QED
    BY <1>1, <1>6, <2>1, <2>2, <2>3, AnswerTurns
<1>15. /\ dev.store # "SM" /\ Head(todo).field # "smsSm" /\ Head(todo).cmd = "CMGS"
       /\ \A i \in 1 .. Len(line) : line[i].t \notin {"ok", "error"} => line[i].of # "CPMS?"
       /\ got.of # "CPMS?"
  BY <1>1, <1>2, <1>4, SubmitTurns
<1>16. StoreShape(todo)'
  BY <1>2, <1>3 DEF StoreShape, Kind
<1>17. TurnTaken'
  <2>1. \A i \in Finals' : line'[i].t = "ok"
    BY <1>12, <1>14, <1>10
  <2> QED
    BY <1>3, <1>4, <1>7, <1>14, <2>1 DEF TurnTaken
<1>18. StoreLines'
  <2>1. \A k \in 1 .. Len(more) : k # Len(more) => more[k].of = "body"
    BY <1>9, <1>12, <1>13
  <2>2. line'[Len(line')].t = "ok"
    BY <1>10, <1>12, <1>14
  <2>3. \A i \in 1 .. Len(line') : line'[i].t \notin {"ok", "error"} => line'[i].of # "CPMS?"
    <3> SUFFICES ASSUME NEW i \in 1 .. Len(line'), line'[i].t \notin {"ok", "error"}
                 PROVE  line'[i].of # "CPMS?"
      OBVIOUS
    <3>1. CASE i \in 1 .. Len(line) /\ line'[i] = line[i]
      BY <1>15, <3>1
    <3>2. CASE \E k \in 1 .. Len(more) : k # Len(more) /\ line'[i] = more[k]
      BY <2>1, <3>2
    <3> QED
      BY <1>14, <2>2, <3>1, <3>2
  <2> QED
    BY <1>3, <1>15, <2>3 DEF StoreLines
<1>19. StoreSelected' /\ StoresFit'
  BY <1>2, <1>3, <1>4, <1>7, <1>15 DEF StoreSelected, SelectedSm, StoresFit
<1> QED
  BY <1>16, <1>17, <1>18, <1>19 DEF Turns

\* While the answers are in time, nothing but its text is given to a prompt.
LEMMA OnlyTextTaken ==
  ASSUME Typed, Prompted, Credited, Exact, Turns, tx # <<>>, dev.input # NoInput
  PROVE  Head(tx).cmd = "body"
<1>1. ClientTyped /\ LinesTyped /\ WritesTyped
  BY DEF Typed
<1>2. TurnTaken
  BY DEF Turns
<1>3. phase \in {"prompt", "confirm"}
  BY <1>2 DEF TurnTaken
<1>4. phase # "prompt"
  <2> SUFFICES ASSUME phase = "prompt" PROVE FALSE
    OBVIOUS
  <2>1. ~NoPrompt
    BY <1>2 DEF TurnTaken
  <2>2. Finals # {}
    BY <2>1 DEF NoPrompt, Finals
  <2>3. Cardinality(Finals) = 1
    BY <2>2, OneAnswer
  <2>4. Progress \in Nat
    <3>1. CASE todo # <<>> /\ Kind \in Sends
      <4>1. Answered(Kind, Len(todo)) \in 0 .. 2
        BY <1>1, <3>1, AnsweredSteps DEF ClientTyped
      <4> QED
        BY <3>1, <4>1 DEF Progress
    <3>2. CASE ~(todo # <<>> /\ Kind \in Sends)
      BY <3>2 DEF Progress
    <3> QED
      BY <3>1, <3>2
  <2>5. ~(Cardinality(Finals) + Progress <= used.late)
    BY <2>3, <2>4 DEF Exact
  <2>6. OwnOpen
    BY <2>1, <2>5 DEF Credited, StalePrompt
  <2> QED
    BY <2>6 DEF OwnOpen
<1>5. ~NoBody
  BY <1>3, <1>4 DEF Prompted, TextGiven
<1>6. Len(tx) = 1
  BY <1>3, <1>4, <1>5 DEF Credited, TextUnderOwn, Exact
<1>7. Head(tx) = tx[1]
  BY <1>1 DEF WritesTyped
<1> QED
  BY <1>5, <1>6, <1>7 DEF NoBody

\* A CMGS is read, and opens the prompt or is not understood.
LEMMA OpensTurns ==
  ASSUME Typed, Typed', Credited, Exact, Turns, tx # <<>>, tx' = Tail(tx),
         UNCHANGED clientVars, phase = "prompt", dev.input = NoInput, OpensInput(Head(tx))
  PROVE  Turns'
<1>1. ClientTyped /\ LinesTyped /\ WritesTyped /\ dev \in DevSet
  BY DEF Typed, ModemTyped
<1>2. StoreShape(todo) /\ TurnTaken /\ StoreLines /\ StoreSelected /\ StoresFit
  BY DEF Turns
<1>3. kinds' = kinds /\ todo' = todo /\ phase' = phase /\ got' = got /\ fields' = fields
  BY DEF clientVars
<1>4. Head(tx).cmd = "CMGS" /\ "CMGS" \in Names
  BY DEF OpensInput, Names, Commands
<1>5. PICK p \in LineSet : p = Line("prompt", "CMGS", FALSE) /\ p.t = "prompt" /\ p.of = "CMGS"
  <2>1. /\ Line("prompt", "CMGS", FALSE) \in LineSet /\ Line("prompt", "CMGS", FALSE).t = "prompt"
        /\ Line("prompt", "CMGS", FALSE).of = "CMGS"
    BY <1>4 DEF Line, LineSet
  <2> QED
    BY <2>1
<1>6. PICK e \in LineSet :
        /\ e.of = "CMGS" /\ line' = Append(line, e) /\ dev'.store = dev.store
        /\ \/ e.t = "error" /\ dev'.input = NoInput
           \/ e.t = "prompt" /\ dev'.input # NoInput
  <2>1. Head(tx) # NoInput
    BY <1>4 DEF NoInput, Written
  <2>2. CASE Understood(Head(tx))
    <3>1. line' = Append(line, p)
      BY <1>4, <1>5, <2>2 DEF OpensInput
    <3>2. dev'.store = dev.store /\ dev'.input # NoInput
      BY <1>1, <2>1, <2>2 DEF OpensInput, DevSet
    <3> QED
      BY <1>5, <3>1, <3>2
  <2>3. CASE ~Understood(Head(tx))
    <3>1. PICK r \in LineSet : r = Line("error", "CMGS", FALSE) /\ r.t = "error" /\ r.of = "CMGS"
      BY <1>4, ErrorTyped
    <3>2. line' = Append(line, r) /\ dev' = dev
      BY <1>4, <2>3, <3>1 DEF OpensInput, Error
    <3> QED
      BY <3>1, <3>2
  <2> QED
    BY <2>2, <2>3
<1>7. /\ Len(line) \in Nat /\ Len(line') = Len(line) + 1 /\ line'[Len(line) + 1] = e
      /\ \A i \in 1 .. Len(line) : line'[i] = line[i]
  BY <1>1, <1>6, AppendFacts DEF LinesTyped
<1>8. Len(line) + 1 \in 1 .. Len(line')
      /\ \A i \in 1 .. Len(line') : i \in 1 .. Len(line) \/ i = Len(line) + 1
  BY <1>7
<1>9. Len(line) + 1 \in Finals' /\ \A i \in Finals' : line'[i] = e
  <2>1. Finals = {}
    <3>1. Pending # 0
      <4>1. Len(tx) # 0
        BY <1>1 DEF WritesTyped
      <4> QED
        BY <4>1 DEF Pending
    <3> QED
      BY <3>1, OneAnswer
  <2> QED
    BY <1>6, <1>7, <1>8, <2>1 DEF Finals
<1>10. /\ dev.store # "SM" /\ Head(todo).field # "smsSm" /\ Head(todo).cmd = "CMGS"
       /\ \A i \in 1 .. Len(line) : line[i].t \notin {"ok", "error"} => line[i].of # "CPMS?"
       /\ got.of # "CPMS?"
  BY <1>1, <1>2, SubmitTurns
<1>11. StoreShape(todo)'
  BY <1>2, <1>3 DEF StoreShape, Kind
<1>12. TurnTaken'
  <2>1. dev'.input # NoInput => ~NoPrompt'
    BY <1>6, <1>7, <1>8 DEF NoPrompt
  <2>2. \A i \in Finals' : line'[i].t = "error" \/ line'[i].t = "prompt"
    BY <1>6, <1>9
  <2> QED
    BY <1>3, <1>9, <2>1, <2>2 DEF TurnTaken
<1>13. StoreLines'
  <2>1. \A i \in 1 .. Len(line') : line'[i].t \notin {"ok", "error"} => line'[i].of # "CPMS?"
    BY <1>6, <1>7, <1>8, <1>10
  <2> QED
    BY <1>3, <1>10, <2>1 DEF StoreLines
<1>14. StoreSelected' /\ StoresFit'
  BY <1>2, <1>3, <1>6, <1>10 DEF StoreSelected, SelectedSm, StoresFit
<1> QED
  BY <1>11, <1>12, <1>13, <1>14 DEF Turns

\* What a command does to the selected store.
LEMMA EffectOnStore ==
  ASSUME dev \in DevSet, NEW cmd \in Commands, dev' = Effect(cmd)
  PROVE  /\ cmd = "CPMS=SM" => dev'.store = "SM"
         /\ cmd = "CPMS=ME" => dev'.store = "ME"
         /\ cmd \notin {"CPMS=SM", "CPMS=ME"} => dev'.store = dev.store
BY DEF Effect, DevSet

\* A command is read and answered.
LEMMA CommandTurns ==
  ASSUME Typed, Typed', Credited, Exact, Turns, tx # <<>>, tx' = Tail(tx),
         UNCHANGED clientVars, phase = "reply", dev.input = NoInput, Command(Head(tx))
  PROVE  Turns'
<1>1. ClientTyped /\ LinesTyped /\ WritesTyped /\ dev \in DevSet
  BY DEF Typed, ModemTyped
<1>2. StoreShape(todo) /\ TurnTaken /\ StoreLines /\ StoreSelected /\ StoresFit
  BY DEF Turns
<1>3. kinds' = kinds /\ todo' = todo /\ phase' = phase /\ got' = got /\ fields' = fields
  BY DEF clientVars
<1>4. todo # <<>> /\ ScriptedAs(todo) /\ Head(todo).cmd \in Commands
  BY <1>1, BusyTodo, SubmitPart
<1>5. /\ Len(tx') = Len(tx) - 1 /\ Len(tx) \in Nat \ {0} /\ Head(tx) = tx[1] /\ 1 \in 1 .. Len(tx)
  BY <1>1, TxShrinks
<1>6. Finals = {} /\ Len(tx) = 1
  <2>1. Pending = Len(tx)
    BY DEF Pending
  <2> QED
    BY <1>5, <2>1, OneAnswer
<1>7. tx' = <<>> /\ Head(tx).cmd = Head(todo).cmd
  <2>1. Len(tx') = 0 /\ tx' \in Seq(WriteSet)
    BY <1>5, <1>6 DEF Typed, WritesTyped
  <2> QED
    BY <1>2, <1>5, <2>1, NoneLeft DEF TurnTaken
<1>8. PICK cmd \in Commands : cmd = Head(todo).cmd
  BY <1>4
<1>9. PICK answer \in Answers(cmd) : line' = line \o answer
  BY <1>7, <1>8 DEF Command
<1>10. dev' = Effect(cmd)
  BY <1>7, <1>8 DEF Command
<1>11. dev'.input = NoInput
  BY <1>1, <1>10, EffectTyped
<1>12. /\ answer \in Seq(LineSet) /\ Len(answer) \in 1 .. 2
       /\ answer[Len(answer)].t = "ok"
       /\ \A i \in 1 .. Len(answer) :
            i = Len(answer)
            \/ (answer[i].t = "data" /\ answer[i].of = cmd /\ answer[i].v \in Says(cmd))
  BY <1>1, AnswerParts
<1>13. /\ Len(line') \in Finals' /\ line'[Len(line')] = answer[Len(answer)]
       /\ \A i \in Finals' : i = Len(line')
       /\ \A i \in 1 .. Len(line') :
            \/ i \in 1 .. Len(line) /\ line'[i] = line[i]
            \/ i = Len(line')
            \/ i + 1 \in 1 .. Len(line')
               /\ \E k \in 1 .. Len(answer) : k # Len(answer) /\ line'[i] = answer[k]
  <2>1. Len(answer) # 0
    BY <1>12
  <2>2. \A i \in 1 .. Len(answer) : i = Len(answer) \/ answer[i].t \notin {"ok", "error", "prompt"}
    BY <1>12
  <2> QED
    BY <1>1, <1>6, <1>9, <1>12, <2>1, <2>2, AnswerTurns
<1>14. Inert(Head(todo)) \/ Head(todo) \in {SelectSm, AskSm}
  BY <1>2, <1>4, HeadOfStores
<1>15. Head(todo).field = "smsSm" => cmd = "CPMS?"
  BY <1>8, <1>14, StoreSteps DEF Inert
<1>16. StoreShape(todo)'
  BY <1>2, <1>3 DEF StoreShape, Kind
<1>17. TurnTaken'
  <2>1. \A i \in Finals' : line'[i].t = "ok"
    BY <1>12, <1>13
  <2>2. \A k \in 1 .. Len(tx') : FALSE
    BY <1>7, EmptyFacts
  <2> QED
    BY <1>3, <1>11, <1>13, <2>1, <2>2 DEF TurnTaken
<1>18. StoreLines'
  <2>1. \A i \in 1 .. Len(line) : line[i].t \notin {"ok", "error"} => line[i].of # "CPMS?"
    BY <1>1, <1>2, <1>6, CountersEnd
  <2>2. cmd = "CPMS?" => (dev.store = "SM" <=> Head(todo).field = "smsSm")
    BY <1>2, <1>4, <1>8 DEF StoreSelected, SelectedSm
  <2>3. ASSUME NEW i \in 1 .. Len(line'), line'[i].t \notin {"ok", "error"}, line'[i].of = "CPMS?"
        PROVE  /\ AsksStore(line'[i].v)
               /\ \E j \in i + 1 .. Len(line') : line'[j].t \in {"ok", "error", "prompt"}
    <3>1. i # Len(line')
      BY <1>12, <1>13, <2>3
    <3>2. ~(i \in 1 .. Len(line) /\ line'[i] = line[i])
      BY <2>1, <2>3
    <3>3. PICK k \in 1 .. Len(answer) : k # Len(answer) /\ line'[i] = answer[k]
      BY <1>13, <3>1, <3>2
    <3>4. cmd = "CPMS?" /\ line'[i].v \in Says(cmd)
      BY <1>12, <2>3, <3>3
    <3>5. line'[i].v = (dev.store = "SM")
      BY <3>4 DEF Says
    <3>6. AsksStore(line'[i].v)
      BY <1>8, <2>2, <3>4, <3>5 DEF AsksStore
    <3>7. Len(line') \in i + 1 .. Len(line')
      BY <1>1, <3>1 DEF Typed, LinesTyped
    <3>8. line'[Len(line')].t = "ok"
      BY <1>12, <1>13
    <3> QED
      BY <3>6, <3>7, <3>8
  <2> QED
    BY <1>2, <1>3, <2>3 DEF StoreLines, AsksStore
<1>19. StoreSelected'
  <2>1. /\ cmd = "CPMS=SM" => dev'.store = "SM"
        /\ cmd = "CPMS=ME" => dev'.store = "ME"
        /\ cmd \notin {"CPMS=SM", "CPMS=ME"} => dev'.store = dev.store
    BY <1>1, <1>10, EffectOnStore
  <2>2. SelectedSm' <=> cmd = "CPMS=SM"
    BY <1>3, <1>4, <1>7, <1>8 DEF SelectedSm
  <2>3. Head(todo).field = "smsSm" => dev'.store = "SM"
    BY <1>2, <1>4, <1>15, <2>1 DEF StoreSelected
  <2>4. ASSUME dev'.store = "SM", cmd # "CPMS=SM" PROVE Head(todo).field = "smsSm"
    <3>1. cmd # "CPMS=ME" /\ dev.store = "SM"
      BY <2>1, <2>4
    <3>2. ~SelectedSm
      BY <1>8, <2>4 DEF SelectedSm
    <3> QED
      BY <1>2, <1>8, <3>1, <3>2 DEF StoreSelected
  <2> QED
    BY <1>3, <1>4, <2>1, <2>2, <2>3, <2>4 DEF StoreSelected
<1>20. StoresFit'
  BY <1>2, <1>3 DEF StoresFit
<1> QED
  BY <1>16, <1>17, <1>18, <1>19, <1>20 DEF Turns

\* The modem reads what is written next.
LEMMA ModemAnswersTurns ==
  ASSUME Typed, Typed', Prompted, Credited, Exact, Turns, ModemAnswers
  PROVE  Turns'
<1>1. ClientTyped /\ LinesTyped /\ WritesTyped
  BY DEF Typed
<1>2. TurnTaken
  BY DEF Turns
<1>3. tx # <<>> /\ tx' = Tail(tx) /\ UNCHANGED clientVars
  BY DEF ModemAnswers
<1>4. CASE dev.input # NoInput
  <2>1. Head(tx).cmd = "body"
    BY <1>3, <1>4, OnlyTextTaken
  <2>2. TakesText(Head(tx))
    BY <1>4, <2>1 DEF ModemAnswers, Swallowed
  <2> QED
    BY <1>3, <2>2, TextTurns
<1>5. CASE dev.input = NoInput
  <2>1. Len(tx) \in Nat \ {0} /\ Head(tx) = tx[1] /\ 1 \in 1 .. Len(tx)
    BY <1>1, <1>3, TxShrinks
  <2>2. Waiting /\ Len(tx) = 1
    <3>1. Pending = Len(tx) /\ Pending # 0
      BY <1>5, <2>1 DEF Pending
    <3> QED
      BY <3>1, OneAnswer
  <2>3. todo # <<>> /\ Head(todo).cmd \in Commands
        /\ (Head(todo).role = "submit" <=> Head(todo).cmd = "CMGS")
    BY <1>1, <2>2, BusyTodo, SubmitPart DEF Waiting
  <2>4. CASE phase = "reply"
    <3>1. Head(tx).cmd = Head(todo).cmd
      BY <1>2, <2>1, <2>4 DEF TurnTaken
    <3>2. Head(todo).role # "submit"
      BY <1>1, <2>4 DEF ClientTyped
    <3>3. Head(tx).cmd \notin {"CMGS", "body", "text"}
      BY <2>3, <3>1, <3>2, CommandsAreNoTexts DEF Texts
    <3>4. Command(Head(tx))
      BY <1>5, <3>3 DEF ModemAnswers, OpensInput
    <3> QED
      BY <1>3, <1>5, <2>4, <3>4, CommandTurns
  <2>5. CASE phase = "prompt"
    <3>1. tx[1] = Written("CMGS", Msg, Head(todo).part)
      BY <1>3, <2>2, <2>5 DEF Prompted, OwnSubmit
    <3>2. Head(tx).cmd = "CMGS"
      BY <2>1, <3>1 DEF Written
    <3>3. OpensInput(Head(tx))
      BY <1>5, <3>2 DEF ModemAnswers, Command
    <3> QED
      BY <1>3, <1>5, <2>5, <3>3, OpensTurns
  <2>6. phase # "confirm"
    <3>1. NoBody
      BY <1>1, <1>5, BodyMeansReports
    <3> QED
      BY <1>3, <3>1 DEF Prompted, TextGiven
  <2> QED
    BY <2>2, <2>4, <2>5, <2>6 DEF Waiting
<1> QED
  BY <1>4, <1>5

\* A report comes between the lines.
LEMMA UrcTurns ==
  ASSUME Typed, Typed', Turns, Exact, Urc
  PROVE  Turns'
<1>1. LinesTyped /\ LinesTyped'
  BY DEF Typed
<1>2. StoreShape(todo) /\ TurnTaken /\ StoreLines /\ StoreSelected /\ StoresFit
  BY DEF Turns
<1>3. /\ kinds' = kinds /\ todo' = todo /\ phase' = phase /\ got' = got /\ fields' = fields
      /\ dev' = dev /\ tx' = tx
  BY DEF Urc, clientVars, modemVars
<1>4. PICK n \in 1 .. Len(line) + 1, e \in LineSet :
        e.t = "data" /\ e.of = "urc" /\ line' = InsertAt(line, n, e)
  BY UrcInserts
<1>5. line \in Seq(LineSet)
  BY <1>1 DEF LinesTyped
<1>6. Len(line) \in Nat /\ Len(line') = Len(line) + 1
  BY <1>4, <1>5, InsertFacts
<1>7. line'[n] = e
  BY <1>4, <1>5, InsertFacts
<1>8. \A i \in 1 .. n - 1 : line'[i] = line[i]
  BY <1>4, <1>5, InsertFacts
<1>9. \A i \in n .. Len(line) : line'[i + 1] = line[i]
  BY <1>4, <1>5, InsertFacts
<1>10. ASSUME NEW i \in 1 .. Len(line)
       PROVE  \E k \in 1 .. Len(line') :
                /\ line'[k] = line[i] /\ k # n /\ k = (IF i < n THEN i ELSE i + 1)
  <2>1. CASE i < n
    BY <1>6, <1>8, <2>1
  <2>2. CASE ~(i < n)
    <3>1. i \in n .. Len(line) /\ i + 1 \in 1 .. Len(line') /\ i + 1 # n
      BY <1>6, <2>2
    <3> QED
      BY <1>9, <2>2, <3>1
  <2> QED
    BY <2>1, <2>2
<1>11. ASSUME NEW k \in 1 .. Len(line'), k # n
       PROVE  \E i \in 1 .. Len(line) : line'[k] = line[i] /\ k = (IF i < n THEN i ELSE i + 1)
  <2>1. CASE k < n
    BY <1>6, <1>8, <2>1
  <2>2. CASE ~(k < n)
    <3>1. k - 1 \in n .. Len(line) /\ (k - 1) + 1 = k /\ k - 1 \in 1 .. Len(line)
      BY <1>6, <1>11, <2>2
    <3>2. ~(k - 1 < n)
      BY <1>6, <3>1
    <3> QED
      BY <1>9, <3>1, <3>2
  <2> QED
    BY <2>1, <2>2
<1>12. StoreShape(todo)'
  BY <1>2, <1>3 DEF StoreShape, Kind
<1>13. TurnTaken'
  <2>1. ~NoPrompt => ~NoPrompt'
    BY <1>1, <1>4, ReportKeeps
  <2>2. Pending' = Pending
    BY <1>3 DEF Pending, NoBody
  <2>3. Finals # {} => Finals' # {}
    BY <1>10 DEF Finals
  <2>4. \A k \in Finals' : k # n /\ \E i \in Finals : line'[k] = line[i]
    <3> SUFFICES ASSUME NEW k \in Finals' PROVE k # n /\ \E i \in Finals : line'[k] = line[i]
      OBVIOUS
    <3>1. k \in 1 .. Len(line') /\ line'[k].t \in {"ok", "error", "prompt"} /\ k # n
      BY <1>4, <1>7 DEF Finals
    <3>2. PICK i \in 1 .. Len(line) : line'[k] = line[i]
      BY <1>11, <3>1
    <3> QED
      BY <3>1, <3>2 DEF Finals
  <2> QED
    BY <1>2, <1>3, <2>1, <2>2, <2>3, <2>4 DEF TurnTaken, Waiting
<1>14. StoreLines'
  <2>1. ASSUME NEW k \in 1 .. Len(line'), line'[k].t \notin {"ok", "error"}, line'[k].of = "CPMS?"
        PROVE  /\ AsksStore(line'[k].v)
               /\ \E j \in k + 1 .. Len(line') : line'[j].t \in {"ok", "error", "prompt"}
    <3>1. k # n
      BY <1>4, <1>7, <2>1
    <3>2. PICK i \in 1 .. Len(line) : line'[k] = line[i] /\ k = (IF i < n THEN i ELSE i + 1)
      BY <1>11, <3>1
    <3>3. AsksStore(line[i].v)
          /\ \E j \in i + 1 .. Len(line) : line[j].t \in {"ok", "error", "prompt"}
      BY <1>2, <2>1, <3>2 DEF StoreLines
    <3>4. PICK j \in i + 1 .. Len(line) : line[j].t \in {"ok", "error", "prompt"}
      BY <3>3
    <3>5. j \in 1 .. Len(line) /\ i < j
      BY <1>6, <3>4
    <3>6. PICK m \in 1 .. Len(line') : line'[m] = line[j] /\ m = (IF j < n THEN j ELSE j + 1)
      BY <1>10, <3>5
    <3>7. m \in k + 1 .. Len(line')
      BY <1>6, <3>2, <3>5, <3>6
    <3> QED
      BY <3>2, <3>3, <3>4, <3>6, <3>7
  <2> QED
    BY <1>2, <1>3, <2>1 DEF StoreLines, AsksStore
<1>15. StoreSelected' /\ StoresFit'
  BY <1>2, <1>3 DEF StoreSelected, SelectedSm, StoresFit
<1> QED
  BY <1>12, <1>13, <1>14, <1>15 DEF Turns

\* A line of the wait for a reply, a prompt or a confirmation is read.
LEMMA ReadTurns ==
  ASSUME Typed, Typed', Prompted, Credited, Fits, Exact, Turns,
         Reply \/ AwaitPrompt \/ AwaitConfirmation
  PROVE  Turns'
<1>1. ClientTyped /\ LinesTyped
  BY DEF Typed
<1>2. TurnTaken
  BY DEF Turns
<1>3. /\ Waiting /\ line # <<>> /\ line' = Tail(line) /\ dev' = dev
  BY DEF Reply, AwaitPrompt, AwaitConfirmation, Waiting, modemVars
<1>4. Head(line).t \in {"ok", "prompt"} => (Head(line).t = "prompt" <=> phase = "prompt")
  <2> SUFFICES ASSUME Head(line).t \in {"ok", "prompt"}
               PROVE  Head(line).t = "prompt" <=> phase = "prompt"
    OBVIOUS
  <2>1. Head(line) = line[1] /\ 1 \in Finals
    BY <1>3, FinalRead
  <2>2. Head(line).t # "error"
    OBVIOUS
  <2> QED
    BY <1>2, <2>1, <2>2 DEF TurnTaken
<1>5. ASSUME NEW good \in BOOLEAN, Head(line).t \in {"ok", "error"}, tx' = tx,
             Proceed(Follow(good), Decides(good)),
             fields' \in {fields, fields \cup Taken(Head(todo).field)}
      PROVE  Turns'
  BY <1>3, <1>5, EndTurns
<1>6. ASSUME Succeeded, Head(line).t \in {"ok", "error"}, tx' = tx PROVE Turns'
  BY <1>5, <1>6 DEF Succeeded
<1>7. ASSUME Failed, Head(line).t \in {"ok", "error"}, tx' = tx PROVE Turns'
  BY <1>5, <1>7 DEF Failed
<1>8. ASSUME Head(line).t \notin {"ok", "error", "prompt"}, kinds' = kinds, todo' = todo,
             phase' = phase, fields' = fields, tx' = tx,
             got' = got \/ (got' = Head(line) /\ phase = "reply")
      PROVE  Turns'
  BY <1>3, <1>8, WaitTurns
<1>9. CASE Reply
  <2>1. phase = "reply" /\ tx' = tx
    BY <1>9 DEF Reply
  <2>2. CASE Head(line).t = "ok" /\ Succeeded
    BY <1>6, <2>1, <2>2
  <2>3. CASE Head(line).t = "error" /\ Failed
    BY <1>7, <2>1, <2>3
  <2>4. CASE /\ Head(line).t \notin {"ok", "error"} /\ got' = Head(line)
             /\ UNCHANGED <<kinds, todo, phase, haveCmgs, ok, fields, gnss, restartRequired>>
    <3>1. Head(line).t # "prompt"
      BY <1>4, <2>1
    <3> QED
      BY <1>8, <2>1, <2>4, <3>1
  <2> QED
    BY <1>9, <2>2, <2>3, <2>4 DEF Reply
<1>10. CASE AwaitPrompt
  <2>1. phase = "prompt"
    BY <1>10 DEF AwaitPrompt
  <2>2. CASE Head(line).t = "prompt"
    BY <1>10, <2>2, PromptReadTurns
  <2>3. CASE Head(line).t = "error" /\ Failed /\ UNCHANGED tx
    BY <1>7, <2>3
  <2>4. CASE Head(line).t \notin {"prompt", "error"} /\ UNCHANGED <<clientVars, tx>>
    <3>1. Head(line).t # "ok"
      BY <1>4, <2>1, <2>4
    <3> QED
      BY <1>8, <2>4, <3>1 DEF clientVars
  <2> QED
    BY <1>10, <2>2, <2>3, <2>4 DEF AwaitPrompt
<1>11. CASE AwaitConfirmation
  <2>1. phase = "confirm" /\ tx' = tx
    BY <1>11 DEF AwaitConfirmation
  <2>2. CASE Head(line).t = "ok" /\ Succeeded
    BY <1>6, <2>1, <2>2
  <2>3. CASE Head(line).t \in {"ok", "error"} /\ Failed
    BY <1>7, <2>1, <2>3
  <2>4. CASE Head(line).t \notin {"ok", "error"} /\ UNCHANGED <<kinds, todo, phase, got, fields>>
    <3>1. Head(line).t # "prompt"
      BY <1>4, <2>1
    <3> QED
      BY <1>8, <2>1, <2>4, <3>1
  <2> QED
    BY <1>11, <2>2, <2>3, <2>4 DEF AwaitConfirmation, clientVars
<1> QED
  BY <1>9, <1>10, <1>11

LEMMA TurnsInit == Init => Turns
<1> SUFFICES ASSUME Init PROVE Turns
  OBVIOUS
<1>1. todo = <<>> /\ line = <<>> /\ phase = "idle" /\ fields = {} /\ got = NoLine
  BY DEF Init
<1>2. dev.input = NoInput /\ dev.store = "ME"
  BY DEF Init
<1>3. \A i \in 1 .. Len(line) : FALSE
  BY <1>1, EmptyFacts
<1>4. got.of # "CPMS?"
  BY <1>1 DEF NoLine, Line
<1>5. StoreShape(todo)
  BY <1>1 DEF StoreShape
<1>6. TurnTaken
  BY <1>1, <1>2, <1>3 DEF TurnTaken, Waiting, Finals
<1>7. StoreLines
  BY <1>3, <1>4 DEF StoreLines
<1>8. StoreSelected /\ StoresFit
  BY <1>1, <1>2 DEF StoreSelected, SelectedSm, StoresFit
<1> QED
  BY <1>5, <1>6, <1>7, <1>8 DEF Turns

LEMMA TurnsStep ==
  Typed /\ Typed' /\ Prompted /\ Credited /\ Fits /\ Turns /\ [Next]_vars => Turns'
<1> SUFFICES ASSUME Typed, Typed', Prompted, Credited, Fits, Turns, [Next]_vars, Exact'
             PROVE  Turns'
  BY DEF Turns
<1>1. CountsTyped
  BY DEF Typed
<1>2. Exact
  <2>1. /\ used'.late \in Nat /\ used'.late >= used.late
        /\ used'.errors \in Nat /\ used'.errors >= used.errors
    BY BoundsGrow
  <2>2. used.late \in Nat /\ used.errors \in Nat
    BY <1>1 DEF CountsTyped
  <2> QED
    BY <2>1, <2>2 DEF Exact
<1>3. ~Err
  BY <1>1, <1>2 DEF Err, Exact, CountsTyped
<1>4. ~SendFails /\ ~BodyFails /\ ~ModemRefuses
  BY <1>3 DEF SendFails, BodyFails, ModemRefuses
<1>5. ~GivesUp
  BY <1>1, <1>2 DEF GivesUp, Exact, CountsTyped
<1>6. ~TimesOut
  BY <1>2, NeverSilent DEF TimesOut
<1>7. CASE \E kind \in Kinds : Start(kind)
  BY <1>2, <1>7, StartTurns
<1>8. CASE RestartGnssTask \/ UNCHANGED vars
  <2>1. /\ kinds' = kinds /\ todo' = todo /\ phase' = phase /\ got' = got /\ fields' = fields
        /\ dev' = dev /\ tx' = tx /\ line' = line
    BY <1>8 DEF RestartGnssTask, vars, clientVars, modemVars
  <2>2. /\ StoreShape(todo) /\ TurnTaken /\ StoreLines /\ StoreSelected /\ StoresFit
    BY <1>2 DEF Turns
  <2>3. StoreShape(todo)'
    BY <2>1, <2>2 DEF StoreShape, Kind
  <2>4. TurnTaken'
    BY <2>1, <2>2 DEF TurnTaken, Waiting, Finals, NoPrompt, Pending, NoBody
  <2>5. StoreLines' /\ StoreSelected' /\ StoresFit'
    BY <2>1, <2>2 DEF StoreLines, AsksStore, StoreSelected, SelectedSm, StoresFit
  <2> QED
    BY <2>3, <2>4, <2>5 DEF Turns
<1>9. CASE Send
  BY <1>2, <1>9, SendTurns
<1>10. CASE Reply \/ AwaitPrompt \/ AwaitConfirmation
  BY <1>2, <1>10, ReadTurns
<1>11. CASE ModemAnswers
  BY <1>2, <1>11, ModemAnswersTurns
<1>12. CASE Urc
  BY <1>2, <1>12, UrcTurns
<1> QED
  BY <1>4, <1>5, <1>6, <1>7, <1>8, <1>9, <1>10, <1>11, <1>12 DEF Next, Client

\* A line is kept as the answer to a question only while its reply is awaited, and a
\* field taken only from a line its parser accepts (lineHasPrefix, readResponse).
THEOREM FitInvariant == Spec => []Fits
<1>1. Init => Fits
  BY FitsInit
<1>2. Typed /\ Fits /\ [Next]_vars => Fits'
  BY FitsStep
<1> QED
  BY <1>1, <1>2, TypeInvariant, PTL DEF Spec

\* While no answer is late and nothing fails, client and modem take turns, and the second
\* store is selected just while its counters are asked for (pollStatus).
THEOREM TurnInvariant == Spec => []Turns
<1>1. Init => Turns
  BY TurnsInit
<1>2. Typed /\ Typed' /\ Prompted /\ Credited /\ Fits /\ Turns /\ [Next]_vars => Turns'
  BY TurnsStep
<1> QED
  BY <1>1, <1>2, TypeInvariant, PromptInvariant, CreditInvariant, FitInvariant, PTL DEF Spec

\* However late the answers are, a status field is never taken from the answer to another
\* question, the two registrations and the counters of the two stores aside; and those
\* counters are of the store they are published for while no answer is late.
THEOREM AnswersAreTaken == Spec => []AnswersFit
<1>1. Typed /\ Fits /\ Turns => AnswersFit
  <2> SUFFICES ASSUME Typed, Fits, Turns, NEW f \in fields,
                      f.field \notin {"cgatt", "fw"}
               PROVE  \/ f.field \in {"cereg", "creg"} /\ f.of \in {"CEREG?", "CREG?"}
                      \/ f.field = "imei" /\ f.of \in {"CGSN", "GSN"}
                      \/ f.field \in {"smsMe", "smsSm"} /\ f.of = "CPMS?"
                         /\ (f.v = (f.field = "smsSm") \/ used.late > 0 \/ used.errors > 0)
                      \/ <<f.field, f.of>> \in
                           {<<"cpin", "CPIN?">>, <<"csq", "CSQ">>, <<"cesq", "CESQ">>,
                            <<"cops", "COPS?">>, <<"cclk", "CCLK?">>,
                            <<"powered", "CGNSSPWR?">>, <<"mode", "CGNSSMODE?">>,
                            <<"fix", "CGPSINFO">>, <<"sats", "CGNSSINFO">>}
    BY DEF AnswersFit
  <2>1. f.field \in Fields /\ f.of \in Readable[f.field]
    BY DEF Typed, FieldsTyped, Fits, Fitting
  <2>2. used.late \in Nat /\ used.errors \in Nat
    BY DEF Typed, CountsTyped
  <2>3. f.field \in {"smsMe", "smsSm"} =>
          f.v = (f.field = "smsSm") \/ used.late > 0 \/ used.errors > 0
    <3>1. Exact \/ used.late > 0 \/ used.errors > 0
      BY <2>2 DEF Exact
    <3> QED
      BY <3>1 DEF Turns, StoresFit
  <2>4. CASE f.field \in {"smsMe", "smsSm"}
    BY <2>1, <2>3, <2>4 DEF Readable
  <2>5. CASE f.field \in {"none", "cereg", "creg", "imei"}
    BY <2>1, <2>5 DEF Readable
  <2>6. CASE f.field \in {"cpin", "csq", "cesq", "cops", "cclk", "powered", "mode", "fix", "sats"}
    BY <2>1, <2>6 DEF Readable
  <2> QED
    BY <2>1, <2>4, <2>5, <2>6 DEF Fields
<1> QED
  BY <1>1, TypeInvariant, FitInvariant, TurnInvariant, PTL

-----------------------------------------------------------------------------
(* Whether the receiver was started with bias at its antenna. *)

\* What a dialog that starts the receiver anew has left, from the question whether it is
\* on to the command that starts it.
CycleRest  == GnssRestart \o GnssPoll
OffRest    == <<Must("CGNSSPWR=0", <<>>)>> \o (EnsurePowered \o GnssPoll)
RouteRest  == EnsurePowered \o GnssPoll
VoltRest   == Tail(EnsurePowered) \o GnssPoll
EnsureRest == <<Step("CGNSSPWR?", "ensure", "none", <<>>)>> \o GnssPoll
PowerRest  == PowerOn \o GnssPoll

\* Before the receiver has bias it is off, and the bias is set up step by step.
Staged(left) ==
  \/ left \in {CycleRest, OffRest}
  \/ /\ dev.power = "off"
     /\ \/ left = RouteRest
        \/ left = VoltRest /\ dev.route = "on"
        \/ left \in {EnsureRest, PowerRest} /\ dev.route = "on" /\ dev.volt = "on"

\* What the modem has done when it says OK to a command.
Done(cmd) ==
  /\ cmd = "CGNSSPWR=0" => dev.power = "off"
  /\ cmd = "CGDRT" => dev.route = "on"
  /\ cmd = "CGSETV" => dev.volt = "on"
  /\ cmd = "CGNSSPWR=1" => dev.power = "on"

\* While no answer is late: what the modem reads is the command whose reply is awaited,
\* an OK on its way is the reply to it, and so is what it says of the power.
Unread == phase = "reply" /\ dev.input = NoInput =>
            \A k \in 1 .. Len(tx) : tx[k].cmd = Head(todo).cmd
Achieved == phase = "reply" /\ (\E i \in 1 .. Len(line) : line[i].t = "ok") =>
              Done(Head(todo).cmd)
AsksPower(v) ==
  phase = "reply" /\ Head(todo).cmd = "CGNSSPWR?" /\ v = (dev.power = "on")
PowerLines ==
  /\ \A i \in 1 .. Len(line) :
       line[i].t \notin {"ok", "error"} /\ line[i].of = "CGNSSPWR?" =>
         /\ AsksPower(line[i].v)
         /\ \E j \in i + 1 .. Len(line) : line[j].t \in {"ok", "error", "prompt"}
  /\ got.of = "CGNSSPWR?" => AsksPower(got.v)

\* A receiver that has not been started with bias is still to be, in the current GNSS
\* dialog or in the next, and nothing has been published of it.
Restarts ==
  ~dev.biased =>
    /\ restartRequired /\ gnss # "present"
    /\ todo # <<>> /\ Kind = "gnss" => Staged(todo)

Supplied == dev.biased => dev.route = "on" /\ dev.volt = "on"

Prepared == Unread /\ Achieved /\ PowerLines /\ Restarts

Biased == Supplied /\ (used.late = 0 => Prepared)

-----------------------------------------------------------------------------

LEMMA ThenFacts ==
  ASSUME NEW S, NEW a \in S, NEW s \in Seq(S)
  PROVE  /\ <<a>> \o s \in Seq(S) /\ <<a>> \o s # <<>>
         /\ Head(<<a>> \o s) = a /\ Tail(<<a>> \o s) = s
OBVIOUS

LEMMA PairThenFacts ==
  ASSUME NEW S, NEW a \in S, NEW b \in S, NEW s \in Seq(S)
  PROVE  /\ <<a, b>> \o s # <<>> /\ Head(<<a, b>> \o s) = a
         /\ Tail(<<a, b>> \o s) = <<b>> \o s
OBVIOUS

LEMMA TripleThenFacts ==
  ASSUME NEW S, NEW a \in S, NEW b \in S, NEW c \in S, NEW s \in Seq(S)
  PROVE  /\ <<a, b, c>> \o s # <<>> /\ Head(<<a, b, c>> \o s) = a
         /\ Tail(<<a, b, c>> \o s) = <<b, c>> \o s
OBVIOUS

LEMMA JoinedTwice ==
  ASSUME NEW S, NEW a \in Seq(S), NEW b \in Seq(S), NEW c \in Seq(S)
  PROVE  (a \o b) \o c = a \o (b \o c)
OBVIOUS

\* The steps of a restart.
CycleStep  == Step("CGNSSPWR?", "cycle", "none", <<>>)
EnsureStep == Step("CGNSSPWR?", "ensure", "none", <<>>)

LEMMA RestartSteps ==
  /\ CycleStep.cmd = "CGNSSPWR?" /\ CycleStep.role = "cycle"
  /\ Must("CGNSSPWR=0", <<>>).cmd = "CGNSSPWR=0" /\ Must("CGNSSPWR=0", <<>>).role = "must"
  /\ Must("CGDRT", <<>>).cmd = "CGDRT" /\ Must("CGDRT", <<>>).role = "must"
  /\ Must("CGSETV", <<>>).cmd = "CGSETV" /\ Must("CGSETV", <<>>).role = "must"
  /\ EnsureStep.cmd = "CGNSSPWR?" /\ EnsureStep.role = "ensure"
  /\ Must("CGNSSPWR=1", <<>>).cmd = "CGNSSPWR=1" /\ Must("CGNSSPWR=1", <<>>).role = "must"
  /\ Must("CGNSSPWR=0", <<>>).undo = <<>> /\ Must("CGNSSPWR=1", <<>>).undo = <<>>
  /\ Must("CGDRT", <<>>).undo = <<>> /\ Must("CGSETV", <<>>).undo = <<>>
BY DEF CycleStep, EnsureStep, Must, Step

LEMMA RestartTyped ==
  /\ CycleStep \in PlainSteps /\ EnsureStep \in PlainSteps
  /\ Must("CGDRT", <<>>) \in PlainSteps /\ Must("CGSETV", <<>>) \in PlainSteps
  /\ Must("CGNSSPWR=0", <<>>) \in PlainSteps /\ Must("CGNSSPWR=1", <<>>) \in PlainSteps
  /\ May("CGNSSMODE=3") \in PlainSteps
<1>1. {"CGDRT", "CGSETV", "CGNSSPWR?"} \subseteq Commands \ SendOnly
  BY DEF Commands, Queries, SendOnly
<1>2. {"must", "cycle", "ensure"} \subseteq Roles \ {"submit"} /\ "none" \in Fields
  BY DEF Roles, Fields
<1>3. \A cmd \in Commands \ SendOnly, role \in Roles \ {"submit"}, field \in Fields :
        Step(cmd, role, field, <<>>) \in PlainSteps
  BY PlainTyped
<1> QED
  BY <1>1, <1>2, <1>3, PlainAnswers DEF CycleStep, EnsureStep, Must

\* What each step of a restart leaves.
LEMMA RestartRests ==
  /\ CycleRest # <<>> /\ Head(CycleRest) = CycleStep /\ Tail(CycleRest) = RouteRest
  /\ OffRest # <<>> /\ Head(OffRest) = Must("CGNSSPWR=0", <<>>) /\ Tail(OffRest) = RouteRest
  /\ OffRest = <<Must("CGNSSPWR=0", <<>>)>> \o RouteRest
  /\ RouteRest # <<>> /\ Head(RouteRest) = Must("CGDRT", <<>>) /\ Tail(RouteRest) = VoltRest
  /\ VoltRest # <<>> /\ Head(VoltRest) = Must("CGSETV", <<>>) /\ Tail(VoltRest) = EnsureRest
  /\ EnsureRest # <<>> /\ Head(EnsureRest) = EnsureStep /\ Tail(EnsureRest) = GnssPoll
  /\ PowerRest # <<>> /\ Head(PowerRest) = Must("CGNSSPWR=1", <<>>)
<1>1. PICK S : S = PlainSteps
  OBVIOUS
<1>2. PICK poll \in Seq(S) : poll = GnssPoll
  BY <1>1, GnssScripts
<1>3. PICK c \in S : c = Must("CGDRT", <<>>)
  BY <1>1, RestartTyped
<1>4. PICK d \in S : d = Must("CGSETV", <<>>)
  BY <1>1, RestartTyped
<1>5. PICK e \in S : e = EnsureStep
  BY <1>1, RestartTyped
<1>6. /\ <<c, d, e>> \o poll # <<>> /\ Head(<<c, d, e>> \o poll) = c
       /\ Tail(<<c, d, e>> \o poll) = <<d, e>> \o poll
  <2>1. <<c, d, e>> \o poll # <<>> /\ Head(<<c, d, e>> \o poll) = c
    BY TripleThenFacts
  <2>2. Tail(<<c, d, e>> \o poll) = <<d, e>> \o poll
    BY TripleThenFacts
  <2> QED
    BY <2>1, <2>2
<1>7. /\ <<d, e>> \o poll # <<>> /\ Head(<<d, e>> \o poll) = d
       /\ Tail(<<d, e>> \o poll) = <<e>> \o poll
  BY PairThenFacts
<1>8. /\ <<e>> \o poll # <<>> /\ Head(<<e>> \o poll) = e /\ Tail(<<e>> \o poll) = poll
  BY ThenFacts
<1>9. PICK ensuring \in Seq(S) : ensuring = EnsurePowered
  BY <1>1, GnssScripts
<1>10. PICK a \in S : a = CycleStep
  BY <1>1, RestartTyped
<1>11. PICK b \in S : b = Must("CGNSSPWR=0", <<>>)
  BY <1>1, RestartTyped
<1>12. PICK f \in S : f = Must("CGNSSPWR=1", <<>>)
  BY <1>1, RestartTyped
<1>13. PICK g \in S : g = May("CGNSSMODE=3")
  BY <1>1, RestartTyped
<1>14. /\ ensuring = <<c, d, e>> /\ PowerOn = <<f, g>> /\ Tail(ensuring) = <<d, e>>
       /\ RouteRest = ensuring \o poll /\ VoltRest = <<d, e>> \o poll
       /\ EnsureRest = <<e>> \o poll /\ PowerRest = <<f, g>> \o poll
  <2>1. EnsurePowered = <<c, d, e>>
    BY <1>3, <1>4, <1>5 DEF EnsurePowered, EnsureStep
  <2>2. Tail(<<c, d, e>>) = <<d, e>>
    OBVIOUS
  <2>3. Tail(EnsurePowered) = <<d, e>>
    BY <2>1, <2>2
  <2>4. RouteRest = ensuring \o poll
    BY <1>2, <1>9 DEF RouteRest
  <2>5. VoltRest = <<d, e>> \o poll
    BY <1>2, <2>3 DEF VoltRest
  <2>6. EnsureRest = <<e>> \o poll
    BY <1>2, <1>5 DEF EnsureRest, EnsureStep
  <2>7. PowerOn = <<f, g>>
    BY <1>12, <1>13 DEF PowerOn
  <2>8. PowerRest = <<f, g>> \o poll
    BY <1>2, <2>7 DEF PowerRest
  <2> QED
    BY <1>9, <2>1, <2>3, <2>4, <2>5, <2>6, <2>7, <2>8
<1>15. RouteRest \in Seq(S)
  <2>1. ensuring \o poll \in Seq(S)
    BY JoinFacts
  <2> QED
    BY <1>14, <2>1
<1>16. PICK routing \in Seq(S) : routing = RouteRest
  BY <1>15
<1>17. CycleRest = <<a>> \o routing /\ OffRest = <<b>> \o routing
  <2>1. GnssRestart = <<a>> \o ensuring
    BY <1>9, <1>10 DEF GnssRestart, CycleStep
  <2>2. (<<a>> \o ensuring) \o poll = <<a>> \o (ensuring \o poll)
    <3>1. <<a>> \in Seq(S)
      OBVIOUS
    <3> QED
      BY <3>1, JoinedTwice
  <2>3. CycleRest = (<<a>> \o ensuring) \o poll
    BY <1>2, <2>1 DEF CycleRest
  <2>4. CycleRest = <<a>> \o routing
    BY <1>14, <1>16, <2>2, <2>3, Zenon
  <2>5. OffRest = <<b>> \o routing
    BY <1>11, <1>16 DEF OffRest, RouteRest
  <2> QED
    BY <2>4, <2>5
<1>18. /\ <<a>> \o routing # <<>> /\ Head(<<a>> \o routing) = a /\ Tail(<<a>> \o routing) = routing
  BY ThenFacts
<1>19. /\ <<b>> \o routing # <<>> /\ Head(<<b>> \o routing) = b /\ Tail(<<b>> \o routing) = routing
  BY ThenFacts
<1>20. <<f, g>> \o poll # <<>> /\ Head(<<f, g>> \o poll) = f
  BY PairThenFacts
<1>21. CycleRest # <<>> /\ Head(CycleRest) = CycleStep /\ Tail(CycleRest) = RouteRest
  BY <1>10, <1>16, <1>17, <1>18, Zenon
<1>22. OffRest # <<>> /\ Head(OffRest) = Must("CGNSSPWR=0", <<>>) /\ Tail(OffRest) = RouteRest
       /\ OffRest = <<Must("CGNSSPWR=0", <<>>)>> \o RouteRest
  BY <1>11, <1>16, <1>17, <1>19, Zenon
<1>23. RouteRest # <<>> /\ Head(RouteRest) = Must("CGDRT", <<>>) /\ Tail(RouteRest) = VoltRest
  BY <1>3, <1>14, <1>6, Zenon
<1>24. VoltRest # <<>> /\ Head(VoltRest) = Must("CGSETV", <<>>) /\ Tail(VoltRest) = EnsureRest
  BY <1>4, <1>14, <1>7, Zenon
<1>25. EnsureRest # <<>> /\ Head(EnsureRest) = EnsureStep /\ Tail(EnsureRest) = GnssPoll
  BY <1>2, <1>5, <1>14, <1>8, Zenon
<1>26. PowerRest # <<>> /\ Head(PowerRest) = Must("CGNSSPWR=1", <<>>)
  BY <1>12, <1>14, <1>20, Zenon
<1> QED
  BY <1>21, <1>22, <1>23, <1>24, <1>25, <1>26

\* What a staged dialog has left is staged again, when the steps that were taken are done.
LEMMA StagedFollow ==
  ASSUME todo # <<>>, dev \in DevSet, Staged(todo), NEW good \in BOOLEAN,
         got \in LineSet \cup {NoLine},
         good => Done(Head(todo).cmd), got.of = "CGNSSPWR?" => AsksPower(got.v)
  PROVE  /\ Follow(good) = <<>> => Decides(good)
         /\ Follow(good) # <<>> => Staged(Follow(good)) /\ Head(Follow(good)).cmd # "AT"
<1>1. CASE todo = CycleRest
  <2>1. Head(todo).cmd = "CGNSSPWR?" /\ Head(todo).role = "cycle" /\ Tail(todo) = RouteRest
    BY <1>1, RestartRests, RestartSteps
  <2>2. CASE ~good \/ got.of # "CGNSSPWR?"
    <3>1. Follow(good) = <<>> /\ Decides(good)
      BY <2>1, <2>2 DEF Follow, Decides
    <3> QED
      BY <3>1
  <2>3. CASE good /\ got.of = "CGNSSPWR?" /\ got.v
    <3>1. Follow(good) = <<Must("CGNSSPWR=0", <<>>)>> \o RouteRest
      BY <2>1, <2>3 DEF Follow
    <3>2. Follow(good) = OffRest
      BY <3>1, RestartRests, Zenon
    <3> QED
      BY <3>2, RestartRests, RestartSteps DEF Staged
  <2>4. CASE good /\ got.of = "CGNSSPWR?" /\ ~got.v
    <3>1. Follow(good) = RouteRest
      BY <2>1, <2>4 DEF Follow
    <3>2. dev.power = "off"
      BY <2>4 DEF AsksPower, DevSet
    <3> QED
      BY <3>1, <3>2, RestartRests, RestartSteps DEF Staged
  <2> QED
    BY <2>2, <2>3, <2>4
<1>2. ASSUME NEW cmd, NEW next, Head(todo).cmd = cmd, Head(todo).role = "must",
             Head(todo).undo = <<>>, Tail(todo) = next, next # <<>>, Head(next).cmd # "AT",
             good => Staged(next)
      PROVE  /\ Follow(good) = <<>> => Decides(good)
             /\ Follow(good) # <<>> => Staged(Follow(good)) /\ Head(Follow(good)).cmd # "AT"
  BY <1>2, FollowByRole
<1>3. CASE todo = OffRest
  BY <1>2, <1>3, RestartRests, RestartSteps DEF Staged, Done
<1>4. CASE dev.power = "off" /\ todo = RouteRest
  BY <1>2, <1>4, RestartRests, RestartSteps DEF Staged, Done
<1>5. CASE dev.power = "off" /\ dev.route = "on" /\ todo = VoltRest
  BY <1>2, <1>5, RestartRests, RestartSteps DEF Staged, Done
<1>6. CASE dev.power = "off" /\ dev.route = "on" /\ dev.volt = "on" /\ todo = EnsureRest
  <2>1. Head(todo).cmd = "CGNSSPWR?" /\ Head(todo).role = "ensure" /\ Tail(todo) = GnssPoll
    BY <1>6, RestartRests, RestartSteps
  <2>2. ~SaysOn(Head(todo).cmd)
    BY <1>6, <2>1 DEF SaysOn, AsksPower
  <2>3. Follow(good) = PowerOn \o GnssPoll
    BY <2>1, <2>2 DEF Follow
  <2>4. Follow(good) = PowerRest
    BY <2>3 DEF PowerRest
  <2> QED
    BY <1>6, <2>4, RestartRests, RestartSteps DEF Staged
<1>7. CASE dev.power = "off" /\ todo = PowerRest
  <2>1. Head(todo).cmd = "CGNSSPWR=1" /\ Head(todo).role = "must" /\ Head(todo).undo = <<>>
    BY <1>7, RestartRests, RestartSteps
  <2>2. ~good
    BY <1>7, <2>1 DEF Done
  <2>3. Follow(good) = <<>> /\ Decides(good)
    BY <2>1, <2>2, FollowByRole
  <2> QED
    BY <2>3
<1> QED
  BY <1>1, <1>3, <1>4, <1>5, <1>6, <1>7 DEF Staged

\* Of a restart nothing is read but what the current command is answered with, as long
\* as no answer is late.
LEMMA PowerEnds ==
  ASSUME LinesTyped, PowerLines, Finals = {}
  PROVE  \A i \in 1 .. Len(line) :
           line[i].t \notin {"ok", "error"} => line[i].of # "CGNSSPWR?"
<1> SUFFICES ASSUME NEW i \in 1 .. Len(line), line[i].t \notin {"ok", "error"},
                    line[i].of = "CGNSSPWR?"
             PROVE  FALSE
  OBVIOUS
<1>1. PICK j \in i + 1 .. Len(line) : line[j].t \in {"ok", "error", "prompt"}
  BY DEF PowerLines
<1>2. j \in 1 .. Len(line)
  BY DEF LinesTyped
<1> QED
  BY <1>1, <1>2 DEF Finals

LEMMA PowerUnread ==
  ASSUME LinesTyped, LinesTyped', PowerLines, Finals' = {}, Purge \/ line' = line,
         got' = NoLine
  PROVE  PowerLines'
<1>1. CASE Purge
  <2>1. PICK n \in 0 .. Len(line) :
          /\ Len(line') = Len(line) - n /\ Len(line) \in Nat /\ Len(line') \in Nat
          /\ \A i \in 1 .. Len(line') : i + n \in 1 .. Len(line) /\ line'[i] = line[i + n]
    BY <1>1, PurgeFacts
  <2>2. ASSUME NEW i \in 1 .. Len(line'), line'[i].t \notin {"ok", "error"},
               line'[i].of = "CGNSSPWR?"
        PROVE  FALSE
    <3>1. i + n \in 1 .. Len(line) /\ line[i + n].t \notin {"ok", "error"}
          /\ line[i + n].of = "CGNSSPWR?"
      BY <2>1, <2>2
    <3>2. PICK j \in i + n + 1 .. Len(line) : line[j].t \in {"ok", "error", "prompt"}
      BY <3>1 DEF PowerLines
    <3>3. j - n \in 1 .. Len(line') /\ (j - n) + n = j
      BY <2>1, <3>2
    <3>4. j - n \in Finals'
      BY <2>1, <3>2, <3>3 DEF Finals
    <3> QED
      BY <3>4
  <2>3. got'.of # "CGNSSPWR?"
    BY DEF NoLine, Line
  <2> QED
    BY <2>2, <2>3 DEF PowerLines
<1>2. CASE line' = line
  <2>1. Finals = {}
    BY <1>2 DEF Finals
  <2>2. \A i \in 1 .. Len(line) :
          line[i].t \notin {"ok", "error"} => line[i].of # "CGNSSPWR?"
    BY <2>1, PowerEnds
  <2>3. got'.of # "CGNSSPWR?"
    BY DEF NoLine, Line
  <2> QED
    BY <1>2, <2>2, <2>3 DEF PowerLines
<1> QED
  BY <1>1, <1>2

\* A step ends, and the dialog goes on with `left' or ends.
LEMMA ProceedPrepared ==
  ASSUME Typed, Typed', Prepared, NEW left, NEW fails \in BOOLEAN, Proceed(left, fails),
         dev' = dev, Finals' = {}, Purge \/ line' = line,
         ~dev.biased /\ Kind = "gnss" => (left = <<>> => fails),
         ~dev.biased /\ Kind = "gnss" => (left # <<>> => Staged(left) /\ Head(left).cmd # "AT")
  PROVE  Prepared'
<1>1. LinesTyped /\ LinesTyped' /\ ClientTyped
  BY DEF Typed
<1>2. /\ todo' = left /\ phase' = (IF left = <<>> THEN "idle" ELSE "send") /\ got' = NoLine
      /\ kinds' = kinds /\ ok' = (ok /\ ~fails)
      /\ gnss' = (IF Kind = "gnss" /\ left = <<>>
                  THEN IF ok' THEN "present" ELSE "absent" ELSE gnss)
      /\ restartRequired' =
           (restartRequired /\ ~(Kind = "gnss" /\ left # <<>> /\ Head(left).cmd = "AT"))
  BY DEF Proceed
<1>3. Unread' /\ Achieved'
  BY <1>2 DEF Unread, Achieved
<1>4. PowerLines'
  BY <1>1, <1>2, PowerUnread DEF Prepared
<1>5. Restarts'
  <2> SUFFICES ASSUME ~dev.biased
               PROVE  /\ restartRequired' /\ gnss' # "present"
                      /\ todo' # <<>> /\ Kind' = "gnss" => Staged(todo)'
    BY DEF Restarts
  <2>1. restartRequired /\ gnss # "present"
    BY DEF Prepared, Restarts
  <2>2. Kind' = Kind
    BY <1>2 DEF Kind
  <2>3. CASE Kind # "gnss"
    BY <1>2, <2>1, <2>2, <2>3
  <2>4. CASE Kind = "gnss" /\ left = <<>>
    <3>1. fails
      BY <2>4
    <3>2. ~ok'
      BY <1>2, <3>1, Zenon
    <3> QED
      BY <1>2, <2>1, <2>4, <3>2
  <2>5. CASE Kind = "gnss" /\ left # <<>>
    <3>1. Staged(left) /\ Head(left).cmd # "AT"
      BY <2>5
    <3>2. Staged(todo)'
      BY <1>2, <3>1 DEF Staged
    <3> QED
      BY <1>2, <2>1, <2>5, <3>1, <3>2
  <2> QED
    BY <2>3, <2>4, <2>5
<1> QED
  BY <1>3, <1>4, <1>5 DEF Prepared

LEMMA FollowPrepared ==
  ASSUME Typed, Typed', Prepared, todo # <<>>, NEW good \in BOOLEAN,
         Proceed(Follow(good), Decides(good)), good => Done(Head(todo).cmd),
         dev' = dev, Finals' = {}, Purge \/ line' = line
  PROVE  Prepared'
<1>1. dev \in DevSet /\ got \in LineSet \cup {NoLine}
  BY DEF Typed, ModemTyped, ClientTyped
<1>2. got.of = "CGNSSPWR?" => AsksPower(got.v)
  BY DEF Prepared, PowerLines
<1>3. PICK left : left = Follow(good)
  OBVIOUS
<1>4. PICK fails \in BOOLEAN : fails = Decides(good)
  BY DEF Decides
<1>5. Proceed(left, fails)
  BY <1>3, <1>4
<1>6. ASSUME ~dev.biased, Kind = "gnss"
      PROVE  /\ left = <<>> => fails
             /\ left # <<>> => Staged(left) /\ Head(left).cmd # "AT"
  <2>1. Staged(todo)
    BY <1>6 DEF Prepared, Restarts
  <2> QED
    BY <1>1, <1>2, <1>3, <1>4, <2>1, StagedFollow
<1> QED
  BY <1>5, <1>6, ProceedPrepared

\* A line is read that ends nothing.
LEMMA WaitPrepared ==
  ASSUME Typed, Typed', Prepared, line # <<>>, line' = Tail(line),
         kinds' = kinds, todo' = todo, phase' = phase, dev' = dev, tx' = tx,
         gnss' = gnss, restartRequired' = restartRequired,
         got' = got \/ (got' = Head(line) /\ Head(line).t \notin {"ok", "error"})
  PROVE  Prepared'
<1>1. LinesTyped /\ LinesTyped'
  BY DEF Typed
<1>2. /\ Len(line') = Len(line) - 1 /\ Len(line) \in Nat \ {0} /\ Head(line) = line[1]
      /\ Len(line') \in Nat /\ \A i \in 1 .. Len(line') : line'[i] = line[i + 1]
  <2>1. /\ Len(line') = Len(line) - 1 /\ Len(line) \in Nat \ {0} /\ Head(line) = line[1]
        /\ \A i \in 1 .. Len(line') : line'[i] = line[i + 1]
    BY <1>1, TailFacts DEF LinesTyped
  <2> QED
    BY <2>1
<1>3. \A i \in 1 .. Len(line') : i + 1 \in 1 .. Len(line)
  BY <1>2
<1>4. Unread /\ Achieved /\ PowerLines /\ Restarts
  BY DEF Prepared
<1>5. Unread'
  BY <1>4 DEF Unread
<1>6. Achieved'
  BY <1>2, <1>3, <1>4 DEF Achieved, Done
<1>7. PowerLines'
  <2>1. ASSUME NEW i \in 1 .. Len(line'), line'[i].t \notin {"ok", "error"},
               line'[i].of = "CGNSSPWR?"
        PROVE  /\ AsksPower(line'[i].v)
               /\ \E j \in i + 1 .. Len(line') : line'[j].t \in {"ok", "error", "prompt"}
    <3>1. i + 1 \in 1 .. Len(line) /\ line[i + 1] = line'[i]
      BY <1>2, <1>3
    <3>2. AsksPower(line[i + 1].v)
          /\ \E j \in (i + 1) + 1 .. Len(line) : line[j].t \in {"ok", "error", "prompt"}
      BY <1>4, <2>1, <3>1 DEF PowerLines
    <3>3. PICK j \in (i + 1) + 1 .. Len(line) : line[j].t \in {"ok", "error", "prompt"}
      BY <3>2
    <3>4. j - 1 \in i + 1 .. Len(line') /\ j - 1 \in 1 .. Len(line') /\ (j - 1) + 1 = j
      BY <1>2, <3>3
    <3> QED
      BY <1>2, <3>1, <3>2, <3>3, <3>4
  <2>2. got'.of = "CGNSSPWR?" => AsksPower(got'.v)
    <3>1. 1 \in 1 .. Len(line)
      BY <1>2
    <3> QED
      BY <1>2, <1>4, <3>1 DEF PowerLines
  <2> QED
    BY <2>1, <2>2 DEF PowerLines, AsksPower
<1>8. Restarts'
  BY <1>4 DEF Restarts, Staged, Kind
<1> QED
  BY <1>5, <1>6, <1>7, <1>8 DEF Prepared

\* A command is written, or its reply awaited though it is not.
LEMMA WrittenPrepared ==
  ASSUME Typed, Typed', Credited, used.late = 0, Prepared, phase = "send", Purge,
         phase' \in {"prompt", "reply"},
         tx' = tx \/ tx' = Append(tx, Written(Head(todo).cmd, Msg, Head(todo).part)),
         kinds' = kinds, todo' = todo, got' = got, dev' = dev, gnss' = gnss,
         restartRequired' = restartRequired
  PROVE  Prepared'
<1>1. ClientTyped /\ LinesTyped /\ LinesTyped' /\ WritesTyped
  BY DEF Typed
<1>2. Unread /\ Achieved /\ PowerLines /\ Restarts
  BY DEF Prepared
<1>3. Finals = {} /\ Pending = 0
  BY AnswerInTime DEF Waiting
<1>4. PICK n \in 0 .. Len(line) :
        \A i \in 1 .. Len(line') : i + n \in 1 .. Len(line) /\ line'[i] = line[i + n]
  BY <1>1, PurgeFacts
<1>5. Unread'
  <2> SUFFICES ASSUME dev.input = NoInput, NEW k \in 1 .. Len(tx')
               PROVE  tx'[k].cmd = Head(todo).cmd
    BY DEF Unread
  <2>1. Len(tx) = 0
    BY <1>3 DEF Pending
  <2>2. tx' # tx
    BY <2>1
  <2>3. todo # <<>> /\ Head(todo).cmd \in Commands
    BY <1>1, BusyTodo, SubmitPart
  <2>4. PICK w \in WriteSet : w = Written(Head(todo).cmd, Msg, Head(todo).part)
                              /\ w.cmd = Head(todo).cmd
    BY <1>1, <2>3, WrittenFacts
  <2>5. tx' = Append(tx, w)
    BY <2>2, <2>4
  <2>6. (k \in 1 .. Len(tx) /\ tx'[k] = tx[k]) \/ (k = Len(tx') /\ tx'[k] = w)
    BY <1>1, <2>5, TxGrows
  <2> QED
    BY <2>1, <2>4, <2>6
<1>6. Achieved'
  BY <1>3, <1>4 DEF Achieved, Finals
<1>7. PowerLines'
  <2>1. \A i \in 1 .. Len(line) : line[i].t \notin {"ok", "error"} => line[i].of # "CGNSSPWR?"
    BY <1>2 DEF PowerLines, AsksPower
  <2>2. \A i \in 1 .. Len(line') :
          line'[i].t \notin {"ok", "error"} => line'[i].of # "CGNSSPWR?"
    BY <1>4, <2>1
  <2>3. got'.of # "CGNSSPWR?"
    BY <1>2 DEF PowerLines, AsksPower
  <2> QED
    BY <2>2, <2>3 DEF PowerLines
<1>8. Restarts'
  BY <1>2 DEF Restarts, Staged, Kind
<1> QED
  BY <1>5, <1>6, <1>7, <1>8 DEF Prepared

\* The prompt is read, and the text written.
LEMMA PromptReadPrepared ==
  ASSUME Typed, Typed', Prepared, AwaitPrompt, Head(line).t = "prompt"
  PROVE  Prepared'
<1>1. LinesTyped
  BY DEF Typed
<1>2. Unread /\ Achieved /\ PowerLines /\ Restarts
  BY DEF Prepared
<1>3. /\ phase = "prompt" /\ line # <<>> /\ line' = Tail(line) /\ phase' = "confirm"
      /\ kinds' = kinds /\ todo' = todo /\ got' = got /\ dev' = dev /\ gnss' = gnss
      /\ restartRequired' = restartRequired
  BY DEF AwaitPrompt, modemVars
<1>4. Unread' /\ Achieved'
  BY <1>3 DEF Unread, Achieved
<1>5. PowerLines'
  <2>1. PICK n \in 0 .. Len(line) :
          \A i \in 1 .. Len(line') : i + n \in 1 .. Len(line) /\ line'[i] = line[i + n]
    BY <1>1, <1>3, ReadPurges, PurgeFacts
  <2>2. \A i \in 1 .. Len(line) : line[i].t \notin {"ok", "error"} => line[i].of # "CGNSSPWR?"
    BY <1>2, <1>3 DEF PowerLines, AsksPower
  <2>3. \A i \in 1 .. Len(line') :
          line'[i].t \notin {"ok", "error"} => line'[i].of # "CGNSSPWR?"
    BY <2>1, <2>2
  <2>4. got'.of # "CGNSSPWR?"
    BY <1>2, <1>3 DEF PowerLines, AsksPower
  <2> QED
    BY <2>3, <2>4 DEF PowerLines
<1>6. Restarts'
  BY <1>2, <1>3 DEF Restarts, Staged, Kind
<1> QED
  BY <1>4, <1>5, <1>6 DEF Prepared

\* A dialog starts.
LEMMA StartPrepared ==
  ASSUME Typed, Typed', Prepared, NEW kind \in Kinds, Start(kind)
  PROVE  Prepared'
<1>1. ClientTyped
  BY DEF Typed
<1>2. Unread /\ Achieved /\ PowerLines /\ Restarts
  BY DEF Prepared
<1>3. /\ phase = "idle" /\ phase' = "send" /\ todo' = Script(kind)
      /\ kinds' = Append(kinds, kind) /\ got' = got /\ tx' = tx /\ line' = line /\ dev' = dev
      /\ gnss' = gnss /\ restartRequired' = restartRequired
  BY DEF Start, modemVars
<1>4. Kind' = kind
  <2>1. kinds \in Seq(Kinds)
    BY <1>1 DEF ClientTyped
  <2>2. Len(kinds') = Len(kinds) + 1 /\ kinds'[Len(kinds) + 1] = kind
    BY <1>3, <2>1, AppendFacts
  <2> QED
    BY <2>2 DEF Kind, Last
<1>5. Unread' /\ Achieved' /\ PowerLines'
  BY <1>2, <1>3 DEF Unread, Achieved, PowerLines, AsksPower
<1>6. Restarts'
  <2> SUFFICES ASSUME ~dev.biased
               PROVE  /\ restartRequired' /\ gnss' # "present"
                      /\ todo' # <<>> /\ Kind' = "gnss" => Staged(todo)'
    BY <1>3 DEF Restarts
  <2>1. restartRequired /\ gnss # "present"
    BY <1>2 DEF Restarts
  <2>2. ASSUME kind = "gnss" PROVE Staged(todo)'
    <3>1. Script(kind) = GnssRestart \o GnssPoll
      BY <2>1, <2>2 DEF Script
    <3>2. todo' = CycleRest
      BY <1>3, <3>1 DEF CycleRest
    <3> QED
      BY <3>2 DEF Staged
  <2> QED
    BY <1>3, <1>4, <2>1, <2>2
<1> QED
  BY <1>5, <1>6 DEF Prepared

\* A report comes between the lines.
LEMMA UrcPrepared ==
  ASSUME Typed, Typed', Prepared, Urc
  PROVE  Prepared'
<1>1. LinesTyped /\ LinesTyped'
  BY DEF Typed
<1>2. Unread /\ Achieved /\ PowerLines /\ Restarts
  BY DEF Prepared
<1>3. /\ kinds' = kinds /\ todo' = todo /\ phase' = phase /\ got' = got /\ dev' = dev
      /\ tx' = tx /\ gnss' = gnss /\ restartRequired' = restartRequired
  BY DEF Urc, clientVars, modemVars
<1>4. PICK n \in 1 .. Len(line) + 1, e \in LineSet :
        e.t = "data" /\ e.of = "urc" /\ line' = InsertAt(line, n, e)
  BY UrcInserts
<1>5. line \in Seq(LineSet)
  BY <1>1 DEF LinesTyped
<1>6. Len(line) \in Nat /\ Len(line') = Len(line) + 1
  BY <1>4, <1>5, InsertFacts
<1>7. line'[n] = e
  BY <1>4, <1>5, InsertFacts
<1>8. \A i \in 1 .. n - 1 : line'[i] = line[i]
  BY <1>4, <1>5, InsertFacts
<1>9. \A i \in n .. Len(line) : line'[i + 1] = line[i]
  BY <1>4, <1>5, InsertFacts
<1>10. ASSUME NEW i \in 1 .. Len(line)
       PROVE  \E k \in 1 .. Len(line') :
                /\ line'[k] = line[i] /\ k # n /\ k = (IF i < n THEN i ELSE i + 1)
  <2>1. CASE i < n
    BY <1>6, <1>8, <2>1
  <2>2. CASE ~(i < n)
    <3>1. i \in n .. Len(line) /\ i + 1 \in 1 .. Len(line') /\ i + 1 # n
      BY <1>6, <2>2
    <3> QED
      BY <1>9, <2>2, <3>1
  <2> QED
    BY <2>1, <2>2
<1>11. ASSUME NEW k \in 1 .. Len(line'), k # n
       PROVE  \E i \in 1 .. Len(line) : line'[k] = line[i] /\ k = (IF i < n THEN i ELSE i + 1)
  <2>1. CASE k < n
    BY <1>6, <1>8, <2>1
  <2>2. CASE ~(k < n)
    <3>1. k - 1 \in n .. Len(line) /\ (k - 1) + 1 = k /\ k - 1 \in 1 .. Len(line)
      BY <1>6, <1>11, <2>2
    <3>2. ~(k - 1 < n)
      BY <1>6, <3>1
    <3> QED
      BY <1>9, <3>1, <3>2
  <2> QED
    BY <2>1, <2>2
<1>12. Unread'
  BY <1>2, <1>3 DEF Unread
<1>13. Achieved'
  <2> SUFFICES ASSUME phase = "reply", NEW k \in 1 .. Len(line'), line'[k].t = "ok"
               PROVE  Done(Head(todo).cmd)
    BY <1>3 DEF Achieved, Done
  <2>1. k # n
    BY <1>4, <1>7
  <2>2. \E i \in 1 .. Len(line) : line[i].t = "ok"
    BY <1>11, <2>1
  <2> QED
    BY <1>2, <2>2 DEF Achieved
<1>14. PowerLines'
  <2>1. ASSUME NEW k \in 1 .. Len(line'), line'[k].t \notin {"ok", "error"},
               line'[k].of = "CGNSSPWR?"
        PROVE  /\ AsksPower(line'[k].v)
               /\ \E j \in k + 1 .. Len(line') : line'[j].t \in {"ok", "error", "prompt"}
    <3>1. k # n
      BY <1>4, <1>7, <2>1
    <3>2. PICK i \in 1 .. Len(line) : line'[k] = line[i] /\ k = (IF i < n THEN i ELSE i + 1)
      BY <1>11, <3>1
    <3>3. AsksPower(line[i].v)
          /\ \E j \in i + 1 .. Len(line) : line[j].t \in {"ok", "error", "prompt"}
      BY <1>2, <2>1, <3>2 DEF PowerLines
    <3>4. PICK j \in i + 1 .. Len(line) : line[j].t \in {"ok", "error", "prompt"}
      BY <3>3
    <3>5. j \in 1 .. Len(line) /\ i < j
      BY <1>6, <3>4
    <3>6. PICK m \in 1 .. Len(line') : line'[m] = line[j] /\ m = (IF j < n THEN j ELSE j + 1)
      BY <1>10, <3>5
    <3>7. m \in k + 1 .. Len(line')
      BY <1>6, <3>2, <3>5, <3>6
    <3> QED
      BY <3>2, <3>3, <3>4, <3>6, <3>7
  <2> QED
    BY <1>2, <1>3, <2>1 DEF PowerLines, AsksPower
<1>15. Restarts'
  BY <1>2, <1>3 DEF Restarts, Staged, Kind
<1> QED
  BY <1>12, <1>13, <1>14, <1>15 DEF Prepared

\* The modem reads something that has nothing to do with the receiver.
LEMMA StandingPrepared ==
  ASSUME Typed, Typed', Prepared, UNCHANGED clientVars, tx # <<>>, tx' = Tail(tx),
         dev'.biased = dev.biased, dev'.power = dev.power, dev'.route = dev.route,
         dev'.volt = dev.volt, dev'.input = NoInput => dev.input = NoInput \/ phase # "reply",
         Len(line') >= Len(line), \A i \in 1 .. Len(line) : line'[i] = line[i],
         \A i \in 1 .. Len(line') :
           \/ i \in 1 .. Len(line)
           \/ line'[i].t = "error" \/ (line'[i].t = "ok" /\ phase # "reply")
           \/ (line'[i].t \in {"prompt", "cmgs"} /\ line'[i].of # "CGNSSPWR?")
  PROVE  Prepared'
<1>1. LinesTyped /\ LinesTyped' /\ WritesTyped
  BY DEF Typed
<1>2. Unread /\ Achieved /\ PowerLines /\ Restarts
  BY DEF Prepared
<1>3. /\ kinds' = kinds /\ todo' = todo /\ phase' = phase /\ got' = got
      /\ gnss' = gnss /\ restartRequired' = restartRequired
  BY DEF clientVars
<1>4. Unread'
  <2>1. \A k \in 1 .. Len(tx') : k + 1 \in 1 .. Len(tx) /\ tx'[k] = tx[k + 1]
    BY <1>1, TxShrinks
  <2> QED
    BY <1>2, <1>3, <2>1 DEF Unread
<1>5. Achieved'
  <2> SUFFICES ASSUME phase = "reply", NEW i \in 1 .. Len(line'), line'[i].t = "ok"
               PROVE  Done(Head(todo).cmd)
    BY <1>3 DEF Achieved, Done
  <2>1. i \in 1 .. Len(line)
    OBVIOUS
  <2> QED
    BY <1>2, <2>1 DEF Achieved
<1>6. PowerLines'
  <2>1. ASSUME NEW i \in 1 .. Len(line'), line'[i].t \notin {"ok", "error"},
               line'[i].of = "CGNSSPWR?"
        PROVE  /\ AsksPower(line'[i].v)
               /\ \E j \in i + 1 .. Len(line') : line'[j].t \in {"ok", "error", "prompt"}
    <3>1. i \in 1 .. Len(line) /\ line'[i] = line[i]
      BY <2>1
    <3>2. AsksPower(line[i].v)
          /\ \E j \in i + 1 .. Len(line) : line[j].t \in {"ok", "error", "prompt"}
      BY <1>2, <2>1, <3>1 DEF PowerLines
    <3>3. PICK j \in i + 1 .. Len(line) : line[j].t \in {"ok", "error", "prompt"}
      BY <3>2
    <3>4. j \in 1 .. Len(line) /\ j \in i + 1 .. Len(line')
      BY <1>1, <3>3 DEF LinesTyped
    <3> QED
      BY <3>1, <3>2, <3>3, <3>4
  <2> QED
    BY <1>2, <1>3, <2>1 DEF PowerLines, AsksPower
<1>7. Restarts'
  BY <1>2, <1>3 DEF Restarts, Staged, Kind
<1> QED
  BY <1>4, <1>5, <1>6, <1>7 DEF Prepared

\* What a command does to the receiver.
LEMMA EffectOnReceiver ==
  ASSUME dev \in DevSet, NEW cmd, dev' = Effect(cmd)
  PROVE  /\ dev'.route = (IF cmd = "CGDRT" THEN "on" ELSE dev.route)
         /\ dev'.volt = (IF cmd = "CGSETV" THEN "on" ELSE dev.volt)
         /\ cmd = "CGNSSPWR=0" => dev'.power = "off"
         /\ cmd = "CGNSSPWR=1" => dev'.power = "on"
         /\ cmd \notin {"CGNSSPWR=0", "CGNSSPWR=1"} => dev'.power = dev.power
         /\ cmd = "CGNSSPWR=1" /\ dev.power = "off" =>
              (dev'.biased <=> dev.route = "on" /\ dev.volt = "on")
         /\ ~(cmd = "CGNSSPWR=1" /\ dev.power = "off") => dev'.biased = dev.biased
BY DEF Effect, DevSet

\* A command is read and answered.
LEMMA CommandPrepared ==
  ASSUME Typed, Typed', Credited, used.late = 0, Prepared, Supplied, tx # <<>>, tx' = Tail(tx),
         UNCHANGED clientVars, phase = "reply", dev.input = NoInput, Command(Head(tx))
  PROVE  Prepared'
<1>1. ClientTyped /\ LinesTyped /\ WritesTyped /\ dev \in DevSet
  BY DEF Typed, ModemTyped
<1>2. Unread /\ Achieved /\ PowerLines /\ Restarts
  BY DEF Prepared
<1>3. /\ kinds' = kinds /\ todo' = todo /\ phase' = phase /\ got' = got
      /\ gnss' = gnss /\ restartRequired' = restartRequired
  BY DEF clientVars
<1>4. todo # <<>> /\ Head(todo).cmd \in Commands
  BY <1>1, BusyTodo, SubmitPart
<1>5. /\ Len(tx') = Len(tx) - 1 /\ Len(tx) \in Nat \ {0} /\ Head(tx) = tx[1] /\ 1 \in 1 .. Len(tx)
  BY <1>1, TxShrinks
<1>6. Finals = {} /\ Len(tx) = 1
  <2>1. Pending = Len(tx)
    BY DEF Pending
  <2> QED
    BY <1>5, <2>1, AnswerInTime
<1>7. Len(tx') = 0 /\ Head(tx).cmd = Head(todo).cmd
  BY <1>2, <1>5, <1>6 DEF Unread
<1>8. PICK cmd \in Commands : cmd = Head(todo).cmd
  BY <1>4
<1>9. PICK answer \in Answers(cmd) : line' = line \o answer
  BY <1>7, <1>8 DEF Command
<1>10. dev' = Effect(cmd)
  BY <1>7, <1>8 DEF Command
<1>11. /\ dev'.route = (IF cmd = "CGDRT" THEN "on" ELSE dev.route)
       /\ dev'.volt = (IF cmd = "CGSETV" THEN "on" ELSE dev.volt)
       /\ cmd = "CGNSSPWR=0" => dev'.power = "off"
       /\ cmd = "CGNSSPWR=1" => dev'.power = "on"
       /\ cmd \notin {"CGNSSPWR=0", "CGNSSPWR=1"} => dev'.power = dev.power
       /\ cmd = "CGNSSPWR=1" /\ dev.power = "off" =>
            (dev'.biased <=> dev.route = "on" /\ dev.volt = "on")
       /\ ~(cmd = "CGNSSPWR=1" /\ dev.power = "off") => dev'.biased = dev.biased
  BY <1>1, <1>10, EffectOnReceiver
<1>12. /\ answer \in Seq(LineSet) /\ Len(answer) \in 1 .. 2
       /\ answer[Len(answer)].t = "ok"
       /\ \A i \in 1 .. Len(answer) :
            i = Len(answer)
            \/ (answer[i].t = "data" /\ answer[i].of = cmd /\ answer[i].v \in Says(cmd))
  BY <1>1, AnswerParts
<1>13. /\ Len(line') \in Finals' /\ line'[Len(line')] = answer[Len(answer)]
       /\ \A i \in Finals' : i = Len(line')
       /\ \A i \in 1 .. Len(line') :
            \/ i \in 1 .. Len(line) /\ line'[i] = line[i]
            \/ i = Len(line')
            \/ i + 1 \in 1 .. Len(line')
               /\ \E k \in 1 .. Len(answer) : k # Len(answer) /\ line'[i] = answer[k]
  <2>1. Len(answer) # 0
    <3>1. \A n \in 1 .. 2 : n # 0
      OBVIOUS
    <3> QED
      BY <1>12, <3>1, Zenon
  <2>2. \A i \in 1 .. Len(answer) : i = Len(answer) \/ answer[i].t \notin {"ok", "error", "prompt"}
    BY <1>12
  <2> QED
    BY <1>1, <1>6, <1>9, <1>12, <2>1, <2>2, AnswerTurns
<1>14. Unread'
  <2>1. \A k \in 1 .. 0 : FALSE
    OBVIOUS
  <2>2. \A k \in 1 .. Len(tx') : FALSE
    BY <1>7, <2>1, Zenon
  <2> QED
    BY <2>2 DEF Unread
<1>15. Achieved'
  BY <1>3, <1>8, <1>11 DEF Achieved, Done
<1>16. PowerLines'
  <2>1. \A i \in 1 .. Len(line) : line[i].t \notin {"ok", "error"} => line[i].of # "CGNSSPWR?"
    BY <1>1, <1>2, <1>6, PowerEnds
  <2>2. ASSUME NEW i \in 1 .. Len(line'), line'[i].t \notin {"ok", "error"},
               line'[i].of = "CGNSSPWR?"
        PROVE  /\ cmd = "CGNSSPWR?" /\ line'[i].v = (dev.power = "on")
               /\ \E j \in i + 1 .. Len(line') : line'[j].t \in {"ok", "error", "prompt"}
    <3>1. i # Len(line')
      BY <1>12, <1>13, <2>2
    <3>2. ~(i \in 1 .. Len(line) /\ line'[i] = line[i])
      BY <2>1, <2>2
    <3>3. PICK k \in 1 .. Len(answer) : k # Len(answer) /\ line'[i] = answer[k]
      BY <1>13, <3>1, <3>2
    <3>4. cmd = "CGNSSPWR?" /\ line'[i].v \in Says(cmd)
      BY <1>12, <2>2, <3>3
    <3>5. line'[i].v = (dev.power = "on")
      BY <3>4 DEF Says
    <3>6. Len(line') \in i + 1 .. Len(line')
      BY <1>1, <3>1 DEF Typed, LinesTyped
    <3>7. line'[Len(line')].t = "ok"
      BY <1>12, <1>13
    <3> QED
      BY <3>4, <3>5, <3>6, <3>7
  <2>3. cmd = "CGNSSPWR?" => dev'.power = dev.power
    BY <1>11
  <2>4. got.of = "CGNSSPWR?" => cmd = "CGNSSPWR?" /\ got.v = (dev.power = "on")
    BY <1>2, <1>8 DEF PowerLines, AsksPower
  <2>5. phase' = "reply" /\ Head(todo').cmd = cmd /\ got' = got
    BY <1>3, <1>8
  <2>6. got'.of = "CGNSSPWR?" =>
          phase' = "reply" /\ Head(todo').cmd = "CGNSSPWR?" /\ got'.v = (dev'.power = "on")
    BY <2>3, <2>4, <2>5
  <2>7. ASSUME NEW i \in 1 .. Len(line'), line'[i].t \notin {"ok", "error"},
               line'[i].of = "CGNSSPWR?"
        PROVE  /\ phase' = "reply" /\ Head(todo').cmd = "CGNSSPWR?"
               /\ line'[i].v = (dev'.power = "on")
               /\ \E j \in i + 1 .. Len(line') : line'[j].t \in {"ok", "error", "prompt"}
    BY <2>2, <2>3, <2>5, <2>7
  <2> QED
    BY <2>6, <2>7 DEF PowerLines, AsksPower
<1>17. dev.biased => dev'.biased
  BY <1>11 DEF Supplied
<1>18. Restarts'
  <2> SUFFICES ASSUME ~dev'.biased
               PROVE  /\ restartRequired' /\ gnss' # "present"
                      /\ todo' # <<>> /\ Kind' = "gnss" => Staged(todo)'
    BY DEF Restarts
  <2>1. restartRequired /\ gnss # "present" /\ (Kind = "gnss" => Staged(todo))
    BY <1>2, <1>4, <1>17 DEF Restarts
  <2>2. Kind' = Kind
    BY <1>3 DEF Kind
  <2>3. ASSUME Kind = "gnss" PROVE Staged(todo)'
    <3>1. CASE todo \in {CycleRest, OffRest}
      BY <1>3, <3>1 DEF Staged
    <3>2. CASE dev.power = "off" /\ todo = RouteRest
      <4>1. cmd = "CGDRT"
        BY <1>8, <3>2, RestartRests, RestartSteps
      <4> QED
        BY <1>3, <1>11, <3>2, <4>1 DEF Staged
    <3>3. CASE dev.power = "off" /\ todo = VoltRest /\ dev.route = "on"
      <4>1. cmd = "CGSETV"
        BY <1>8, <3>3, RestartRests, RestartSteps
      <4> QED
        BY <1>3, <1>11, <3>3, <4>1 DEF Staged
    <3>4. CASE dev.power = "off" /\ todo = EnsureRest /\ dev.route = "on" /\ dev.volt = "on"
      <4>1. cmd = "CGNSSPWR?"
        BY <1>8, <3>4, RestartRests, RestartSteps
      <4> QED
        BY <1>3, <1>11, <3>4, <4>1 DEF Staged
    <3>5. CASE dev.power = "off" /\ todo = PowerRest /\ dev.route = "on" /\ dev.volt = "on"
      <4>1. cmd = "CGNSSPWR=1"
        BY <1>8, <3>5, RestartRests, RestartSteps
      <4> QED
        BY <1>11, <3>5, <4>1
    <3> QED
      BY <2>1, <2>3, <3>1, <3>2, <3>3, <3>4, <3>5 DEF Staged
  <2> QED
    BY <1>3, <2>1, <2>2, <2>3
<1> QED
  BY <1>14, <1>15, <1>16, <1>18 DEF Prepared

\* An error is the answer, or nothing is.
LEMMA ErrorPrepared ==
  ASSUME Typed, Typed', Prompted, Prepared, UNCHANGED clientVars, tx # <<>>, tx' = Tail(tx),
         line' = line \/ line' = Append(line, Error(Head(tx).cmd)),
         dev'.biased = dev.biased, dev'.power = dev.power, dev'.route = dev.route,
         dev'.volt = dev.volt, dev'.input = NoInput => dev.input = NoInput \/ phase # "reply"
  PROVE  Prepared'
<1>1. LinesTyped /\ WritesTyped
  BY DEF Typed
<1>2. Len(line) \in Nat
  BY <1>1 DEF LinesTyped
<1>3. CASE line' = line
  BY <1>2, <1>3, StandingPrepared
<1>4. CASE line' = Append(line, Error(Head(tx).cmd))
  <2>1. Head(tx).cmd \in Names
    <3>1. Head(tx) \in WriteSet
      BY <1>1, TailFacts DEF WritesTyped
    <3> QED
      BY <3>1 DEF WriteSet, Names
  <2>2. PICK e \in LineSet : e = Error(Head(tx).cmd) /\ e.t = "error"
    <3>1. PICK cmd \in Names : cmd = Head(tx).cmd
      BY <2>1
    <3>2. PICK e \in LineSet : e = Line("error", cmd, FALSE) /\ e.t = "error"
      BY ErrorTyped
    <3> QED
      BY <3>1, <3>2 DEF Error
  <2>3. /\ Len(line') = Len(line) + 1 /\ line'[Len(line) + 1] = e
        /\ \A i \in 1 .. Len(line) : line'[i] = line[i]
    BY <1>1, <1>4, <2>2, AppendFacts DEF LinesTyped
  <2>4. \A i \in 1 .. Len(line') : i \in 1 .. Len(line) \/ line'[i].t = "error"
    BY <1>2, <2>2, <2>3
  <2>5. Len(line') >= Len(line)
    BY <1>2, <2>3
  <2> QED
    BY <2>3, <2>4, <2>5, StandingPrepared
<1> QED
  BY <1>3, <1>4

LEMMA OpensPrepared ==
  ASSUME Typed, Typed', Prompted, Prepared, UNCHANGED clientVars, tx # <<>>, tx' = Tail(tx),
         dev.input = NoInput, OpensInput(Head(tx))
  PROVE  Prepared'
<1>1. LinesTyped /\ dev \in DevSet
  BY DEF Typed, ModemTyped
<1>2. CASE ~Understood(Head(tx))
  BY <1>2, ErrorPrepared DEF OpensInput
<1>3. CASE Understood(Head(tx))
  <2>1. Head(tx).cmd = "CMGS" /\ "CMGS" \in Names
    BY DEF OpensInput, Names, Commands
  <2>2. PICK p \in LineSet : p = Line("prompt", "CMGS", FALSE) /\ p.t = "prompt" /\ p.of = "CMGS"
    <3>1. /\ Line("prompt", "CMGS", FALSE) \in LineSet
          /\ Line("prompt", "CMGS", FALSE).t = "prompt" /\ Line("prompt", "CMGS", FALSE).of = "CMGS"
      BY <2>1 DEF Line, LineSet
    <3> QED
      BY <3>1
  <2>3. line' = Append(line, p)
    BY <1>3, <2>1, <2>2 DEF OpensInput
  <2>4. /\ Len(line') = Len(line) + 1 /\ line'[Len(line) + 1] = p /\ Len(line) \in Nat
        /\ \A i \in 1 .. Len(line) : line'[i] = line[i]
    BY <1>1, <2>3, AppendFacts DEF LinesTyped
  <2>5. \A i \in 1 .. Len(line') :
          i \in 1 .. Len(line) \/ (line'[i].t = "prompt" /\ line'[i].of # "CGNSSPWR?")
    <3>1. \A m \in Nat : \A i \in 1 .. m + 1 : i \in 1 .. m \/ i = m + 1
      OBVIOUS
    <3>2. \A i \in 1 .. Len(line') : i \in 1 .. Len(line) \/ i = Len(line) + 1
      BY <2>4, <3>1
    <3> QED
      BY <2>2, <2>4, <3>2
  <2>6. Len(line') >= Len(line)
    BY <2>4
  <2>7. dev'.biased = dev.biased /\ dev'.power = dev.power /\ dev'.route = dev.route
        /\ dev'.volt = dev.volt
    BY <1>1, <1>3 DEF OpensInput, DevSet
  <2> QED
    BY <2>4, <2>5, <2>6, <2>7, StandingPrepared
<1> QED
  BY <1>2, <1>3

LEMMA TextPrepared ==
  ASSUME Typed, Typed', Prompted, Prepared, UNCHANGED clientVars, tx # <<>>, tx' = Tail(tx),
         TakesText(Head(tx))
  PROVE  Prepared'
<1>1. LinesTyped /\ dev \in DevSet
  BY DEF Typed, ModemTyped
<1>2. Head(tx).cmd = "body" /\ phase = "confirm"
  BY TextRead DEF TakesText
<1>3. "body" \in Names
  BY DEF Names
<1>4. PICK a \in LineSet : a = Line("cmgs", "body", FALSE) /\ a.t = "cmgs" /\ a.of = "body"
  <2>1. /\ Line("cmgs", "body", FALSE) \in LineSet /\ Line("cmgs", "body", FALSE).t = "cmgs"
        /\ Line("cmgs", "body", FALSE).of = "body"
    BY <1>3 DEF Line, LineSet
  <2> QED
    BY <2>1
<1>5. PICK b \in LineSet : b = Line("ok", "body", FALSE) /\ b.t = "ok"
  <2>1. Line("ok", "body", FALSE) \in LineSet /\ Line("ok", "body", FALSE).t = "ok"
    BY <1>3 DEF Line, LineSet
  <2> QED
    BY <2>1
<1>6. line' = line \o <<a, b>>
  <2>1. line' = line \o <<Line("cmgs", Head(tx).cmd, FALSE), OK(Head(tx).cmd)>>
    BY DEF TakesText
  <2>2. OK(Head(tx).cmd) = b
    BY <1>2, <1>5 DEF OK
  <2>3. Line("cmgs", Head(tx).cmd, FALSE) = a
    BY <1>2, <1>4
  <2> QED
    BY <2>1, <2>2, <2>3, Zenon
<1>7. PICK more \in Seq(LineSet) :
        more = <<a, b>> /\ Len(more) = 2 /\ more[1] = a /\ more[2] = b
  <2>1. <<a, b>> \in Seq(LineSet) /\ Len(<<a, b>>) = 2 /\ <<a, b>>[1] = a /\ <<a, b>>[2] = b
    OBVIOUS
  <2> QED
    BY <2>1
<1>8. /\ Len(line) \in Nat /\ Len(line') = Len(line) + Len(more)
      /\ \A i \in 1 .. Len(line) : line'[i] = line[i]
      /\ \A i \in 1 .. Len(more) : line'[Len(line) + i] = more[i]
  <2>1. line' = line \o more
    BY <1>6, <1>7
  <2> QED
    BY <1>1, <2>1, JoinFacts DEF LinesTyped
<1>9. line'[Len(line) + 1] = a /\ line'[Len(line) + 2] = b /\ Len(line') = Len(line) + 2
  <2>1. 1 \in 1 .. Len(more) /\ 2 \in 1 .. Len(more)
    BY <1>7
  <2> QED
    BY <1>7, <1>8, <2>1
<1>10. \A m \in Nat : \A i \in 1 .. m + 2 : i \in 1 .. m \/ i = m + 1 \/ i = m + 2
  OBVIOUS
<1>11. \A i \in 1 .. Len(line') :
         \/ i \in 1 .. Len(line)
         \/ line'[i].t = "ok" /\ phase # "reply"
         \/ line'[i].t = "cmgs" /\ line'[i].of # "CGNSSPWR?"
  BY <1>2, <1>4, <1>5, <1>8, <1>9, <1>10
<1>12. dev'.biased = dev.biased /\ dev'.power = dev.power /\ dev'.route = dev.route
       /\ dev'.volt = dev.volt
  BY <1>1 DEF TakesText, DevSet
<1>13. Len(line') >= Len(line)
  BY <1>8, <1>9
<1> QED
  BY <1>2, <1>8, <1>11, <1>12, <1>13, StandingPrepared

\* The modem reads what is written next, or refuses it.
LEMMA ModemPrepared ==
  ASSUME Typed, Typed', Prompted, Credited, used.late = 0, Prepared, Supplied,
         ModemAnswers \/ ModemRefuses
  PROVE  Prepared'
<1>1. ClientTyped /\ LinesTyped /\ WritesTyped /\ dev \in DevSet
  BY DEF Typed, ModemTyped
<1>2. Unread
  BY DEF Prepared
<1>3. tx # <<>> /\ tx' = Tail(tx) /\ UNCHANGED clientVars
  BY DEF ModemAnswers, ModemRefuses
<1>4. CASE ModemRefuses
  <2>1. line' = Append(line, Error(Head(tx).cmd))
    BY <1>4 DEF ModemRefuses
  <2>2. dev'.biased = dev.biased /\ dev'.power = dev.power /\ dev'.route = dev.route
        /\ dev'.volt = dev.volt
    BY <1>1, <1>4 DEF ModemRefuses, DevSet
  <2>3. dev.input = NoInput \/ phase # "reply"
    <3>1. dev.input = NoInput \/ Head(tx).cmd = "body"
      BY <1>4 DEF ModemRefuses
    <3> QED
      BY <1>3, <3>1, TextRead
  <2> QED
    BY <1>3, <2>1, <2>2, <2>3, ErrorPrepared
<1>5. CASE ModemAnswers /\ dev.input # NoInput
  <2>1. CASE TakesText(Head(tx))
    BY <1>3, <2>1, TextPrepared
  <2>2. CASE Swallowed(Head(tx))
    <3>1. line' = line /\ dev'.input = dev.input /\ dev'.biased = dev.biased
          /\ dev'.power = dev.power /\ dev'.route = dev.route /\ dev'.volt = dev.volt
      BY <1>1, <2>2 DEF Swallowed, DevSet
    <3> QED
      BY <1>3, <1>5, <3>1, ErrorPrepared
  <2> QED
    BY <1>5, <2>1, <2>2 DEF ModemAnswers
<1>6. CASE ModemAnswers /\ dev.input = NoInput
  <2>1. CASE OpensInput(Head(tx))
    BY <1>3, <1>6, <2>1, OpensPrepared
  <2>2. CASE line' = Append(line, Error(Head(tx).cmd)) /\ UNCHANGED <<modemVars, unset>>
    BY <1>3, <1>6, <2>2, ErrorPrepared DEF modemVars
  <2>3. CASE Command(Head(tx))
    <3>1. Len(tx) \in Nat \ {0} /\ Head(tx) = tx[1] /\ 1 \in 1 .. Len(tx)
      BY <1>1, <1>3, TxShrinks
    <3>2. Waiting /\ Len(tx) = 1
      <4>1. Pending = Len(tx) /\ Pending # 0
        BY <1>6, <3>1 DEF Pending
      <4> QED
        BY <4>1, AnswerInTime
    <3>3. phase # "confirm"
      <4>1. NoBody
        BY <1>1, <1>6, BodyMeansReports
      <4> QED
        BY <1>3, <4>1 DEF Prompted, TextGiven
    <3>4. phase # "prompt"
      <4> SUFFICES ASSUME phase = "prompt" PROVE FALSE
        OBVIOUS
      <4>1. tx[1] = Written("CMGS", Msg, Head(todo).part)
        BY <1>3, <3>2 DEF Prompted, OwnSubmit
      <4>2. Head(tx).cmd = "CMGS"
        BY <3>1, <4>1 DEF Written
      <4> QED
        BY <2>3, <4>2 DEF Command
    <3> QED
      BY <1>3, <1>6, <2>3, <3>2, <3>3, <3>4, CommandPrepared DEF Waiting
  <2> QED
    BY <1>6, <2>1, <2>2, <2>3 DEF ModemAnswers
<1> QED
  BY <1>4, <1>5, <1>6

\* A line of the wait for a reply, a prompt or a confirmation is read.
LEMMA ReadPrepared ==
  ASSUME Typed, Typed', Prompted, Credited, used.late = 0, Prepared,
         Reply \/ AwaitPrompt \/ AwaitConfirmation
  PROVE  Prepared'
<1>1. ClientTyped /\ LinesTyped
  BY DEF Typed
<1>2. /\ Waiting /\ line # <<>> /\ line' = Tail(line) /\ dev' = dev
  BY DEF Reply, AwaitPrompt, AwaitConfirmation, Waiting, modemVars
<1>3. todo # <<>>
  BY <1>1, <1>2, BusyTodo DEF Waiting
<1>4. Purge
  BY <1>1, <1>2, ReadPurges
<1>5. Head(line).t \in {"ok", "error"} => Finals' = {} /\ Head(line) = line[1] /\ 1 \in Finals
  BY <1>2, EndInTime
<1>6. ASSUME Failed, Head(line).t \in {"ok", "error"} PROVE Prepared'
  BY <1>2, <1>3, <1>4, <1>5, <1>6, FollowPrepared DEF Failed
<1>7. ASSUME Succeeded, Head(line).t = "ok", Done(Head(todo).cmd) PROVE Prepared'
  BY <1>2, <1>3, <1>4, <1>5, <1>7, FollowPrepared DEF Succeeded
<1>8. ASSUME kinds' = kinds, todo' = todo, phase' = phase, tx' = tx, gnss' = gnss,
             restartRequired' = restartRequired,
             got' = got \/ (got' = Head(line) /\ Head(line).t \notin {"ok", "error"})
      PROVE  Prepared'
  BY <1>2, <1>8, WaitPrepared
<1>9. CASE Reply
  <2>1. phase = "reply" /\ tx' = tx
    BY <1>9 DEF Reply
  <2>2. CASE Head(line).t = "ok" /\ Succeeded
    <3>1. Achieved
      BY DEF Prepared
    <3>2. Done(Head(todo).cmd)
      BY <1>5, <2>1, <2>2, <3>1 DEF Achieved, Finals
    <3> QED
      BY <1>7, <2>2, <3>2
  <2>3. CASE Head(line).t = "error" /\ Failed
    BY <1>6, <2>3
  <2>4. CASE /\ Head(line).t \notin {"ok", "error"} /\ got' = Head(line)
             /\ UNCHANGED <<kinds, todo, phase, haveCmgs, ok, fields, gnss, restartRequired>>
    BY <1>8, <2>1, <2>4
  <2> QED
    BY <1>9, <2>2, <2>3, <2>4 DEF Reply
<1>10. CASE AwaitPrompt
  <2>1. CASE Head(line).t = "prompt"
    BY <1>10, <2>1, PromptReadPrepared
  <2>2. CASE Head(line).t = "error" /\ Failed
    BY <1>6, <2>2
  <2>3. CASE UNCHANGED <<clientVars, tx>>
    BY <1>8, <2>3 DEF clientVars
  <2> QED
    BY <1>10, <2>1, <2>2, <2>3 DEF AwaitPrompt
<1>11. CASE AwaitConfirmation
  <2>1. phase = "confirm" /\ tx' = tx
    BY <1>11 DEF AwaitConfirmation
  <2>2. CASE Head(line).t = "ok" /\ Succeeded
    <3>1. Head(todo).cmd = "CMGS"
      BY <1>1, <1>3, <2>1, SubmitPart DEF ClientTyped
    <3> QED
      BY <1>7, <2>2, <3>1 DEF Done
  <2>3. CASE Head(line).t \in {"ok", "error"} /\ Failed
    BY <1>6, <2>3
  <2>4. CASE UNCHANGED <<kinds, todo, phase, got, ok, fields, gnss, restartRequired>>
    BY <1>8, <2>1, <2>4
  <2> QED
    BY <1>11, <2>2, <2>3, <2>4 DEF AwaitConfirmation, clientVars
<1> QED
  BY <1>9, <1>10, <1>11

\* A command is not written.
LEMMA SendFailsPrepared ==
  ASSUME Typed, Typed', Credited, used.late = 0, Prepared, SendFails
  PROVE  Prepared'
<1>1. ClientTyped /\ LinesTyped
  BY DEF Typed
<1>2. phase = "send" /\ Purge /\ dev' = dev /\ tx' = tx
  BY DEF SendFails, modemVars
<1>3. todo # <<>> /\ ScriptedAs(todo)
  BY <1>1, <1>2, BusyTodo
<1>4. CASE Head(todo).role = "blind"
  <2>1. /\ phase' = "reply" /\ kinds' = kinds /\ todo' = todo /\ got' = got /\ gnss' = gnss
        /\ restartRequired' = restartRequired
    BY <1>4 DEF SendFails
  <2> QED
    BY <1>2, <2>1, WrittenPrepared
<1>5. CASE Head(todo).role # "blind"
  <2>1. PICK left : left = Unsent
    OBVIOUS
  <2>2. PICK fails \in BOOLEAN : fails = Decides(FALSE)
    BY DEF Decides
  <2>3. Proceed(left, fails)
    BY <1>5, <2>1, <2>2 DEF SendFails
  <2>4. Finals' = {}
    <3>1. Finals = {}
      BY <1>2, AnswerInTime DEF Waiting
    <3>2. PICK n \in 0 .. Len(line) :
            \A i \in 1 .. Len(line') : i + n \in 1 .. Len(line) /\ line'[i] = line[i + n]
      BY <1>1, <1>2, PurgeFacts
    <3> QED
      BY <3>1, <3>2 DEF Finals
  <2>5. ASSUME ~dev.biased, Kind = "gnss"
        PROVE  /\ left = <<>> => fails
               /\ left # <<>> => Staged(left) /\ Head(left).cmd # "AT"
    <3>1. Staged(todo)
      BY <1>3, <2>5 DEF Prepared, Restarts
    <3>2. Head(todo) \in PlainSteps
      BY <1>3, <2>5 DEF ScriptedAs, Sends
    <3>3. Head(todo).cmd \notin {"CMGF=0", "CSCS=GSM"}
      BY <3>2 DEF PlainSteps, SendOnly
    <3>4. left = Follow(FALSE)
      BY <2>1, <3>3 DEF Unsent
    <3>5. dev \in DevSet /\ got \in LineSet \cup {NoLine}
      BY DEF Typed, ModemTyped, ClientTyped
    <3>6. got.of = "CGNSSPWR?" => AsksPower(got.v)
      BY DEF Prepared, PowerLines
    <3>7. /\ Follow(FALSE) = <<>> => Decides(FALSE)
          /\ Follow(FALSE) # <<>> => Staged(Follow(FALSE)) /\ Head(Follow(FALSE)).cmd # "AT"
      BY <1>3, <3>1, <3>5, <3>6, StagedFollow
    <3> QED
      BY <2>2, <3>4, <3>7
  <2> QED
    BY <1>2, <2>3, <2>4, <2>5, ProceedPrepared
<1> QED
  BY <1>4, <1>5

\* A text cannot be written, or no line comes any more.
LEMMA BreaksOffPrepared ==
  ASSUME Typed, Typed', Credited, used.late = 0, Prepared, BodyFails \/ TimesOut
  PROVE  Prepared'
<1>1. ClientTyped /\ LinesTyped
  BY DEF Typed
<1>2. dev' = dev /\ Failed /\ Waiting
  BY DEF BodyFails, TimesOut, modemVars, Waiting
<1>3. todo # <<>>
  BY <1>1, <1>2, BusyTodo DEF Waiting
<1>4. Finals' = {} /\ (Purge \/ line' = line)
  <2>1. CASE BodyFails
    <3>1. line # <<>> /\ line' = Tail(line) /\ Head(line).t = "prompt"
      BY <2>1 DEF BodyFails
    <3> QED
      BY <1>1, <3>1, EndInTime, ReadPurges
  <2>2. CASE TimesOut
    <3>1. line = <<>> /\ line' = line
      BY <2>2 DEF TimesOut, Silent
    <3> QED
      BY <3>1, EmptyFacts DEF Finals
  <2> QED
    BY <2>1, <2>2
<1> QED
  BY <1>2, <1>3, <1>4, FollowPrepared DEF Failed

LEMMA BiasedInit == Init => Biased
<1> SUFFICES ASSUME Init PROVE Biased
  OBVIOUS
<1>1. /\ todo = <<>> /\ line = <<>> /\ phase = "idle" /\ got = NoLine /\ gnss = "none"
      /\ restartRequired
  BY DEF Init
<1>2. ~dev.biased
  BY DEF Init
<1>3. \A i \in 1 .. Len(line) : FALSE
  BY <1>1, EmptyFacts
<1>4. got.of # "CGNSSPWR?"
  BY <1>1 DEF NoLine, Line
<1>5. Unread /\ Achieved /\ PowerLines
  BY <1>1, <1>3, <1>4 DEF Unread, Achieved, PowerLines
<1>6. Supplied /\ Restarts
  BY <1>1, <1>2 DEF Supplied, Restarts
<1> QED
  BY <1>5, <1>6 DEF Biased, Prepared

\* Once the antenna has its bias it keeps it.
LEMMA SuppliedStep ==
  ASSUME Typed, Supplied, [Next]_vars
  PROVE  Supplied'
<1>1. dev \in DevSet
  BY DEF Typed, ModemTyped
<1>2. CASE dev' = dev
  BY <1>2 DEF Supplied
<1>3. ASSUME NEW cmd, dev' = Effect(cmd) PROVE Supplied'
  BY <1>1, <1>3, EffectOnReceiver DEF Supplied
<1>4. CASE dev'.biased = dev.biased /\ dev'.route = dev.route /\ dev'.volt = dev.volt
  BY <1>4 DEF Supplied
<1>5. CASE ModemAnswers
  <2>1. CASE Command(Head(tx))
    BY <1>3, <2>1 DEF Command
  <2>2. CASE TakesText(Head(tx)) \/ Swallowed(Head(tx)) \/ OpensInput(Head(tx)) \/ dev' = dev
    <3>1. dev'.biased = dev.biased /\ dev'.route = dev.route /\ dev'.volt = dev.volt
      BY <1>1, <2>2 DEF TakesText, Swallowed, OpensInput, DevSet
    <3> QED
      BY <1>4, <3>1
  <2> QED
    BY <1>5, <2>1, <2>2 DEF ModemAnswers, modemVars
<1>6. CASE ModemRefuses
  <2>1. dev'.biased = dev.biased /\ dev'.route = dev.route /\ dev'.volt = dev.volt
    BY <1>1, <1>6 DEF ModemRefuses, DevSet
  <2> QED
    BY <1>4, <2>1
<1>7. CASE ~ModemAnswers /\ ~ModemRefuses
  <2>1. dev' = dev
    BY <1>7 DEF Next, Client, Start, RestartGnssTask, Send, SendFails, Reply, AwaitPrompt,
         BodyFails, AwaitConfirmation, TimesOut, GivesUp, Urc, modemVars, vars
  <2> QED
    BY <1>2, <2>1
<1> QED
  BY <1>5, <1>6, <1>7

LEMMA BiasedStep ==
  Typed /\ Typed' /\ Prompted /\ Credited /\ Biased /\ [Next]_vars => Biased'
<1> SUFFICES ASSUME Typed, Typed', Prompted, Credited, Biased, [Next]_vars
             PROVE  Biased'
  OBVIOUS
<1>1. Supplied'
  BY SuppliedStep DEF Biased
<1> SUFFICES ASSUME used'.late = 0 PROVE Prepared'
  BY <1>1 DEF Biased
<1>2. used.late \in Nat
  BY DEF Typed, CountsTyped
<1>3. used.late = 0
  <2>1. used'.late >= used.late
    BY BoundsGrow
  <2> QED
    BY <1>2, <2>1
<1>4. Supplied /\ Prepared
  BY <1>3 DEF Biased
<1>5. ~GivesUp
  BY <1>3 DEF GivesUp, Typed, CountsTyped
<1>6. CASE \E kind \in Kinds : Start(kind)
  BY <1>4, <1>6, StartPrepared
<1>7. CASE RestartGnssTask
  BY <1>4, <1>7 DEF RestartGnssTask, modemVars, Prepared, Unread, Achieved, Done, PowerLines, AsksPower,
       Restarts, Staged, Kind
<1>8. CASE UNCHANGED vars
  BY <1>4, <1>8 DEF vars, clientVars, modemVars, Prepared, Unread, Achieved, Done, PowerLines, AsksPower,
       Restarts, Staged, Kind
<1>9. CASE Send
  <2>1. /\ phase = "send" /\ Purge /\ phase' \in {"prompt", "reply"}
        /\ tx' = Append(tx, Written(Head(todo).cmd, Msg, Head(todo).part))
        /\ kinds' = kinds /\ todo' = todo /\ got' = got /\ dev' = dev /\ gnss' = gnss
        /\ restartRequired' = restartRequired
    BY <1>9 DEF Send, modemVars
  <2> QED
    BY <1>3, <1>4, <2>1, WrittenPrepared
<1>10. CASE SendFails
  BY <1>3, <1>4, <1>10, SendFailsPrepared
<1>11. CASE Reply \/ AwaitPrompt \/ AwaitConfirmation
  BY <1>3, <1>4, <1>11, ReadPrepared
<1>12. CASE BodyFails \/ TimesOut
  BY <1>3, <1>4, <1>12, BreaksOffPrepared
<1>13. CASE ModemAnswers \/ ModemRefuses
  BY <1>3, <1>4, <1>13, ModemPrepared
<1>14. CASE Urc
  BY <1>4, <1>14, UrcPrepared
<1> QED
  BY <1>5, <1>6, <1>7, <1>8, <1>9, <1>10, <1>11, <1>12, <1>13, <1>14 DEF Next, Client

\* While no answer is late, a receiver that was not started with bias at its antenna is
\* about to be restarted, its dialog takes the steps of the restart one after the other,
\* and each of them is done before the next is taken (the GNSS poll task, ensurePowered).
THEOREM BiasInvariant == Spec => []Biased
<1>1. Init => Biased
  BY BiasedInit
<1>2. Typed /\ Typed' /\ Prompted /\ Credited /\ Biased /\ [Next]_vars => Biased'
  BY BiasedStep
<1> QED
  BY <1>1, <1>2, TypeInvariant, PromptInvariant, CreditInvariant, PTL DEF Spec

\* A published GNSS status is of a receiver that was started with bias at its antenna,
\* also when it had been left running without; late answers aside.
THEOREM ReceiverStartedWithBias == Spec => []StartedWithBias
<1>1. Biased => StartedWithBias
  BY DEF Biased, Prepared, Restarts, StartedWithBias
<1> QED
  BY <1>1, BiasInvariant, PTL

=============================================================================
