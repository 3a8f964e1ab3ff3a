--------------------------- MODULE ZteDialogProofs ---------------------------
(***************************************************************************)
(* Proofs about the ZTE MF79RU as an SMS source and about the e-mail       *)
(* submission it runs: what a submission keeps to, and that a record       *)
(* leaves the device only after a mail with it was accepted, whatever      *)
(* requests, answers and sessions are lost and however the device lists    *)
(* its records.                                                            *)
(***************************************************************************)
EXTENDS ZteDialog, FiniteSetTheorems, TLAPS

-----------------------------------------------------------------------------
(* The ends of a finite set of ids.  The library's induction theorems take *)
(* an operator, so the argument is by a smallest counterexample: what is   *)
(* left of it without one of its elements has an end, which is the end of  *)
(* the whole or the element is.                                            *)

LEMMA GreatestExists ==
  ASSUME NEW S, IsFiniteSet(S), S \subseteq Nat, S # {}
  PROVE  \E x \in S : \A y \in S : x >= y
<1> DEFINE Endless == {T \in SUBSET S : T # {} /\ ~\E x \in T : \A y \in T : x >= y}
<1>1. SUFFICES ASSUME S \in Endless PROVE FALSE
  OBVIOUS
<1>2. Endless \subseteq FiniteSubsetsOf(S)
  BY FS_FiniteSubsetsOfFinite
<1>3. PICK T \in Endless : \A U \in Endless : ~(<<U, T>> \in StrictSubsetOrdering(S))
  BY <1>1, <1>2, FS_StrictSubsetOrderingWellFounded, WFMin
<1>4. PICK t \in T : TRUE
  BY <1>3
<1>5. <<T \ {t}, T>> \in StrictSubsetOrdering(S)
  BY <1>3, <1>4 DEF StrictSubsetOrdering
<1>6. T \ {t} \notin Endless
  BY <1>3, <1>5
<1>7. T \subseteq Nat /\ ~\E x \in T : \A y \in T : x >= y
  BY <1>3
<1>8. CASE T \ {t} = {}
  BY <1>4, <1>7, <1>8
<1>9. CASE T \ {t} # {}
  <2>1. PICK x \in T \ {t} : \A y \in T \ {t} : x >= y
    BY <1>3, <1>6, <1>9
  <2>2. CASE x >= t
    BY <1>4, <1>7, <2>1, <2>2
  <2>3. CASE ~(x >= t)
    BY <1>4, <1>7, <2>1, <2>3
  <2> QED
    BY <2>2, <2>3
<1> QED
  BY <1>8, <1>9

LEMMA LeastExists ==
  ASSUME NEW S, IsFiniteSet(S), S \subseteq Nat, S # {}
  PROVE  \E x \in S : \A y \in S : x <= y
<1> DEFINE Endless == {T \in SUBSET S : T # {} /\ ~\E x \in T : \A y \in T : x <= y}
<1>1. SUFFICES ASSUME S \in Endless PROVE FALSE
  OBVIOUS
<1>2. Endless \subseteq FiniteSubsetsOf(S)
  BY FS_FiniteSubsetsOfFinite
<1>3. PICK T \in Endless : \A U \in Endless : ~(<<U, T>> \in StrictSubsetOrdering(S))
  BY <1>1, <1>2, FS_StrictSubsetOrderingWellFounded, WFMin
<1>4. PICK t \in T : TRUE
  BY <1>3
<1>5. <<T \ {t}, T>> \in StrictSubsetOrdering(S)
  BY <1>3, <1>4 DEF StrictSubsetOrdering
<1>6. T \ {t} \notin Endless
  BY <1>3, <1>5
<1>7. T \subseteq Nat /\ ~\E x \in T : \A y \in T : x <= y
  BY <1>3
<1>8. CASE T \ {t} = {}
  BY <1>4, <1>7, <1>8
<1>9. CASE T \ {t} # {}
  <2>1. PICK x \in T \ {t} : \A y \in T \ {t} : x <= y
    BY <1>3, <1>6, <1>9
  <2>2. CASE x <= t
    BY <1>4, <1>7, <2>1, <2>2
  <2>3. CASE ~(x <= t)
    BY <1>4, <1>7, <2>1, <2>3
  <2> QED
    BY <2>2, <2>3
<1> QED
  BY <1>8, <1>9

LEMMA IdsFacts == Ids \subseteq Nat \ {0} /\ IsFiniteSet(Ids)
BY ZteAssumption

LEMMA MinMaxOfIds ==
  ASSUME NEW S, S \subseteq Ids, S # {}
  PROVE  /\ Min(S) \in S /\ \A y \in S : Min(S) <= y
         /\ Max(S) \in S
<1>1. IsFiniteSet(S) /\ S \subseteq Nat
  BY IdsFacts, FS_Subset
<1>2. \E x \in S : \A y \in S : x <= y
  BY <1>1, LeastExists
<1>3. \E x \in S : \A y \in S : x >= y
  BY <1>1, GreatestExists
<1> QED
  BY <1>2, <1>3 DEF Min, Max

-----------------------------------------------------------------------------
(* An e-mail submission, whatever the server offers, answers or leaves     *)
(* unanswered, and however often submissions follow each other.            *)

\* The channel is encrypted as soon as an EHLO reply can lead to a login.
Encrypted ==
  /\ stage \in {"banner", "ehlo"} => tls = (security = "implicit")
  /\ stage = "ehlo_tls" => tls

\* The server takes a message with the last answer but one.
TakenLast == taken => stage \in {"closed", "quit"}

SmtpInv ==
  Smtp!TypeOK /\ Encrypted /\ TakenLast /\ Smtp!NoCredentialInClear /\ Smtp!SuccessMeansTaken

LEMMA SmtpInit == Smtp!Init => SmtpInv
BY DEF Smtp!Init, SmtpInv, Smtp!TypeOK, Encrypted, TakenLast, Smtp!NoCredentialInClear,
   Smtp!SuccessMeansTaken, Smtp!Stages, Smtp!Outcomes, Smtp!AuthStages, Smtp!MailStages

\* The reply to EHLO is where the dialog decides between TLS, login and giving up.
LEMMA SmtpListing ==
  ASSUME SmtpInv, Smtp!Listed
  PROVE  SmtpInv'
<1> USE DEF SmtpInv, Smtp!TypeOK, Encrypted, TakenLast, Smtp!NoCredentialInClear,
            Smtp!SuccessMeansTaken, Smtp!Stages, Smtp!Outcomes, Smtp!AuthStages, Smtp!MailStages,
            Smtp!Listed, Smtp!Ended, Smtp!AfterListing
<1>1. CASE security = "starttls" /\ stage = "ehlo" /\ "STARTTLS" \in offers'
  BY <1>1
<1>2. CASE security = "starttls" /\ stage = "ehlo" /\ "STARTTLS" \notin offers'
  BY <1>2
<1>3. CASE ~(security = "starttls" /\ stage = "ehlo") /\ "AUTH" \in offers'
  <2>1. tls BY <1>3 DEF Smtp!Modes
  <2>2. stage' = "auth_login" /\ UNCHANGED <<tls, outcome>> BY <1>3
  <2> QED BY <1>3, <2>1, <2>2
<1>4. CASE ~(security = "starttls" /\ stage = "ehlo") /\ "AUTH" \notin offers'
  BY <1>4
<1> QED BY <1>1, <1>2, <1>3, <1>4

LEMMA SmtpStep ==
  ASSUME SmtpInv, Smtp!Next
  PROVE  SmtpInv'
<1> USE DEF SmtpInv, Smtp!TypeOK, Encrypted, TakenLast, Smtp!NoCredentialInClear,
            Smtp!SuccessMeansTaken, Smtp!Stages, Smtp!Outcomes, Smtp!AuthStages, Smtp!MailStages,
            Smtp!Modes, Smtp!Ended
<1>1. CASE Smtp!Connect BY <1>1 DEF Smtp!Connect
<1>2. CASE Smtp!ConnectFails BY <1>2 DEF Smtp!ConnectFails
<1>3. CASE Smtp!Answered BY <1>3 DEF Smtp!Answered, Smtp!AfterAnswer
<1>4. CASE Smtp!Listed BY <1>4, SmtpListing
<1>5. CASE Smtp!StartTlsAccepted BY <1>5 DEF Smtp!StartTlsAccepted
<1>6. CASE Smtp!Handshake BY <1>6 DEF Smtp!Handshake
<1>7. CASE Smtp!HandshakeFails BY <1>7 DEF Smtp!HandshakeFails
<1>8. CASE Smtp!Refused
  <2>1. PICK o \in {Smtp!Rejection, "dialog_failed"} : Smtp!Ended(o)
    BY <1>8 DEF Smtp!Refused
  <2>2. o \in Smtp!Outcomes \ {"success"} BY <2>1 DEF Smtp!Rejection
  <2> QED BY <1>8, <2>1, <2>2 DEF Smtp!Refused
<1>9. CASE Smtp!Accepted BY <1>9 DEF Smtp!Accepted
<1>10. CASE Smtp!DotUnanswered
  <2>1. PICK o \in {Smtp!Rejection, "dialog_failed"} : Smtp!Ended(o)
    BY <1>10 DEF Smtp!DotUnanswered
  <2>2. o \in Smtp!Outcomes \ {"success"} BY <2>1 DEF Smtp!Rejection
  <2> QED BY <1>10, <2>1, <2>2 DEF Smtp!DotUnanswered
<1>11. CASE Smtp!Quit BY <1>11 DEF Smtp!Quit
<1> QED BY <1>1, <1>2, <1>3, <1>4, <1>5, <1>6, <1>7, <1>8, <1>9, <1>10, <1>11 DEF Smtp!Next

LEMMA SmtpStutter ==
  ASSUME SmtpInv, UNCHANGED Smtp!smtpVars
  PROVE  SmtpInv'
BY DEF SmtpInv, Smtp!TypeOK, Encrypted, TakenLast, Smtp!NoCredentialInClear, Smtp!SuccessMeansTaken,
       Smtp!smtpVars

\* The inductive invariant holds of every submission.
THEOREM SmtpInvariant == Smtp!Spec => []SmtpInv
<1>1. SmtpInv /\ [Smtp!Next]_Smtp!smtpVars => SmtpInv' BY SmtpStep, SmtpStutter
<1> QED BY SmtpInit, <1>1, PTL DEF Smtp!Spec

\* Neither the credentials nor the message go out before the channel is encrypted
\* and the server has offered AUTH inside it, for both security modes.
THEOREM NothingInClear == Smtp!Spec => []Smtp!NoCredentialInClear
<1>1. SmtpInv => Smtp!NoCredentialInClear BY DEF SmtpInv
<1> QED BY <1>1, SmtpInvariant, PTL

\* A submission reported as successful was taken by the server.
THEOREM SuccessIsTaken == Smtp!Spec => []Smtp!SuccessMeansTaken
<1>1. SmtpInv => Smtp!SuccessMeansTaken BY DEF SmtpInv
<1> QED BY <1>1, SmtpInvariant, PTL

-----------------------------------------------------------------------------
(* The invariant of the jobs.                                              *)

\* The request a job waits for, or goes on with once it has logged in.
Asks(r) == step = r \/ (step \in {"login", "versions"} /\ resume = r)

\* What a job asks fits what it is at.
StepFits ==
  /\ work = "none" => phase = "none"
  /\ phase \in {"none", "forward"} => step = "none"
  /\ Asks("list") => phase \in {"scan", "erase", "clean"}
  /\ Asks("rd") => phase \in {"erase", "clean", "submit"}
  /\ Asks("capacity") => phase = "check"
  /\ step = "delete" => phase \in {"erase", "clean"}
  /\ step = "post" => phase = "submit"
  /\ step = "status" => phase = "confirm" /\ polls < MaxStatus

\* A cleanup that goes on has not used up its limits.
Counts == phase # "none" => deleted < MaxPages * PageSize /\ cleanups < MaxCleanups

\* What the mail server has taken in this cycle is the target.
MailFits ==
  /\ phase = "scan" => ~taken
  /\ phase = "forward" /\ stage = "closed" /\ outcome = "none" => ~taken
  /\ phase = "forward" /\ taken => target \in mailed

\* The record a job works on is one that it may mail or delete.
TargetFits ==
  /\ phase = "scan" => target = NoId \/ box[target] = "in"
  /\ phase = "forward" => target \in Ids /\ box[target] = "in"
  /\ phase = "erase" => target \in mailed
  /\ phase \in {"submit", "confirm"} => target = NoId
  /\ phase = "clean" => target = NoId \/ box[target] \in {"sent", "failed", "gone"}

CameIn == \A i \in mailed : box[i] \in {"in", "gone"}

\* A record that was mailed and is still there is excused or being worked on.
Accounted ==
  \A i \in mailed : box[i] = "in" /\ i \notin excused =>
    i = target /\ (phase = "erase" \/ (phase = "forward" /\ taken))

\* The device's status word is about the record of this send when it is alone.
SendFits ==
  /\ phase \in {"submit", "confirm"} => verdict = "none"
  /\ phase = "confirm" /\ alone =>
       mine \in Ids /\ Pending \subseteq {mine} /\ (word = "done" => box[mine] = "sent")
  /\ verdict = "confirmed" /\ alone => mine \in Ids /\ box[mine] \in {"sent", "gone"}

Control == StepFits /\ Counts
Records == MailFits /\ TargetFits /\ CameIn /\ Accounted /\ SendFits

IInv == TypeOK /\ SmtpInv /\ Control /\ Records

LEMMA NextSteps ==
  ASSUME [Next]_vars
  PROVE  \/ Arrive \/ Deliver \/ Expire \/ StartPoll \/ StartTest \/ StartSend
         \/ LoginAccepted \/ VersionsRead \/ VersionsStale
         \/ AnswerStale \/ AnswerLost \/ RequestFails
         \/ ScanPage \/ Submit \/ MailDone \/ TokenRead
         \/ DeletionAnswered \/ DeletionLost \/ DeletionRefused
         \/ Verified \/ Unverified \/ FindOutgoing
         \/ PostAccepted \/ PostLost \/ PostRejected \/ StatusPolled \/ CapacityRead
         \/ UNCHANGED vars
BY DEF Next, Job

LEMMA ConstantFacts ==
  /\ NoId \notin Ids
  /\ MaxPages \in Nat \ {0} /\ MaxPages * PageSize \in Nat \ {0}
  /\ MaxStatus \in Nat \ {0} /\ MaxCleanups \in Nat \ {0} /\ MaxEvents \in Nat
<1>1. PageSize \in Nat \ {0} /\ MaxPages \in Nat \ {0}
  BY ZteAssumption
<1>2. MaxPages * PageSize \in Nat \ {0}
  BY <1>1
<1> QED
  BY <1>1, <1>2, ZteAssumption DEF NoId

\* A record the device takes for a new message was not used before.
LEMMA FreshMin ==
  ASSUME Fresh # {}
  PROVE  Min(Fresh) \in Ids /\ box[Min(Fresh)] = "none"
<1>1. Min(Fresh) \in Fresh
  BY MinMaxOfIds DEF Fresh
<1>2. \A i \in Ids : i >= i
  BY IdsFacts
<1> QED
  BY <1>1, <1>2 DEF Fresh

-----------------------------------------------------------------------------
(* Types.                                                                  *)

DeviceOK ==
  /\ device \in Devices
  /\ box \in [Ids -> {"none", "in", "pending", "sent", "failed", "gone"}]
  /\ alive \in BOOLEAN
  /\ word \in {"progress", "done", "failed"}
JobOK ==
  /\ work \in {"none", "poll", "test", "send"}
  /\ phase \in {"none", "scan", "forward", "erase", "check", "submit", "confirm", "clean"}
  /\ step \in {"none", "login", "versions", "list", "rd", "delete", "post", "status",
               "capacity", "giveup"}
ResultOK ==
  result \in {"none", "forwarded", "delete_unverified", "forward_failed", "inbox_empty",
              "failed", "tested", "sent", "status_failed", "in_progress"}
SessionOK ==
  /\ resume \in {"none", "list", "rd", "capacity", "giveup"}
  /\ relogin \in BOOLEAN
  /\ attempt \in 0 .. 1
ScanOK == page \in 0 .. MaxPages - 1 /\ target \in Ids \cup {NoId} /\ verifying \in BOOLEAN
SendingOK ==
  /\ tag \in {"sent", "failed"}
  /\ deleted \in 0 .. MaxPages * PageSize
  /\ polls \in 0 .. MaxStatus
  /\ cleanups \in 0 .. MaxCleanups
  /\ verdict \in {"none", "confirmed", "failed"}
  /\ mine \in Ids \cup {NoId}
  /\ alone \in BOOLEAN
HistoryOK == mailed \subseteq Ids /\ excused \subseteq Ids
EventsOK == events \in 0 .. MaxEvents

LEMMA TypeParts ==
  TypeOK <=> /\ DeviceOK /\ JobOK /\ ResultOK /\ SessionOK /\ ScanOK /\ SendingOK
             /\ Smtp!TypeOK /\ HistoryOK /\ EventsOK
BY DEF TypeOK, DeviceOK, JobOK, ResultOK, SessionOK, ScanOK, SendingOK, HistoryOK, EventsOK

\* Steps that leave a part alone leave its types alone.
LEMMA Same ==
  /\ DeviceOK /\ UNCHANGED deviceVars => DeviceOK'
  /\ JobOK /\ UNCHANGED <<work, phase, step>> => JobOK'
  /\ ResultOK /\ UNCHANGED result => ResultOK'
  /\ SessionOK /\ UNCHANGED session => SessionOK'
  /\ ScanOK /\ UNCHANGED scan => ScanOK'
  /\ SendingOK /\ UNCHANGED sending => SendingOK'
  /\ HistoryOK /\ UNCHANGED history => HistoryOK'
  /\ EventsOK /\ UNCHANGED events => EventsOK'
  /\ SmtpInv /\ UNCHANGED smtp => SmtpInv'
<1>1. DeviceOK /\ UNCHANGED deviceVars => DeviceOK'
  BY DEF DeviceOK, deviceVars
<1>2. JobOK /\ UNCHANGED <<work, phase, step>> => JobOK'
  BY DEF JobOK
<1>3. ResultOK /\ UNCHANGED result => ResultOK'
  BY DEF ResultOK
<1>4. SessionOK /\ UNCHANGED session => SessionOK'
  BY DEF SessionOK, session
<1>5. ScanOK /\ UNCHANGED scan => ScanOK'
  BY DEF ScanOK, scan
<1>6. SendingOK /\ UNCHANGED sending => SendingOK'
  BY DEF SendingOK, sending
<1>7. HistoryOK /\ UNCHANGED history => HistoryOK'
  BY DEF HistoryOK, history
<1>8. EventsOK /\ UNCHANGED events => EventsOK'
  BY DEF EventsOK
<1>9. SmtpInv /\ UNCHANGED smtp => SmtpInv'
  BY SmtpStutter DEF smtp, Smtp!smtpVars
<1> QED
  BY <1>1, <1>2, <1>3, <1>4, <1>5, <1>6, <1>7, <1>8, <1>9

LEMMA EventOK == EventsOK /\ Event => EventsOK'
BY ConstantFacts DEF EventsOK, Event

LEMMA AbortOK ==
  ASSUME JobOK, HistoryOK, ScanOK, Abort, phase = "erase" => target \in Ids
  PROVE  JobOK' /\ ResultOK' /\ excused' \subseteq Ids
<1>1. JobOK'
  BY DEF Abort, End, JobOK
<1>2. (CASE phase = "erase" -> "delete_unverified"
         [] phase = "clean" -> SendResult
         [] OTHER -> "failed") \in {"delete_unverified", "sent", "status_failed", "failed"}
  BY DEF SendResult
<1>3. ResultOK'
  BY <1>2 DEF Abort, End, ResultOK
<1>4. excused' \subseteq Ids
  BY DEF Abort, HistoryOK
<1> QED
  BY <1>1, <1>3, <1>4

LEMMA RequestOK ==
  ASSUME NEW s, Request(s), SessionOK
  PROVE  SessionOK'
BY DEF Request, SessionOK

\* The device and what it lists.
LEMMA EraseOK == DeviceOK /\ Erase => DeviceOK'
BY DEF DeviceOK, Erase

LEMMA TakeOK ==
  ASSUME DeviceOK, TakeForSending
  PROVE  DeviceOK' /\ mine' \in Ids /\ alone' \in BOOLEAN
<1>1. Min(Fresh) \in Ids
  BY FreshMin DEF TakeForSending
<1>2. DeviceOK'
  BY <1>1 DEF TakeForSending, DeviceOK
<1>3. mine' \in Ids
  BY <1>1 DEF TakeForSending
<1>4. alone' \in BOOLEAN
  BY DEF TakeForSending
<1> QED
  BY <1>2, <1>3, <1>4

LEMMA BeginOK ==
  ASSUME DeviceOK, HistoryOK, SmtpInv,
         NEW job \in {"poll", "test", "send"}, NEW part \in {"scan", "check", "submit"},
         NEW first \in {"list", "rd", "capacity"}, Begin(job, part, first)
  PROVE  /\ DeviceOK' /\ JobOK' /\ ResultOK' /\ SessionOK' /\ ScanOK' /\ SendingOK'
         /\ HistoryOK' /\ SmtpInv'
<1>1. DeviceOK' /\ HistoryOK'
  BY Same DEF Begin
<1>2. JobOK' /\ ResultOK'
  BY DEF Begin, JobOK, ResultOK
<1>s. SessionOK'
  <2>1. resume' = first /\ relogin' = FALSE /\ attempt' = 0
    BY DEF Begin
  <2>2. 0 \in 0 .. 1
    OBVIOUS
  <2> QED
    BY <2>1, <2>2, Zenon DEF SessionOK
<1>3. ScanOK'
  <2>1. page' = 0 /\ target' = NoId /\ verifying' = FALSE
    BY DEF Begin
  <2>2. 0 \in 0 .. MaxPages - 1
    BY ConstantFacts
  <2> QED
    BY <2>1, <2>2 DEF ScanOK
<1>4. SendingOK'
  BY ConstantFacts DEF Begin, SendingOK
<1>5. SmtpInv'
  BY DEF Begin, SmtpInv, Smtp!TypeOK, Encrypted, TakenLast, Smtp!NoCredentialInClear,
         Smtp!SuccessMeansTaken, Smtp!Stages, Smtp!Outcomes, Smtp!AuthStages, Smtp!MailStages
<1> QED
  BY <1>1, <1>2, <1>s, <1>3, <1>4, <1>5

LEMMA TypeStep ==
  ASSUME IInv, [Next]_vars
  PROVE  TypeOK' /\ SmtpInv'
<1> DEFINE OK == /\ DeviceOK /\ JobOK /\ ResultOK /\ SessionOK /\ ScanOK /\ SendingOK
                 /\ HistoryOK /\ EventsOK /\ SmtpInv
<1>1. OK
  BY TypeParts DEF IInv
<1>2. phase = "erase" => target \in Ids
  BY <1>1 DEF IInv, Records, TargetFits, HistoryOK
<1>a. SUFFICES OK'
  BY DEF SmtpInv, TypeOK, DeviceOK, JobOK, ResultOK, SessionOK, ScanOK, SendingOK, HistoryOK,
         EventsOK
<1>3. CASE Arrive
  <2>1. DeviceOK'
    BY <1>1, <1>3, FreshMin DEF Arrive, DeviceOK
  <2> QED
    BY <1>1, <1>3, <2>1, Same DEF Arrive
<1>4. CASE Deliver
  <2>1. DeviceOK'
    BY <1>1, <1>4 DEF Deliver, DeviceOK
  <2> QED
    BY <1>1, <1>4, <2>1, Same DEF Deliver
<1>5. CASE Expire
  <2>1. DeviceOK'
    BY <1>1, <1>5 DEF Expire, DeviceOK
  <2>2. EventsOK'
    BY <1>1, <1>5, EventOK DEF Expire, Fault
  <2> QED
    BY <1>1, <1>5, <2>1, <2>2, Same DEF Expire
<1>6. CASE StartPoll
  BY <1>1, <1>6, BeginOK, Same DEF StartPoll
<1>7. CASE StartTest
  BY <1>1, <1>7, BeginOK, EventOK DEF StartTest
<1>8. CASE StartSend
  BY <1>1, <1>8, BeginOK, EventOK DEF StartSend
<1>9. CASE LoginAccepted
  <2>1. DeviceOK' /\ JobOK'
    BY <1>1, <1>9 DEF LoginAccepted, DeviceOK, JobOK
  <2> QED
    BY <1>1, <1>9, <2>1, Same DEF LoginAccepted
<1>10. CASE VersionsRead
  <2>1. CASE resume = "giveup"
    <3>1. Abort
      BY <1>10, <2>1 DEF VersionsRead
    <3>2. HistoryOK' /\ JobOK' /\ ResultOK'
      BY <1>1, <1>2, <1>10, <3>1, AbortOK DEF VersionsRead, HistoryOK
    <3> QED
      BY <1>1, <1>10, <3>2, Same DEF VersionsRead
  <2>2. CASE resume # "giveup"
    <3>1. JobOK' /\ ResultOK' /\ HistoryOK'
      BY <1>1, <1>10, <2>2 DEF VersionsRead, JobOK, ResultOK, HistoryOK, SessionOK
    <3> QED
      BY <1>1, <1>10, <3>1, Same DEF VersionsRead
  <2> QED
    BY <2>1, <2>2
<1>11. CASE VersionsStale
  <2>1. CASE relogin = TRUE
    <3>1. Abort /\ UNCHANGED session
      BY <1>11, <2>1 DEF VersionsStale
    <3>2. HistoryOK' /\ JobOK' /\ ResultOK'
      BY <1>1, <1>2, <1>11, <3>1, AbortOK DEF VersionsStale, HistoryOK
    <3> QED
      BY <1>1, <1>11, <3>1, <3>2, Same DEF VersionsStale
  <2>2. CASE relogin = FALSE
    <3>1. JobOK' /\ ResultOK' /\ HistoryOK' /\ SessionOK'
      BY <1>1, <1>11, <2>2 DEF VersionsStale, JobOK, ResultOK, HistoryOK, SessionOK
    <3> QED
      BY <1>1, <1>11, <3>1, Same DEF VersionsStale
  <2> QED
    BY <1>1, <2>1, <2>2 DEF SessionOK
<1>12. ASSUME LogInAgain, step \in {"list", "rd"}, EventsOK' PROVE OK'
  <2>1. JobOK' /\ SessionOK'
    <3>1. /\ step' = "login" /\ relogin' = FALSE /\ attempt' = 1
          /\ resume' \in {"list", "rd", "giveup"} /\ UNCHANGED <<work, phase>>
      BY <1>12 DEF LogInAgain, AfterLogin
    <3>2. JobOK'
      BY <1>1, <3>1 DEF JobOK
    <3>3. 1 \in 0 .. 1
      OBVIOUS
    <3>4. SessionOK'
      BY <3>1, <3>3, Zenon DEF SessionOK
    <3> QED
      BY <3>2, <3>4
  <2> QED
    BY <1>1, <1>12, <2>1, Same DEF LogInAgain
<1>13. CASE AnswerStale
  BY <1>1, <1>12, <1>13, Same DEF AnswerStale
<1>14. CASE AnswerLost
  BY <1>1, <1>12, <1>14, EventOK DEF AnswerLost, Fault
<1>15. ASSUME Abort, UNCHANGED mailed PROVE JobOK' /\ ResultOK' /\ HistoryOK'
  BY <1>1, <1>2, <1>15, AbortOK DEF HistoryOK
<1>16. CASE RequestFails
  <2>1. EventsOK'
    BY <1>1, <1>16, EventOK DEF RequestFails, Fault
  <2> QED
    BY <1>1, <1>15, <1>16, <2>1, Same DEF RequestFails
<1>17. CASE ScanPage
  <2> DEFINE incoming == OnPage(page, "10") \cap Incoming
             best == IF Better(target, incoming) THEN Min(incoming) ELSE target
  <2>1. target' = best
    BY <1>17 DEF ScanPage
  <2>2. best \in Ids \cup {NoId}
    <3>1. CASE Better(target, incoming)
      <4>1. incoming # {} /\ incoming \subseteq Ids
        BY <3>1 DEF Better, Incoming
      <4> QED
        BY <3>1, <4>1, MinMaxOfIds
    <3>2. CASE ~Better(target, incoming)
      BY <1>1, <3>2 DEF ScanOK
    <3> QED
      BY <3>1, <3>2
  <2>3. \/ page' = 0
        \/ page' = page + 1 /\ ~LastPage(OnPage(page, "10"))
    BY <1>17 DEF ScanPage
  <2>4. page' \in 0 .. MaxPages - 1
    BY <1>1, <2>3, ConstantFacts DEF LastPage, ScanOK
  <2>5. ScanOK'
    BY <1>1, <1>17, <2>1, <2>2, <2>4 DEF ScanPage, ScanOK
  <2>6. JobOK' /\ ResultOK' /\ (outcome' = "none" \/ UNCHANGED outcome)
    BY <1>1, <1>17 DEF ScanPage, End, JobOK, ResultOK
  <2>7. SessionOK'
    BY <1>1, <1>17 DEF ScanPage, SessionOK
  <2>8. SmtpInv'
    BY <1>1, <1>17, <2>6
       DEF ScanPage, SmtpInv, Smtp!TypeOK, Encrypted, TakenLast, Smtp!NoCredentialInClear,
           Smtp!SuccessMeansTaken, Smtp!Outcomes
  <2> QED
    BY <1>1, <1>17, <2>5, <2>6, <2>7, <2>8, Same DEF ScanPage
<1>18. CASE Submit
  <2>1. SmtpInv'
    BY <1>1, <1>18, SmtpStep DEF Submit
  <2>2. EventsOK'
    BY <1>1, <1>18, EventOK, Same DEF Submit, Fault
  <2>3. HistoryOK'
    <3>1. target \in Ids
      BY <1>18 DEF Submit, IInv, Records, TargetFits
    <3> QED
      BY <1>1, <1>18, <3>1 DEF Submit, HistoryOK, history
  <2> QED
    BY <1>1, <1>18, <2>1, <2>2, <2>3, Same DEF Submit
<1>19. CASE MailDone
  <2>1. CASE MailAccepted(outcome)
    <3>1. phase' = "erase" /\ Request("rd") /\ UNCHANGED <<work, result, excused>>
      BY <1>19, <2>1 DEF MailDone
    <3>2. JobOK' /\ ResultOK' /\ HistoryOK' /\ SessionOK'
      BY <1>1, <1>19, <3>1, RequestOK DEF MailDone, Request, JobOK, ResultOK, HistoryOK
    <3> QED
      BY <1>1, <1>19, <3>2, Same DEF MailDone
  <2>2. CASE ~MailAccepted(outcome)
    <3>1. End("forward_failed") /\ excused' = excused \cup {target} /\ UNCHANGED session
      BY <1>19, <2>2 DEF MailDone
    <3>2. target \in Ids
      BY <1>19 DEF MailDone, IInv, Records, TargetFits
    <3>3. JobOK' /\ ResultOK' /\ HistoryOK'
      BY <1>1, <1>19, <3>1, <3>2 DEF MailDone, End, JobOK, ResultOK, HistoryOK
    <3> QED
      BY <1>1, <1>19, <3>1, <3>3, Same DEF MailDone
  <2> QED
    BY <2>1, <2>2
<1>20. CASE TokenRead
  <2>1. SessionOK' /\ JobOK'
    BY <1>1, <1>20 DEF TokenRead, Request, JobOK, SessionOK
  <2> QED
    BY <1>1, <1>20, <2>1, Same DEF TokenRead
<1>21. CASE DeletionAnswered
  <2>1. DeviceOK' /\ EventsOK'
    BY <1>1, <1>21, EraseOK, EventOK, Same DEF DeletionAnswered, Fault
  <2>2. Request("list") /\ verifying' = TRUE /\ UNCHANGED <<work, phase, result>>
    BY <1>21 DEF DeletionAnswered, AfterDeletion
  <2>3. SessionOK' /\ JobOK' /\ ResultOK'
    BY <1>1, <2>2 DEF Request, JobOK, ResultOK, SessionOK
  <2>4. ScanOK'
    BY <1>1, <1>21, <2>2 DEF DeletionAnswered, ScanOK
  <2> QED
    BY <1>1, <1>21, <2>1, <2>3, <2>4, Same DEF DeletionAnswered
<1>22. CASE DeletionLost
  <2>1. DeviceOK' /\ EventsOK'
    BY <1>1, <1>22, EraseOK, EventOK DEF DeletionLost, Fault
  <2> QED
    BY <1>1, <1>15, <1>22, <2>1, Same DEF DeletionLost
<1>23. CASE DeletionRefused
  BY <1>1, <1>15, <1>23, Same DEF DeletionRefused
<1>24. CASE Verified
  <2>1. ScanOK'
    BY <1>1, <1>24 DEF Verified, ScanOK
  <2>2. CASE phase = "erase"
    <3>1. /\ End("forwarded") /\ UNCHANGED <<session, deleted>>
          /\ excused' = IF box[target] = "gone" THEN excused ELSE excused \cup {target}
      BY <1>24, <2>2 DEF Verified
    <3>2. JobOK' /\ ResultOK' /\ HistoryOK'
      BY <1>1, <1>2, <1>24, <2>2, <3>1 DEF Verified, End, JobOK, ResultOK, HistoryOK
    <3>3. SendingOK'
      BY <1>1, <1>24, <3>1 DEF Verified, SendingOK
    <3> QED
      BY <1>1, <1>24, <2>1, <3>1, <3>2, <3>3, Same DEF Verified
  <2>3. CASE phase # "erase"
    <3>1. deleted' = deleted + 1 /\ deleted < MaxPages * PageSize /\ UNCHANGED excused
      <4>1. phase # "none"
        BY <1>24 DEF Verified, IInv, Control, StepFits
      <4> QED
        BY <1>24, <2>3, <4>1 DEF Verified, IInv, Control, Counts
    <3>2. SendingOK'
      <4>1. deleted' \in 0 .. MaxPages * PageSize
        BY <1>1, <3>1, ConstantFacts DEF SendingOK
      <4> QED
        BY <1>1, <1>24, <4>1 DEF Verified, SendingOK
    <3>3. \/ End(SendResult) /\ UNCHANGED session
          \/ Request("list") /\ UNCHANGED <<work, phase, result>>
      BY <1>24, <2>3 DEF Verified
    <3>4. JobOK' /\ ResultOK' /\ SessionOK'
      BY <1>1, <3>3 DEF End, SendResult, Request, JobOK, ResultOK, SessionOK, session
    <3>5. HistoryOK'
      BY <1>1, <1>24, <3>1 DEF Verified, HistoryOK
    <3> QED
      BY <1>1, <1>24, <2>1, <3>2, <3>4, <3>5, Same DEF Verified
  <2> QED
    BY <2>2, <2>3
<1>25. CASE Unverified
  <2>1. ScanOK'
    BY <1>1, <1>25 DEF Unverified, ScanOK
  <2>2. CASE phase = "erase" \/ cleanups + 1 = MaxCleanups
    <3>1. Abort /\ UNCHANGED <<session, tag, deleted, cleanups>>
      BY <1>25, <2>2 DEF Unverified
    <3>2. JobOK' /\ ResultOK' /\ HistoryOK'
      BY <1>15, <1>25, <3>1 DEF Unverified
    <3>3. SendingOK'
      BY <1>1, <1>25, <3>1 DEF Unverified, SendingOK
    <3> QED
      BY <1>1, <1>25, <2>1, <3>1, <3>2, <3>3, Same DEF Unverified
  <2>3. CASE ~(phase = "erase" \/ cleanups + 1 = MaxCleanups)
    <3>1. /\ cleanups' = cleanups + 1 /\ deleted' = 0 /\ tag' = "sent"
          /\ Request("list") /\ UNCHANGED <<work, phase, result, excused>>
      BY <1>25, <2>3 DEF Unverified
    <3>2. cleanups' \in 0 .. MaxCleanups /\ deleted' \in 0 .. MaxPages * PageSize
      <4>1. phase # "none"
        BY <1>25 DEF Unverified, IInv, Control, StepFits
      <4>2. cleanups < MaxCleanups
        BY <4>1 DEF IInv, Control, Counts
      <4> QED
        BY <1>1, <3>1, <4>2, ConstantFacts DEF SendingOK
    <3>3. SendingOK'
      BY <1>1, <1>25, <3>1, <3>2 DEF Unverified, SendingOK
    <3>4. JobOK' /\ ResultOK' /\ SessionOK' /\ HistoryOK'
      BY <1>1, <1>25, <3>1 DEF Unverified, Request, JobOK, ResultOK, SessionOK, HistoryOK
    <3> QED
      BY <1>1, <1>25, <2>1, <3>3, <3>4, Same DEF Unverified
  <2> QED
    BY <2>2, <2>3
<1>26. CASE FindOutgoing
  <2>1. CASE OnPage(0, tag) # {}
    <3>1. /\ target' = IF device.newestFirst THEN Max(OnPage(0, tag)) ELSE Min(OnPage(0, tag))
          /\ Request("rd") /\ UNCHANGED <<work, phase, result, tag>>
      BY <1>26, <2>1 DEF FindOutgoing
    <3>2. target' \in Ids
      <4>1. OnPage(0, tag) \subseteq Ids
        BY DEF OnPage, Listing, Live
      <4> QED
        BY <2>1, <3>1, <4>1, MinMaxOfIds
    <3>3. ScanOK'
      BY <1>1, <1>26, <3>2 DEF FindOutgoing, ScanOK
    <3>4. JobOK' /\ ResultOK' /\ SessionOK' /\ SendingOK'
      BY <1>1, <1>26, <3>1
         DEF FindOutgoing, Request, JobOK, ResultOK, SessionOK, SendingOK
    <3> QED
      BY <1>1, <1>26, <3>3, <3>4, Same DEF FindOutgoing
  <2>2. CASE OnPage(0, tag) = {}
    <3>1. /\ UNCHANGED target
          /\ \/ tag' = "failed" /\ Request("list") /\ UNCHANGED <<work, phase, result>>
             \/ End(SendResult) /\ UNCHANGED <<session, tag>>
      BY <1>26, <2>2 DEF FindOutgoing
    <3>2. JobOK' /\ ResultOK' /\ SessionOK'
      BY <1>1, <3>1 DEF End, SendResult, Request, JobOK, ResultOK, SessionOK, session
    <3>3. SendingOK' /\ ScanOK'
      BY <1>1, <1>26, <3>1 DEF FindOutgoing, SendingOK, ScanOK
    <3> QED
      BY <1>1, <1>26, <3>2, <3>3, Same DEF FindOutgoing
  <2> QED
    BY <2>1, <2>2
<1>27. CASE PostAccepted
  <2>1. DeviceOK' /\ mine' \in Ids /\ alone' \in BOOLEAN
    BY <1>1, <1>27, TakeOK DEF PostAccepted
  <2>2. JobOK' /\ SessionOK'
    BY <1>1, <1>27 DEF PostAccepted, Request, JobOK, SessionOK
  <2>3. SendingOK'
    BY <1>1, <1>27, <2>1, ConstantFacts DEF PostAccepted, SendingOK
  <2> QED
    BY <1>1, <1>27, <2>1, <2>2, <2>3, Same DEF PostAccepted
<1>28. CASE PostLost
  <2>1. DeviceOK' /\ mine' \in Ids /\ alone' \in BOOLEAN
    BY <1>1, <1>28, TakeOK DEF PostLost
  <2>2. EventsOK'
    BY <1>1, <1>28, EventOK DEF PostLost, Fault
  <2>3. SendingOK'
    BY <1>1, <1>28, <2>1 DEF PostLost, SendingOK
  <2> QED
    BY <1>1, <1>15, <1>28, <2>1, <2>2, <2>3, Same DEF PostLost
<1>29. CASE PostRejected
  BY <1>1, <1>15, <1>29, Same DEF PostRejected
<1>30. CASE StatusPolled
  <2>1. polls' \in 0 .. MaxStatus
    <3>1. polls < MaxStatus
      BY <1>30 DEF StatusPolled, IInv, Control, StepFits
    <3> QED
      BY <1>1, <1>30, <3>1, ConstantFacts DEF StatusPolled, SendingOK
  <2>2. CASE StatusWord = "progress"
    <3>1. /\ End("in_progress") \/ UNCHANGED <<work, phase, step, result>>
          /\ UNCHANGED <<session, scan, tag, deleted, cleanups, verdict>>
      BY <1>30, <2>2 DEF StatusPolled
    <3>2. JobOK' /\ ResultOK'
      BY <1>1, <3>1 DEF End, JobOK, ResultOK
    <3>3. SendingOK'
      BY <1>1, <1>30, <2>1, <3>1 DEF StatusPolled, SendingOK
    <3> QED
      BY <1>1, <1>30, <3>1, <3>2, <3>3, Same DEF StatusPolled
  <2>3. CASE StatusWord # "progress"
    <3>1. /\ verdict' = IF StatusWord = "done" THEN "confirmed" ELSE "failed"
          /\ phase' = "clean" /\ Request("list")
          /\ tag' = "sent" /\ deleted' = 0 /\ cleanups' = 0 /\ verifying' = FALSE
          /\ UNCHANGED <<work, page, target, result>>
      BY <1>30, <2>3 DEF StatusPolled
    <3>2. JobOK' /\ ResultOK' /\ SessionOK' /\ ScanOK'
      <4>1. JobOK' /\ ResultOK'
        BY <1>1, <3>1 DEF Request, JobOK, ResultOK
      <4>2. SessionOK'
        BY <1>1, <3>1, RequestOK
      <4>3. ScanOK'
        BY <1>1, <3>1 DEF ScanOK
      <4> QED
        BY <4>1, <4>2, <4>3
    <3>3. SendingOK'
      BY <1>1, <1>30, <2>1, <3>1, ConstantFacts DEF StatusPolled, SendingOK
    <3> QED
      BY <1>1, <1>30, <3>2, <3>3, Same DEF StatusPolled
  <2> QED
    BY <2>2, <2>3
<1>31. CASE CapacityRead
  <2>1. JobOK' /\ ResultOK'
    BY <1>1, <1>31 DEF CapacityRead, End, JobOK, ResultOK
  <2> QED
    BY <1>1, <1>31, <2>1, Same DEF CapacityRead
<1>32. CASE UNCHANGED vars
  BY <1>1, <1>32, Same DEF vars
<1> QED
  BY NextSteps, <1>3, <1>4, <1>5, <1>6, <1>7, <1>8, <1>9, <1>10, <1>11, <1>13, <1>14, <1>16,
     <1>17, <1>18, <1>19, <1>20, <1>21, <1>22, <1>23, <1>24, <1>25, <1>26, <1>27, <1>28,
     <1>29, <1>30, <1>31, <1>32

-----------------------------------------------------------------------------
(* What a job asks and how much it has left.                               *)

\* A job that ends fits, whatever it was at.
LEMMA EndFits ==
  ASSUME work' = "none", phase' = "none", step' = "none"
  PROVE  StepFits' /\ Counts'
BY DEF StepFits, Asks, Counts

\* A job that goes on with another request has used up nothing.
LEMMA GoOnFits ==
  ASSUME Counts, phase # "none", UNCHANGED <<deleted, cleanups>>
  PROVE  Counts'
BY DEF Counts

LEMMA BeginFits ==
  ASSUME NEW job \in {"poll", "test", "send"}, NEW part, NEW first, Begin(job, part, first),
         <<part, first>> \in {<<"scan", "list">>, <<"check", "capacity">>, <<"submit", "rd">>}
  PROVE  StepFits' /\ Counts'
<1>1. StepFits'
  BY DEF Begin, StepFits, Asks
<1>2. deleted' = 0 /\ cleanups' = 0
  BY DEF Begin
<1>3. Counts'
  BY <1>2, ConstantFacts DEF Counts
<1> QED
  BY <1>1, <1>3

LEMMA ControlStep ==
  ASSUME IInv, [Next]_vars
  PROVE  Control'
<1>0. TypeOK /\ StepFits /\ Counts /\ JobOK
  BY TypeParts DEF IInv, Control
<1>a. SUFFICES StepFits' /\ Counts'
  BY DEF Control
<1>1. ASSUME UNCHANGED <<work, phase, step, resume, polls, deleted, cleanups>>
      PROVE  StepFits' /\ Counts'
  BY <1>0, <1>1 DEF StepFits, Asks, Counts
<1> USE DEF session, scan, sending, history, deviceVars
<1>2. CASE Arrive
  BY <1>1, <1>2 DEF Arrive
<1>3. CASE Deliver
  BY <1>1, <1>3 DEF Deliver
<1>4. CASE Expire
  BY <1>1, <1>4 DEF Expire
<1>5. CASE StartPoll
  BY <1>5, BeginFits DEF StartPoll
<1>6. CASE StartTest
  BY <1>6, BeginFits DEF StartTest
<1>7. CASE StartSend
  BY <1>7, BeginFits DEF StartSend
<1>8. CASE LoginAccepted
  BY <1>0, <1>8 DEF LoginAccepted, StepFits, Asks, Counts
<1>9. CASE Abort
  BY <1>9, EndFits DEF Abort, End
<1>10. CASE VersionsRead
  <2>1. CASE ~Abort
    BY <1>0, <1>10, <2>1 DEF VersionsRead, StepFits, Asks, Counts, TypeOK
  <2> QED
    BY <1>9, <2>1
<1>11. CASE VersionsStale
  <2>1. CASE ~Abort
    BY <1>0, <1>11, <2>1 DEF VersionsStale, StepFits, Asks, Counts
  <2> QED
    BY <1>9, <2>1
<1>12. ASSUME LogInAgain, step \in {"list", "rd"} PROVE StepFits' /\ Counts'
  BY <1>0, <1>12 DEF LogInAgain, AfterLogin, StepFits, Asks, Counts
<1>13. CASE AnswerStale
  BY <1>12, <1>13 DEF AnswerStale
<1>14. CASE AnswerLost
  BY <1>12, <1>14 DEF AnswerLost
<1>15. CASE RequestFails
  BY <1>9, <1>15 DEF RequestFails
<1>16. CASE ScanPage
  BY <1>0, <1>16, EndFits DEF ScanPage, End, StepFits, Asks, Counts
<1>17. CASE Submit
  BY <1>1, <1>17 DEF Submit
<1>18. CASE MailDone
  <2>1. CASE MailAccepted(outcome)
    BY <1>0, <1>18, <2>1 DEF MailDone, Request, StepFits, Asks, Counts
  <2>2. CASE ~MailAccepted(outcome)
    BY <1>18, <2>2, EndFits DEF MailDone, End
  <2> QED
    BY <2>1, <2>2
<1>19. CASE TokenRead
  BY <1>0, <1>19 DEF TokenRead, Request, StepFits, Asks, Counts
<1>20. CASE DeletionAnswered
  BY <1>0, <1>20 DEF DeletionAnswered, AfterDeletion, Request, StepFits, Asks, Counts
<1>21. CASE DeletionLost
  BY <1>9, <1>21 DEF DeletionLost
<1>22. CASE DeletionRefused
  BY <1>9, <1>22 DEF DeletionRefused
<1>23. CASE Verified
  <2>1. CASE End("forwarded") \/ End(SendResult)
    BY <2>1, EndFits DEF End
  <2>2. CASE ~(End("forwarded") \/ End(SendResult))
    <3>1. /\ phase # "erase" /\ Request("list") /\ UNCHANGED <<work, phase, cleanups, polls>>
          /\ deleted' = deleted + 1 /\ deleted + 1 # MaxPages * PageSize
      BY <1>23, <2>2 DEF Verified
    <3>2. StepFits'
      BY <1>0, <1>23, <3>1 DEF Verified, Request, StepFits, Asks
    <3>3. Counts'
      BY <1>0, <3>1, ConstantFacts DEF Counts, TypeOK
    <3> QED
      BY <3>2, <3>3
  <2> QED
    BY <2>1, <2>2
<1>24. CASE Unverified
  <2>1. CASE ~Abort
    <3>1. /\ phase # "erase" /\ Request("list") /\ UNCHANGED <<work, phase, polls>>
          /\ cleanups' = cleanups + 1 /\ cleanups + 1 # MaxCleanups /\ deleted' = 0
      BY <1>24, <2>1 DEF Unverified
    <3>2. StepFits'
      BY <1>0, <1>24, <3>1 DEF Unverified, Request, StepFits, Asks
    <3>3. Counts'
      BY <1>0, <3>1, ConstantFacts DEF Counts, TypeOK
    <3> QED
      BY <3>2, <3>3
  <2> QED
    BY <1>9, <2>1
<1>25. CASE FindOutgoing
  <2>1. CASE ~End(SendResult)
    <3>1. /\ phase = "clean" /\ (Request("rd") \/ Request("list"))
          /\ UNCHANGED <<work, phase, deleted, cleanups, polls>>
      BY <1>25, <2>1 DEF FindOutgoing
    <3>2. StepFits'
      BY <1>0, <1>25, <3>1 DEF FindOutgoing, Request, StepFits, Asks
    <3>3. Counts'
      BY <1>0, <3>1, GoOnFits
    <3> QED
      BY <3>2, <3>3
  <2> QED
    BY <2>1, EndFits DEF End
<1>26. CASE PostAccepted
  <2>1. /\ phase = "submit" /\ phase' = "confirm" /\ step' = "status" /\ polls' = 0
        /\ UNCHANGED <<work, deleted, cleanups>> /\ work # "none"
    BY <1>0, <1>26 DEF PostAccepted, Request, StepFits
  <2>2. 0 < MaxStatus
    BY ConstantFacts
  <2>3. StepFits'
    BY <2>1, <2>2 DEF StepFits, Asks
  <2> QED
    BY <1>0, <2>1, <2>3, GoOnFits
<1>27. CASE PostLost
  BY <1>9, <1>27 DEF PostLost
<1>28. CASE PostRejected
  BY <1>9, <1>28 DEF PostRejected
<1>29. CASE StatusPolled
  <2>1. CASE End("in_progress")
    BY <2>1, EndFits DEF End
  <2>2. CASE StatusWord = "progress" /\ ~End("in_progress")
    <3>1. /\ UNCHANGED <<work, phase, step, resume, deleted, cleanups>>
          /\ polls' = polls + 1 /\ polls + 1 # MaxStatus /\ step = "status"
      BY <1>29, <2>2 DEF StatusPolled, LastPoll
    <3>2. polls' < MaxStatus
      <4>1. polls < MaxStatus
        BY <1>0, <3>1 DEF StepFits
      <4> QED
        BY <1>0, <3>1, <4>1, ConstantFacts DEF TypeOK
    <3> QED
      BY <1>0, <3>1, <3>2 DEF StepFits, Asks, Counts
  <2>3. CASE StatusWord # "progress"
    <3>1. /\ phase' = "clean" /\ step' = "list" /\ deleted' = 0 /\ cleanups' = 0
          /\ work' = work /\ phase = "confirm" /\ work # "none"
      BY <1>0, <1>29, <2>3 DEF StatusPolled, Request, StepFits
    <3>2. StepFits'
      BY <3>1 DEF StepFits, Asks
    <3>3. Counts'
      BY <3>1, ConstantFacts DEF Counts
    <3> QED
      BY <3>2, <3>3
  <2> QED
    BY <2>1, <2>2, <2>3
<1>30. CASE CapacityRead
  BY <1>30, EndFits DEF CapacityRead, End
<1>31. CASE UNCHANGED vars
  BY <1>1, <1>31 DEF vars
<1> QED
  BY NextSteps, <1>2, <1>3, <1>4, <1>5, <1>6, <1>7, <1>8, <1>10, <1>11, <1>13, <1>14, <1>15,
     <1>16, <1>17, <1>18, <1>19, <1>20, <1>21, <1>22, <1>23, <1>24, <1>25, <1>26, <1>27,
     <1>28, <1>29, <1>30, <1>31

-----------------------------------------------------------------------------
(* The records and the mails.                                              *)

RecordVars == <<box, word, stage, outcome, taken, target, mailed, verdict, mine, alone>>

\* A step that moves no record and stays in its part of the job.
LEMMA QuietStep ==
  ASSUME Records, UNCHANGED RecordVars, phase' = phase, excused' = excused
  PROVE  Records'
BY DEF Records, RecordVars, MailFits, TargetFits, CameIn, Accounted, SendFits, Pending

\* A job that ends leaves its target excused, unless it has not mailed it.
LEMMA StopStep ==
  ASSUME Records, UNCHANGED RecordVars, phase # "forward", phase' = "none",
         excused \subseteq excused', phase = "erase" => target \in excused'
  PROVE  Records'
<1>1. MailFits' /\ TargetFits' /\ CameIn'
  BY DEF Records, RecordVars, MailFits, TargetFits, CameIn
<1>2. Accounted'
  BY DEF Records, RecordVars, Accounted
<1>3. SendFits'
  BY DEF Records, RecordVars, SendFits, Pending
<1> QED
  BY <1>1, <1>2, <1>3 DEF Records

LEMMA AbortRecords ==
  ASSUME Records, StepFits, UNCHANGED RecordVars, step # "none", Abort
  PROVE  Records'
<1>1. phase # "forward" /\ phase' = "none"
  BY DEF StepFits, Abort, End
<1>2. excused \subseteq excused' /\ (phase = "erase" => target \in excused')
  BY DEF Abort
<1> QED
  BY <1>1, <1>2, StopStep

LEMMA BeginRecords ==
  ASSUME TypeOK, Records, StepFits, NEW job, NEW part \in {"scan", "check", "submit"}, NEW first,
         Begin(job, part, first)
  PROVE  Records'
<1>1. /\ phase = "none" /\ phase' = part /\ target' = NoId /\ taken' = FALSE
      /\ verdict' = "none" /\ UNCHANGED <<box, word, mailed, excused>>
  BY DEF Begin, StepFits, deviceVars, history
<1>2. MailFits' /\ TargetFits'
  BY <1>1 DEF MailFits, TargetFits
<1>3. CameIn' /\ Accounted'
  BY <1>1 DEF Records, CameIn, Accounted
<1>4. SendFits'
  BY <1>1 DEF SendFits
<1> QED
  BY <1>2, <1>3, <1>4 DEF Records

\* A new record, or one a send stores, takes an unused place.
LEMMA ArriveRecords ==
  ASSUME TypeOK, Records, Arrive
  PROVE  Records'
<1> DEFINE m == Min(Fresh)
<1>1. /\ box' = [box EXCEPT ![m] = "in"]
      /\ UNCHANGED <<word, phase, target, verdict, mine, alone, stage, outcome, taken, mailed,
                     excused>>
  BY DEF Arrive, smtp, history, sending, scan
<1>2. m \in Ids /\ box[m] = "none"
  BY FreshMin DEF Arrive
<1> HIDE DEF m
<1>3. /\ box \in [Ids -> {"none", "in", "pending", "sent", "failed", "gone"}]
      /\ target \in Ids \cup {NoId} /\ mailed \subseteq Ids
  BY DEF TypeOK
<1>4. \A i \in Ids : box[i] # "none" => box'[i] = box[i]
  BY <1>1, <1>2, <1>3
<1>5. m \notin mailed
  BY <1>2 DEF Records, CameIn
<1>6. MailFits' /\ TargetFits' /\ CameIn'
  BY <1>1, <1>3, <1>4 DEF Records, MailFits, TargetFits, CameIn
<1>7. Accounted'
  BY <1>1, <1>3, <1>4, <1>5 DEF Records, CameIn, Accounted
<1>8. Pending' = Pending
  BY <1>1, <1>2, <1>3 DEF Pending
<1>9. SendFits'
  BY <1>1, <1>3, <1>4, <1>8 DEF Records, SendFits
<1> QED
  BY <1>6, <1>7, <1>9 DEF Records

LEMMA DeliverRecords ==
  ASSUME TypeOK, Records, Deliver
  PROVE  Records'
<1>1. PICK m \in Pending, fate \in {"sent", "failed"} :
        /\ box' = [box EXCEPT ![m] = fate]
        /\ word' = IF fate = "sent" THEN "done" ELSE "failed"
  BY DEF Deliver
<1>2. UNCHANGED <<phase, target, verdict, mine, alone, stage, outcome, taken, mailed, excused>>
  BY DEF Deliver, smtp, history, sending, scan
<1>3. /\ box \in [Ids -> {"none", "in", "pending", "sent", "failed", "gone"}]
      /\ target \in Ids \cup {NoId} /\ mailed \subseteq Ids
  BY DEF TypeOK
<1>4. m \in Ids /\ box[m] = "pending"
  BY DEF Pending
<1>5. \A i \in Ids : box[i] # "pending" => box'[i] = box[i]
  BY <1>1, <1>3, <1>4
<1>6. MailFits' /\ TargetFits' /\ CameIn'
  BY <1>2, <1>3, <1>5 DEF Records, MailFits, TargetFits, CameIn
<1>7. Accounted'
  BY <1>2, <1>3, <1>5 DEF Records, CameIn, Accounted
<1>8. Pending' = Pending \ {m}
  BY <1>1, <1>3, <1>4 DEF Pending
<1>9. SendFits'
  <2>1. phase' \in {"submit", "confirm"} => verdict' = "none"
    BY <1>2 DEF Records, SendFits
  <2>2. verdict' = "confirmed" /\ alone' => mine' \in Ids /\ box'[mine'] \in {"sent", "gone"}
    BY <1>2, <1>3, <1>5 DEF Records, SendFits
  <2>3. ASSUME phase = "confirm", alone
        PROVE  mine \in Ids /\ Pending' \subseteq {mine} /\ (word' = "done" => box'[mine] = "sent")
    <3>1. mine \in Ids /\ Pending \subseteq {mine}
      BY <2>3 DEF Records, SendFits
    <3>2. m = mine
      BY <3>1
    <3>3. box'[mine] = fate
      BY <1>1, <1>3, <1>4, <3>2
    <3> QED
      BY <1>1, <1>8, <3>1, <3>3
  <2> QED
    BY <1>2, <2>1, <2>2, <2>3 DEF SendFits
<1> QED
  BY <1>6, <1>7, <1>9 DEF Records

\* What a deletion does to the device.
LEMMA EraseRecords ==
  ASSUME TypeOK, Records, Erase, phase \in {"erase", "clean"},
         UNCHANGED <<stage, outcome, taken, target, mailed, verdict, mine, alone>>,
         \/ phase' = phase /\ excused' = excused
         \/ phase' = "none" /\ excused \subseteq excused' /\ (phase = "erase" => target \in excused')
  PROVE  Records'
<1>1. /\ box' = [box EXCEPT ![target] = "gone"] /\ word' = word
      /\ box \in [Ids -> {"none", "in", "pending", "sent", "failed", "gone"}]
      /\ target \in Ids \cup {NoId} /\ mailed \subseteq Ids
  BY DEF TypeOK, Erase
<1>2. \A i \in Ids : box'[i] = IF i = target THEN "gone" ELSE box[i]
  BY <1>1
<1>3. MailFits'
  BY DEF Records, MailFits
<1>4. TargetFits'
  BY <1>1, <1>2 DEF Records, TargetFits
<1>5. CameIn'
  BY <1>1, <1>2 DEF Records, CameIn
<1>6. Accounted'
  BY <1>1, <1>2 DEF Records, Accounted
<1>7. SendFits'
  BY <1>1, <1>2 DEF Records, SendFits
<1> QED
  BY <1>3, <1>4, <1>5, <1>6, <1>7 DEF Records

\* The device stores what it is asked to send.
LEMMA TakeRecords ==
  ASSUME TypeOK, Records, TakeForSending, phase = "submit",
         UNCHANGED <<stage, outcome, taken, target, mailed, verdict, excused>>,
         phase' \in {"confirm", "none"}
  PROVE  Records'
<1> DEFINE m == Min(Fresh)
<1>1. /\ box' = [box EXCEPT ![m] = "pending"] /\ word' = "progress"
      /\ mine' = m /\ alone' = (Pending = {})
  BY DEF TakeForSending
<1>2. m \in Ids /\ box[m] = "none"
  BY FreshMin DEF TakeForSending
<1> HIDE DEF m
<1>3. /\ box \in [Ids -> {"none", "in", "pending", "sent", "failed", "gone"}]
      /\ target \in Ids \cup {NoId} /\ mailed \subseteq Ids
  BY DEF TypeOK
<1>4. \A i \in Ids : box[i] # "none" => box'[i] = box[i]
  BY <1>1, <1>2, <1>3
<1>5. box'[m] = "pending"
  BY <1>1, <1>2, <1>3
<1>6. MailFits' /\ TargetFits' /\ CameIn'
  BY <1>3, <1>4 DEF Records, MailFits, TargetFits, CameIn
<1>7. Accounted'
  BY <1>3, <1>4 DEF Records, Accounted, CameIn
<1>8. Pending' = Pending \cup {m}
  BY <1>1, <1>2, <1>3 DEF Pending
<1>9. SendFits'
  BY <1>1, <1>2, <1>8 DEF Records, SendFits
<1> QED
  BY <1>6, <1>7, <1>9 DEF Records

\* A step of a submission: the channel closes with an outcome, and what is
\* taken stays taken until the next connection.
LEMMA SubmissionStep ==
  ASSUME SmtpInv, Smtp!Next
  PROVE  /\ stage' = "closed" => outcome' # "none"
         /\ stage # "closed" /\ taken => taken'
<1>1. CASE Smtp!Connect
  BY <1>1 DEF Smtp!Connect
<1>2. CASE Smtp!ConnectFails
  BY <1>2 DEF Smtp!ConnectFails, Smtp!Ended
<1>3. CASE Smtp!Answered
  BY <1>3 DEF Smtp!Answered, Smtp!AfterAnswer
<1>4. CASE Smtp!Listed
  BY <1>4 DEF Smtp!Listed, Smtp!AfterListing, Smtp!Ended
<1>5. CASE Smtp!StartTlsAccepted \/ Smtp!Handshake
  BY <1>5 DEF Smtp!StartTlsAccepted, Smtp!Handshake
<1>6. CASE Smtp!HandshakeFails \/ Smtp!Quit
  BY <1>6 DEF Smtp!HandshakeFails, Smtp!Quit, Smtp!Ended
<1>7. CASE Smtp!Refused
  BY <1>7 DEF Smtp!Refused, Smtp!Rejection, Smtp!Ended
<1>8. CASE Smtp!Accepted
  BY <1>8 DEF Smtp!Accepted
<1>9. CASE Smtp!DotUnanswered
  BY <1>9 DEF Smtp!DotUnanswered, Smtp!Rejection, Smtp!Ended, SmtpInv, TakenLast
<1> QED
  BY <1>1, <1>2, <1>3, <1>4, <1>5, <1>6, <1>7, <1>8, <1>9 DEF Smtp!Next

LEMMA SubmitRecords ==
  ASSUME IInv, Submit
  PROVE  Records'
<1>1. /\ phase = "forward" /\ phase' = "forward" /\ target \in Ids /\ box[target] = "in"
      /\ UNCHANGED <<box, word, target, verdict, mine, alone>>
      /\ stage # "closed" \/ outcome = "none"
      /\ stage' = "closed" => outcome' # "none"
      /\ stage # "closed" /\ taken => taken'
  BY SubmissionStep
     DEF Submit, IInv, Records, TargetFits, deviceVars, scan, sending
<1>2. taken => taken' /\ target \in mailed
  BY <1>1 DEF IInv, Records, MailFits
<1>3. \/ taken' /\ ~taken /\ mailed' = mailed \cup {target} /\ excused' = excused \ {target}
      \/ ~(taken' /\ ~taken) /\ mailed' = mailed /\ excused' = excused
  BY DEF Submit, history
<1>4. MailFits'
  BY <1>1, <1>2, <1>3 DEF MailFits
<1>5. TargetFits'
  BY <1>1 DEF TargetFits
<1>6. CameIn'
  BY <1>1, <1>3 DEF IInv, Records, CameIn
<1>7. Accounted'
  BY <1>1, <1>2, <1>3 DEF IInv, Records, Accounted
<1>8. SendFits'
  BY <1>1 DEF IInv, Records, SendFits
<1> QED
  BY <1>4, <1>5, <1>6, <1>7, <1>8 DEF Records

LEMMA MailDoneRecords ==
  ASSUME IInv, MailDone
  PROVE  Records'
<1>1. phase = "forward" /\ stage = "closed" /\ outcome # "none" /\ UNCHANGED RecordVars
  BY DEF MailDone, deviceVars, scan, sending, smtp, RecordVars
<1>2. CASE outcome = "success"
  <2>1. phase' = "erase" /\ excused' = excused
    BY <1>2 DEF MailDone, MailAccepted
  <2>2. target \in mailed
    BY <1>1, <1>2 DEF IInv, SmtpInv, Smtp!SuccessMeansTaken, Records, MailFits
  <2> QED
    BY <1>1, <2>1, <2>2
       DEF IInv, Records, RecordVars, MailFits, TargetFits, CameIn, Accounted, SendFits
<1>3. CASE outcome # "success"
  <2>1. phase' = "none" /\ excused' = excused \cup {target}
    BY <1>3 DEF MailDone, MailAccepted, End
  <2> QED
    BY <1>1, <2>1
       DEF IInv, Records, RecordVars, MailFits, TargetFits, CameIn, Accounted, SendFits
<1> QED
  BY <1>2, <1>3

LEMMA ScanRecords ==
  ASSUME IInv, ScanPage
  PROVE  Records'
<1> DEFINE incoming == OnPage(page, "10") \cap Incoming
           best == IF Better(target, incoming) THEN Min(incoming) ELSE target
<1>1. /\ phase = "scan" /\ target' = best
      /\ phase' \in {"scan", "forward", "none"} /\ (phase' = "forward" => best # NoId)
      /\ UNCHANGED <<box, word, stage, taken, mailed, excused, verdict, mine, alone>>
  BY DEF ScanPage, End, deviceVars, sending, history
<1>2. best = NoId \/ (best \in Ids /\ box[best] = "in")
  <2>1. CASE Better(target, incoming)
    <3>1. incoming # {} /\ incoming \subseteq Ids
      BY <2>1 DEF Better, Incoming
    <3>2. Min(incoming) \in incoming
      BY <3>1, MinMaxOfIds
    <3> QED
      BY <2>1, <3>2 DEF Incoming
  <2>2. CASE ~Better(target, incoming)
    BY <1>1, <2>2 DEF IInv, TypeOK, Records, TargetFits
  <2> QED
    BY <2>1, <2>2
<1> HIDE DEF best, incoming
<1>3. ~taken
  BY <1>1 DEF IInv, Records, MailFits
<1> QED
  BY <1>1, <1>2, <1>3
     DEF IInv, Records, MailFits, TargetFits, CameIn, Accounted, SendFits, Pending

LEMMA FindRecords ==
  ASSUME IInv, FindOutgoing
  PROVE  Records'
<1>1. /\ phase = "clean" /\ phase' \in {"clean", "none"}
      /\ UNCHANGED <<box, word, stage, outcome, taken, mailed, excused, verdict, mine, alone>>
  BY DEF FindOutgoing, Request, End, deviceVars, smtp, history
<1>2. target' = target \/ (target' \in Ids /\ box[target'] \in {"sent", "failed"})
  <2>1. CASE OnPage(0, tag) # {}
    <3>1. target' = IF device.newestFirst THEN Max(OnPage(0, tag)) ELSE Min(OnPage(0, tag))
      BY <2>1 DEF FindOutgoing
    <3>2. tag \in {"sent", "failed"}
      BY DEF IInv, TypeOK
    <3>3. OnPage(0, tag) \subseteq {i \in Ids : box[i] = tag}
      BY <3>2 DEF OnPage, Listing, TagsOf
    <3>4. target' \in OnPage(0, tag)
      BY <2>1, <3>1, <3>3, MinMaxOfIds
    <3> QED
      BY <3>2, <3>3, <3>4
  <2>2. CASE OnPage(0, tag) = {}
    BY <2>2 DEF FindOutgoing
  <2> QED
    BY <2>1, <2>2
<1> QED
  BY <1>1, <1>2
     DEF IInv, Records, MailFits, TargetFits, CameIn, Accounted, SendFits, Pending

LEMMA PollRecords ==
  ASSUME IInv, StatusPolled
  PROVE  Records'
<1>1. /\ phase = "confirm" /\ target = NoId
      /\ UNCHANGED <<box, word, stage, outcome, taken, target, mailed, excused, mine, alone>>
  BY DEF StatusPolled, IInv, Control, StepFits, Records, TargetFits, deviceVars, smtp, history,
         scan
<1>2. \/ verdict' = verdict /\ phase' \in {"confirm", "none"}
      \/ /\ phase' = "clean"
         /\ verdict' = "confirmed" => word = "done"
  BY <1>1 DEF StatusPolled, End, StatusWord
<1>3. verdict = "none"
  BY <1>1 DEF IInv, Records, SendFits
<1>4. MailFits' /\ TargetFits' /\ CameIn' /\ Accounted'
  BY <1>1, <1>2 DEF IInv, Records, MailFits, TargetFits, CameIn, Accounted
<1>5. Pending' = Pending
  BY <1>1 DEF Pending
<1>6. SendFits'
  BY <1>1, <1>2, <1>3, <1>5 DEF IInv, Records, SendFits
<1> QED
  BY <1>4, <1>6 DEF Records

LEMMA RecordsStep ==
  ASSUME IInv, [Next]_vars
  PROVE  Records'
<1>0. TypeOK /\ StepFits /\ Records
  BY DEF IInv, Control
<1> USE DEF RecordVars, deviceVars, scan, sending, smtp, history, session
<1>1. CASE Arrive
  BY <1>0, <1>1, ArriveRecords
<1>2. CASE Deliver
  BY <1>0, <1>2, DeliverRecords
<1>3. CASE Expire \/ LoginAccepted \/ AnswerStale \/ AnswerLost \/ TokenRead
  BY <1>0, <1>3, QuietStep
     DEF Expire, LoginAccepted, AnswerStale, AnswerLost, LogInAgain, TokenRead
<1>4. CASE StartPoll
  BY <1>0, <1>4, BeginRecords DEF StartPoll
<1>5. CASE StartTest
  BY <1>0, <1>5, BeginRecords DEF StartTest
<1>6. CASE StartSend
  BY <1>0, <1>6, BeginRecords DEF StartSend
<1>7. CASE VersionsRead
  BY <1>0, <1>7, QuietStep, AbortRecords DEF VersionsRead
<1>8. CASE VersionsStale
  BY <1>0, <1>8, QuietStep, AbortRecords DEF VersionsStale
<1>9. CASE RequestFails
  BY <1>0, <1>9, AbortRecords DEF RequestFails
<1>10. CASE ScanPage
  BY <1>10, ScanRecords
<1>11. CASE Submit
  BY <1>11, SubmitRecords
<1>12. CASE MailDone
  BY <1>12, MailDoneRecords
<1>13. CASE DeletionAnswered
  <2>1. /\ phase \in {"erase", "clean"} /\ phase' = phase /\ excused' = excused
        /\ UNCHANGED <<stage, outcome, taken, target, mailed, verdict, mine, alone>>
    BY <1>0, <1>13 DEF DeletionAnswered, AfterDeletion, Request, StepFits
  <2>2. Erase \/ UNCHANGED <<box, word>>
    BY <1>13 DEF DeletionAnswered
  <2> QED
    BY <1>0, <2>1, <2>2, EraseRecords, QuietStep
<1>14. CASE DeletionLost
  <2>1. /\ phase \in {"erase", "clean"} /\ Erase /\ phase' = "none"
        /\ excused \subseteq excused' /\ (phase = "erase" => target \in excused')
        /\ UNCHANGED <<stage, outcome, taken, target, mailed, verdict, mine, alone>>
    BY <1>0, <1>14 DEF DeletionLost, Abort, End, StepFits
  <2> QED
    BY <1>0, <2>1, EraseRecords
<1>15. CASE DeletionRefused
  BY <1>0, <1>15, AbortRecords DEF DeletionRefused
<1>16. CASE Verified
  <2>1. CASE phase = "erase"
    <3>1. /\ phase' = "none" /\ UNCHANGED RecordVars
          /\ excused' = IF box[target] = "gone" THEN excused ELSE excused \cup {target}
      BY <1>16, <2>1 DEF Verified, End
    <3> QED
      BY <1>0, <2>1, <3>1
         DEF Records, MailFits, TargetFits, CameIn, Accounted, SendFits, Pending
  <2>2. CASE phase # "erase"
    <3>1. /\ UNCHANGED RecordVars /\ excused' = excused /\ phase # "forward"
          /\ phase' \in {phase, "none"}
      BY <1>0, <1>16, <2>2 DEF Verified, End, Request, StepFits
    <3> QED
      BY <1>0, <2>2, <3>1, QuietStep, StopStep
  <2> QED
    BY <2>1, <2>2
<1>17. CASE Unverified
  <2>1. UNCHANGED RecordVars /\ step # "none"
    BY <1>17 DEF Unverified
  <2>2. Abort \/ (phase' = phase /\ excused' = excused)
    BY <1>17 DEF Unverified
  <2> QED
    BY <1>0, <2>1, <2>2, QuietStep, AbortRecords
<1>18. CASE FindOutgoing
  BY <1>18, FindRecords
<1>19. CASE PostAccepted
  <2>1. /\ phase = "submit" /\ phase' = "confirm" /\ TakeForSending
        /\ UNCHANGED <<stage, outcome, taken, target, mailed, verdict, excused>>
    BY <1>0, <1>19 DEF PostAccepted, StepFits
  <2> QED
    BY <1>0, <2>1, TakeRecords
<1>20. CASE PostLost
  <2>1. /\ phase = "submit" /\ phase' = "none" /\ TakeForSending
        /\ UNCHANGED <<stage, outcome, taken, target, mailed, verdict, excused>>
    BY <1>0, <1>20 DEF PostLost, StepFits, Abort, End
  <2> QED
    BY <1>0, <2>1, TakeRecords
<1>21. CASE PostRejected
  BY <1>0, <1>21, AbortRecords DEF PostRejected
<1>22. CASE StatusPolled
  BY <1>22, PollRecords
<1>23. CASE CapacityRead
  <2>1. /\ phase = "check" /\ phase' = "none" /\ excused' = excused /\ UNCHANGED RecordVars
    BY <1>0, <1>23 DEF CapacityRead, End, StepFits, Asks
  <2> QED
    BY <1>0, <2>1, StopStep
<1>24. CASE UNCHANGED vars
  BY <1>0, <1>24, QuietStep DEF vars
<1> QED
  BY NextSteps, <1>1, <1>2, <1>3, <1>4, <1>5, <1>6, <1>7, <1>8, <1>9, <1>10, <1>11, <1>12,
     <1>13, <1>14, <1>15, <1>16, <1>17, <1>18, <1>19, <1>20, <1>21, <1>22, <1>23, <1>24

-----------------------------------------------------------------------------
(* What holds of the jobs, whatever the faults.                            *)

LEMMA InitIInv == Init => IInv
<1> SUFFICES ASSUME Init PROVE IInv
  OBVIOUS
<1>1. DeviceOK
  <2>1. Stored \cup {"none"} \subseteq {"none", "in", "sent", "failed"}
    BY ZteAssumption
  <2> QED
    BY <2>1 DEF Init, DeviceOK
<1>2. JobOK /\ ResultOK
  BY DEF Init, JobOK, ResultOK
<1>3. SessionOK
  <2>1. 0 \in 0 .. 1
    OBVIOUS
  <2> QED
    BY <2>1, Zenon DEF Init, SessionOK
<1>4. ScanOK
  <2>1. 0 \in 0 .. MaxPages - 1
    BY ConstantFacts
  <2>2. page = 0 /\ target = NoId /\ verifying = FALSE
    BY DEF Init
  <2> QED
    BY <2>1, <2>2 DEF ScanOK
<1>5. SendingOK
  <2>1. 0 \in 0 .. MaxPages * PageSize /\ 0 \in 0 .. MaxStatus /\ 0 \in 0 .. MaxCleanups
    BY ConstantFacts
  <2>2. /\ tag = "sent" /\ deleted = 0 /\ polls = 0 /\ cleanups = 0 /\ verdict = "none"
        /\ mine = NoId /\ alone = TRUE
    BY DEF Init
  <2> QED
    BY <2>1, <2>2 DEF SendingOK
<1>6. SmtpInv
  BY SmtpInit DEF Init
<1>7. HistoryOK /\ EventsOK
  BY ConstantFacts DEF Init, HistoryOK, EventsOK
<1>8. TypeOK
  BY <1>1, <1>2, <1>3, <1>4, <1>5, <1>6, <1>7, TypeParts DEF SmtpInv
<1>9. StepFits /\ Counts
  BY DEF Init, StepFits, Asks, Counts
<1>10. Records
  BY DEF Init, Records, MailFits, TargetFits, CameIn, Accounted, SendFits
<1> QED
  BY <1>6, <1>8, <1>9, <1>10 DEF IInv, Control

THEOREM InductiveInvariant == Spec => []IInv
<1>1. IInv /\ [Next]_vars => IInv'
  BY TypeStep, ControlStep, RecordsStep DEF IInv
<1> QED
  BY InitIInv, <1>1, PTL DEF Spec

\* The variables always have their types, so pages, polls and cleanups stay
\* within the limits of the code.
THEOREM TypeCorrect == Spec => []TypeOK
<1>1. IInv => TypeOK
  BY DEF IInv
<1> QED
  BY InductiveInvariant, <1>1, PTL

\* In the gateway, too, no credential leaves in clear and what is reported as
\* submitted was taken: one submission leaves nothing behind for the next.
THEOREM SubmissionsAreSafe ==
  Spec => [](Smtp!NoCredentialInClear /\ Smtp!SuccessMeansTaken)
<1>1. IInv => Smtp!NoCredentialInClear /\ Smtp!SuccessMeansTaken
  BY DEF IInv, SmtpInv
<1> QED
  BY InductiveInvariant, <1>1, PTL

\* A send reported as sent was delivered when its record was the only one that
\* the device was sending.
THEOREM ConfirmedIsSent == Spec => []ConfirmedMeansSent
<1>1. IInv => ConfirmedMeansSent
  BY DEF IInv, Records, SendFits, ConfirmedMeansSent
<1> QED
  BY InductiveInvariant, <1>1, PTL

LEMMA RemailStep ==
  ASSUME IInv, [Next]_vars, ~taken, taken', target \in mailed
  PROVE  target \in excused
<1>1. Submit
  BY NextSteps
     DEF Arrive, Deliver, Expire, StartPoll, StartTest, StartSend, Begin, LoginAccepted,
         VersionsRead, VersionsStale, AnswerStale, AnswerLost, LogInAgain, RequestFails,
         ScanPage, MailDone, TokenRead, DeletionAnswered, DeletionLost, DeletionRefused,
         Verified, Unverified, FindOutgoing, PostAccepted, PostLost, PostRejected,
         StatusPolled, CapacityRead, vars, smtp
<1>2. phase = "forward" /\ box[target] = "in"
  BY <1>1 DEF Submit, IInv, Records, TargetFits
<1> QED
  BY <1>2 DEF IInv, Records, Accounted

\* A record is mailed twice only when the first mail was followed by a reported
\* failure, or by a verification that overlooked the record.
THEOREM RemailedWhenExcused == Spec => RemailedOnlyAfterFailure
<1>1. IInv /\ [Next]_vars => [~taken /\ taken' /\ target \in mailed => target \in excused]_vars
  BY RemailStep
<1> QED
  BY InductiveInvariant, <1>1, PTL DEF Spec, RemailedOnlyAfterFailure

-----------------------------------------------------------------------------
(* The refinement of SmsDelivery.                                          *)

Arrived == {i \in Ids : box[i] = "in" \/ i \in mailed}

\* No record came, was mailed or left.
LEMMA DeliveryStutter ==
  ASSUME Incoming' = Incoming, mailed' = mailed
  PROVE  UNCHANGED Delivery!vars
<1>1. \A i \in Ids : (box'[i] = "in") <=> (box[i] = "in")
  BY DEF Incoming
<1>2. Arrived' = Arrived
  BY <1>1 DEF Arrived
<1> QED
  BY <1>2 DEF Arrived, Delivery!vars

LEMMA DeliveryStep ==
  ASSUME IInv, [Next]_vars
  PROVE  [Delivery!Next]_Delivery!vars
<1>0. /\ box \in [Ids -> {"none", "in", "pending", "sent", "failed", "gone"}]
      /\ target \in Ids \cup {NoId} /\ mailed \subseteq Ids
      /\ Records /\ StepFits
  BY DEF IInv, TypeOK, Control
<1>1. CASE box' = box /\ mailed' = mailed
  BY <1>1, DeliveryStutter DEF Incoming
<1>2. CASE Arrive
  <2>1. PICK m \in Ids : m = Min(Fresh)
    BY <1>2, FreshMin DEF Arrive
  <2>2. box[m] = "none" /\ box' = [box EXCEPT ![m] = "in"] /\ mailed' = mailed
    BY <1>2, <2>1, FreshMin DEF Arrive, history
  <2>3. m \notin mailed
    BY <1>0, <2>2 DEF Records, CameIn
  <2>4. \A i \in Ids : box'[i] = IF i = m THEN "in" ELSE box[i]
    BY <1>0, <2>2
  <2>5. Incoming' = Incoming \cup {m}
    BY <2>2, <2>4 DEF Incoming
  <2>6. Arrived' = Arrived \cup {m} /\ m \notin Arrived
    BY <2>2, <2>3, <2>4 DEF Arrived
  <2>7. Delivery!Arrive(m)
    BY <2>2, <2>5, <2>6 DEF Delivery!Arrive, Arrived
  <2> QED
    BY <2>7 DEF Delivery!Next
<1>3. CASE Deliver
  <2>1. PICK i \in Pending, fate \in {"sent", "failed"} : box' = [box EXCEPT ![i] = fate]
    BY <1>3 DEF Deliver
  <2>2. Incoming' = Incoming
    BY <1>0, <2>1 DEF Incoming, Pending
  <2>3. mailed' = mailed
    BY <1>3 DEF Deliver, history
  <2> QED
    BY <2>2, <2>3, DeliveryStutter
<1>4. CASE Erase /\ phase \in {"erase", "clean"} /\ mailed' = mailed
  <2>1. box' = [box EXCEPT ![target] = "gone"]
    BY <1>4 DEF Erase
  <2>2. CASE target \in Ids /\ box[target] = "in"
    <3>1. target \in mailed /\ target \in Incoming
      <4>1. target # NoId
        BY <2>2, ConstantFacts
      <4>2. phase # "clean"
        BY <1>0, <2>2, <4>1 DEF Records, TargetFits
      <4>3. target \in mailed
        BY <1>0, <1>4, <4>2 DEF Records, TargetFits
      <4> QED
        BY <2>2, <4>3 DEF Incoming
    <3>2. Incoming' = Incoming \ {target}
      BY <1>0, <2>1, <2>2 DEF Incoming
    <3>3. Arrived' = Arrived
      BY <1>0, <1>4, <2>1, <2>2, <3>1 DEF Arrived
    <3>4. Delivery!Erase(target)
      BY <1>4, <3>1, <3>2, <3>3 DEF Delivery!Erase, Arrived
    <3> QED
      BY <2>2, <3>4 DEF Delivery!Next
  <2>3. CASE ~(target \in Ids /\ box[target] = "in")
    <3>1. Incoming' = Incoming
      BY <1>0, <2>1, <2>3 DEF Incoming
    <3> QED
      BY <1>4, <3>1, DeliveryStutter
  <2> QED
    BY <2>2, <2>3
<1>5. CASE TakeForSending /\ mailed' = mailed
  <2>1. box' = [box EXCEPT ![Min(Fresh)] = "pending"]
    BY <1>5 DEF TakeForSending
  <2>2. box[Min(Fresh)] = "none"
    BY <1>5, FreshMin DEF TakeForSending
  <2>3. Incoming' = Incoming
    BY <1>0, <2>1, <2>2 DEF Incoming
  <2> QED
    BY <1>5, <2>3, DeliveryStutter
<1>6. CASE Submit
  <2>1. box' = box /\ target \in Ids /\ box[target] = "in"
        /\ (mailed' = mailed \/ mailed' = mailed \cup {target})
    BY <1>6 DEF Submit, IInv, Records, TargetFits, deviceVars, history
  <2>2. CASE mailed' = mailed \cup {target}
    <3>1. Incoming' = Incoming /\ Arrived' = Arrived /\ {target} \subseteq Arrived
      BY <1>0, <2>1, <2>2 DEF Incoming, Arrived
    <3>2. Delivery!Mail({target})
      BY <2>2, <3>1 DEF Delivery!Mail, Arrived
    <3> QED
      BY <2>1, <3>2 DEF Delivery!Next
  <2> QED
    BY <1>1, <2>1, <2>2
<1>7. \/ Arrive \/ Deliver \/ Submit
      \/ Erase /\ phase \in {"erase", "clean"} /\ mailed' = mailed
      \/ TakeForSending /\ mailed' = mailed
      \/ box' = box /\ mailed' = mailed
  BY <1>0, NextSteps
     DEF StepFits, deviceVars, history, Expire, StartPoll, StartTest, StartSend, Begin,
         LoginAccepted, VersionsRead, VersionsStale, AnswerStale, AnswerLost, LogInAgain,
         RequestFails, ScanPage, MailDone, TokenRead, DeletionAnswered, DeletionLost,
         DeletionRefused, Verified, Unverified, FindOutgoing, PostAccepted, PostLost,
         PostRejected, StatusPolled, CapacityRead, vars
<1> QED
  BY <1>1, <1>2, <1>3, <1>4, <1>5, <1>6, <1>7

\* The ZTE source keeps the delivery contract of the modem source: a record that
\* came in leaves the device only after a mail with it was accepted, whichever
\* request, answer, session or mail is lost and whatever the device deletes.
THEOREM ForwardingImplementsDelivery == Spec => DeliveryContract
<1>1. Init => Delivery!Init
  <2> SUFFICES ASSUME Init PROVE Delivery!Init
    OBVIOUS
  <2>1. mailed = {}
    BY DEF Init
  <2>2. Arrived = Incoming
    BY <2>1 DEF Arrived, Incoming
  <2>3. Incoming \subseteq Ids
    BY DEF Incoming
  <2> QED
    BY <2>1, <2>2, <2>3 DEF Delivery!Init, Arrived
<1>2. IInv /\ [Next]_vars => [Delivery!Next]_Delivery!vars
  BY DeliveryStep
<1> QED
  BY InductiveInvariant, <1>1, <1>2, PTL DEF Spec, DeliveryContract, Delivery!Spec
=============================================================================
