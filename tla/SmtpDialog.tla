----------------------------- MODULE SmtpDialog -----------------------------
(***************************************************************************)
(* One e-mail submission (smtp_client.cpp): connect, greet, upgrade to     *)
(* TLS, authenticate, hand over the message.  `stage' is the reply the     *)
(* client waits for; the mail server is modelled by what it answers.       *)
(* A reply code other than the expected one, a timeout, a line that does   *)
(* not fit and a closed socket all take the same branch of the client.     *)
(***************************************************************************)
EXTENDS Naturals

VARIABLES
  stage,      \* the reply sendMail waits for; "closed" when no channel is open
  security,   \* securityMode of the configuration used
  tls,        \* the channel is encrypted
  offers,     \* extensions in the last EHLO reply
  listedTls,  \* that reply came over the encrypted channel
  taken,      \* the server has taken responsibility for the message
  outcome     \* SmtpSendResult of the last submission; "none" while one runs

smtpVars == <<stage, security, tls, offers, listedTls, taken, outcome>>

Modes      == {"starttls", "implicit"}
Extensions == {"STARTTLS", "AUTH"}
AuthStages == {"auth_login", "auth_username", "auth_password"}
MailStages == {"mail_from", "rcpt_to", "data", "body", "dot"}
Stages     == {"closed", "banner", "ehlo", "starttls", "handshake", "ehlo_tls", "quit"}
              \cup AuthStages \cup MailStages
Outcomes   == {"none", "success", "connect_failed", "tls_unavailable", "tls_failed",
               "auth_rejected", "message_rejected", "dialog_failed"}

TypeOK ==
  /\ stage \in Stages
  /\ security \in Modes
  /\ tls \in BOOLEAN
  /\ offers \subseteq Extensions
  /\ listedTls \in BOOLEAN
  /\ taken \in BOOLEAN
  /\ outcome \in Outcomes

Init ==
  /\ stage = "closed"
  /\ security \in Modes
  /\ tls = FALSE
  /\ offers = {}
  /\ listedTls = FALSE
  /\ taken = FALSE
  /\ outcome = "none"

-----------------------------------------------------------------------------

Ended(result) ==
  /\ stage' = "closed"
  /\ outcome' = result
  /\ tls' = FALSE

\* channel_.connect: implicit TLS encrypts from the first byte.
Connect ==
  /\ stage = "closed"
  /\ stage' = "banner"
  /\ tls' = (security = "implicit")
  /\ offers' = {}
  /\ listedTls' = FALSE
  /\ taken' = FALSE
  /\ outcome' = "none"
  /\ UNCHANGED security

ConnectFails ==
  /\ stage = "closed"
  /\ Ended("connect_failed")
  /\ offers' = {} /\ listedTls' = FALSE /\ taken' = FALSE
  /\ UNCHANGED security

\* Replies that only let the dialog go on.
AfterAnswer ==
  [banner |-> "ehlo", auth_login |-> "auth_username", auth_username |-> "auth_password",
   auth_password |-> "mail_from", mail_from |-> "rcpt_to", rcpt_to |-> "data",
   data |-> "body", body |-> "dot"]

Answered ==
  /\ stage \in DOMAIN AfterAnswer
  /\ stage' = AfterAnswer[stage]
  /\ UNCHANGED <<security, tls, offers, listedTls, taken, outcome>>

\* Where an EHLO reply leads, from its extensions.
AfterListing ==
  IF security = "starttls" /\ stage = "ehlo"
  THEN IF "STARTTLS" \in offers' THEN "starttls" ELSE "starttls_missing"
  ELSE IF "AUTH" \in offers' THEN "auth_login" ELSE "auth_missing"

Listed ==
  /\ stage \in {"ehlo", "ehlo_tls"}
  /\ offers' \in SUBSET Extensions
  /\ listedTls' = tls
  /\ CASE AfterListing = "starttls_missing" -> Ended("tls_unavailable")
       [] AfterListing = "auth_missing"     -> Ended("dialog_failed")
       [] OTHER -> stage' = AfterListing /\ UNCHANGED <<tls, outcome>>
  /\ UNCHANGED <<security, taken>>

StartTlsAccepted ==
  /\ stage = "starttls"
  /\ stage' = "handshake"
  /\ UNCHANGED <<security, tls, offers, listedTls, taken, outcome>>

Handshake ==
  /\ stage = "handshake"
  /\ stage' = "ehlo_tls"
  /\ tls' = TRUE
  /\ UNCHANGED <<security, offers, listedTls, taken, outcome>>

HandshakeFails ==
  /\ stage = "handshake"
  /\ Ended("tls_failed")
  /\ UNCHANGED <<security, offers, listedTls, taken>>

\* The result of a missing or unexpected reply.
Rejection ==
  CASE stage = "starttls"      -> "tls_unavailable"
    [] stage \in AuthStages    -> "auth_rejected"
    [] stage \in {"mail_from", "rcpt_to", "data", "dot"} -> "message_rejected"
    [] OTHER                   -> "dialog_failed"

\* A reply other than the expected one, none at all, or a write that failed.
Refused ==
  /\ stage \in {"banner", "ehlo", "starttls", "ehlo_tls"} \cup AuthStages
               \cup (MailStages \ {"dot"})
  /\ \E result \in {Rejection, "dialog_failed"} : Ended(result)
  /\ UNCHANGED <<security, offers, listedTls, taken>>

\* The final dot is answered with 250.
Accepted ==
  /\ stage = "dot"
  /\ stage' = "quit"
  /\ taken' = TRUE
  /\ UNCHANGED <<security, tls, offers, listedTls, outcome>>

\* The final dot, or the answer to it, is lost: the server may have taken the message.
DotUnanswered ==
  /\ stage = "dot"
  /\ taken' \in BOOLEAN
  /\ \E result \in {Rejection, "dialog_failed"} : Ended(result)
  /\ UNCHANGED <<security, offers, listedTls>>

\* The answer to QUIT is ignored.
Quit ==
  /\ stage = "quit"
  /\ Ended("success")
  /\ UNCHANGED <<security, offers, listedTls, taken>>

Next ==
  \/ Connect \/ ConnectFails \/ Answered \/ Listed
  \/ StartTlsAccepted \/ Handshake \/ HandshakeFails
  \/ Refused \/ Accepted \/ DotUnanswered \/ Quit

Spec == Init /\ [][Next]_smtpVars

-----------------------------------------------------------------------------

\* Credentials and message only travel encrypted, and only to a server that
\* offered AUTH over the encrypted channel, whatever it offered before.
NoCredentialInClear ==
  stage \in AuthStages \cup MailStages => tls /\ listedTls /\ "AUTH" \in offers

\* A submission is reported as successful only when the server took the
\* message; the converse fails when the answer to the final dot is lost.
SuccessMeansTaken == outcome = "success" \/ stage = "quit" => taken
=============================================================================
