------------------------------ MODULE NtpServer ------------------------------
(***************************************************************************)
(* The NTP server on the LAN (ntp_server.cpp): one datagram is taken from  *)
(* the socket per round of loop(), drained whatever its size, and answered *)
(* with the published time, with a kiss-o'-death when this second's budget *)
(* is spent, or not at all.                                                *)
(*                                                                         *)
(* now counts real time since the boot in fractions of a second.  millis() *)
(* is 32 bits wide: it starts anew every Turn of them, which is no whole   *)
(* number of seconds.  The socket holds one datagram that was begun (rx)   *)
(* and those behind it.                                                    *)
(***************************************************************************)
EXTENDS Integers, Sequences, FiniteSets

CONSTANTS
  Second,       \* ticks of now in a second
  Turn,         \* ticks of now in 2^32 ms
  Limit,        \* kNtpRateLimitPerSecond
  Behind,       \* bound: datagrams the IP stack holds
  MaxDatagrams, \* bound: datagrams that arrive
  MaxTime,      \* bound on now
  MaxOutages    \* bound: links lost and ports that cannot be bound

ASSUME NtpServerAssumption ==
  /\ {Second, Limit} \subseteq Nat \ {0}
  /\ Turn \in Nat /\ Turn >= Second
  /\ {Behind, MaxDatagrams, MaxTime, MaxOutages} \subseteq Nat

\* A datagram: under, at or over 48 bytes, and whether its mode is client.
Datagrams == [size : {"short", "whole", "long"}, client : BOOLEAN]

VARIABLES
  now,      \* real time; millis() is now % Turn
  link,     \* WiFi.status() == WL_CONNECTED
  started,  \* started_
  rx,       \* the datagram begun by parsePacket and not read to its end
  queue,    \* those that wait behind it
  synced,   \* the published stratum is not 0
  window,   \* rateWindow_
  count,    \* rateCount_
  answers,  \* history: answers sent
  outages,  \* outages left
  arrivals  \* datagrams to come

ntpVars == <<now, link, started, rx, queue, synced, window, count, answers, outages, arrivals>>

NtpInit ==
  /\ now = 0
  /\ link = FALSE /\ started = FALSE
  /\ rx = <<>> /\ queue = <<>>
  /\ synced = FALSE
  /\ window = 0 /\ count = 0
  /\ answers = <<>>
  /\ outages = MaxOutages
  /\ arrivals = MaxDatagrams

-----------------------------------------------------------------------------
(* Plausible bugs, used only to show that the properties notice them.      *)

\* What was not read of a datagram stays in the socket.
DrainedOfWhole(d) == IF d.size = "whole" THEN <<>> ELSE <<d>>

\* The window is one of milliseconds.
WindowOfMillis(t) == t

-----------------------------------------------------------------------------
(* loop().                                                                 *)

\* The second of millis() at a real time.
WindowOf(t) == (t % Turn) \div Second

CountNow == IF WindowOf(now) # window THEN 1 ELSE count + 1

\* udp.read takes 48 bytes and udp.flush the rest.
Drained(d) == <<>>

SocketClosed == rx' = <<>> /\ queue' = <<>>

StopWhenDown ==
  /\ ~link /\ started
  /\ started' = FALSE
  /\ SocketClosed
  /\ UNCHANGED <<now, link, synced, window, count, answers, outages, arrivals>>

MayBind == link /\ ~started

Bind ==
  /\ MayBind
  /\ started' = TRUE
  /\ UNCHANGED <<now, link, rx, queue, synced, window, count, answers, outages, arrivals>>

BindFails ==
  /\ MayBind /\ outages > 0
  /\ outages' = outages - 1
  /\ UNCHANGED <<now, link, started, rx, queue, synced, window, count, answers, arrivals>>

\* parsePacket returns a datagram only when none is begun.
Received(d) ==
  /\ link /\ started
  /\ rx = <<>> /\ queue # <<>> /\ d = Head(queue)
  /\ queue' = Tail(queue)
  /\ rx' = Drained(d)

Ignores(d) == d.size = "short" \/ ~synced \/ ~d.client

Ignore ==
  /\ \E d \in Datagrams : Received(d) /\ Ignores(d)
  /\ UNCHANGED <<now, link, started, synced, window, count, answers, outages, arrivals>>

\* A request within the budget gets the time, one above it a kiss-o'-death.
Answer ==
  /\ \E d \in Datagrams : Received(d) /\ ~Ignores(d)
  /\ window' = WindowOf(now)
  /\ count' = CountNow
  /\ answers' = Append(answers, [at |-> now, kiss |-> CountNow > Limit])
  /\ UNCHANGED <<now, link, started, synced, outages, arrivals>>

Loop == StopWhenDown \/ Bind \/ BindFails \/ Ignore \/ Answer

-----------------------------------------------------------------------------
(* The network, the clock and TimeSync.                                    *)

Arrive ==
  /\ started /\ link /\ Len(queue) < Behind /\ arrivals > 0
  /\ \E d \in Datagrams : queue' = Append(queue, d)
  /\ arrivals' = arrivals - 1
  /\ UNCHANGED <<now, link, started, rx, synced, window, count, answers, outages>>

LinkUp ==
  /\ ~link
  /\ link' = TRUE
  /\ UNCHANGED <<now, started, rx, queue, synced, window, count, answers, outages, arrivals>>

LinkDown ==
  /\ link /\ outages > 0
  /\ link' = FALSE
  /\ outages' = outages - 1
  /\ UNCHANGED <<now, started, rx, queue, synced, window, count, answers, arrivals>>

\* TimeSync publishes a stratum, or loses its last source.
Publish ==
  /\ synced' = ~synced
  /\ UNCHANGED <<now, link, started, rx, queue, window, count, answers, outages, arrivals>>

Tick ==
  /\ now < MaxTime
  /\ now' = now + 1
  /\ UNCHANGED <<link, started, rx, queue, synced, window, count, answers, outages, arrivals>>

NtpNext == Loop \/ Arrive \/ LinkUp \/ LinkDown \/ Publish \/ Tick

\* The loop task keeps visiting the server.
NtpSpec == NtpInit /\ [][NtpNext]_ntpVars /\ WF_ntpVars(Loop)

-----------------------------------------------------------------------------
(* Properties.                                                             *)

NtpTypeOK ==
  /\ now \in 0 .. MaxTime
  /\ {link, started, synced} \subseteq BOOLEAN
  /\ Len(rx) <= 1 /\ Len(queue) <= Behind
  /\ \A i \in DOMAIN rx : rx[i] \in Datagrams
  /\ \A i \in DOMAIN queue : queue[i] \in Datagrams
  /\ window \in 0 .. now \div Second /\ count \in 0 .. MaxDatagrams
  /\ \A i \in DOMAIN answers : answers[i] \in [at : 0 .. now, kiss : BOOLEAN]
  /\ outages \in 0 .. MaxOutages /\ arrivals \in 0 .. MaxDatagrams

\* Answers that gave the time within the ticks from t on.
Given(t, ticks) ==
  {i \in DOMAIN answers : ~answers[i].kiss /\ answers[i].at \in t .. t + ticks - 1}

\* The budget is counted by the second of millis(), so a second of real time that
\* crosses a boundary of those may get it twice.  The last second before millis() starts
\* anew is cut short: a second that contains it may get the budget three times.
BudgetInAnySecond ==
  \A t \in 0 .. now :
    Cardinality(Given(t, Second)) <=
      IF t \div Turn = (t + Second - 1) \div Turn THEN 2 * Limit ELSE 3 * Limit

\* No datagram, whatever its size or mode, makes the server deaf: what waits in
\* the socket is taken as long as the link holds.
NeverDeaf == (rx # <<>> \/ queue # <<>>) ~> (rx = <<>> /\ queue = <<>>) \/ ~link

=============================================================================
