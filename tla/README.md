# Verification of the SMS gate

TLA+ models, TLC runs and TLAPS proofs for the firmware of the LilyGO
T-SIM7670G-S3 SMS gate (`sms_gate/`): a board that receives SMS over its own
SIM7670G modem or over a ZTE MF79RU router, forwards them by e-mail, sends SMS
on request of its web interface, reads GNSS positions and serves time by NTP.

Source paths are relative to the repository. `PROJECT.json` lists the runs, the
code behind each definition (`map`), the hazards and the findings.

## 1. Inventory

| component | state it keeps | operations | talks to |
|---|---|---|---|
| **Forwarding cycle** `modem_service.cpp` (`runPollCycle`, `forwardSms`, `forwardCompleteConcat`, `forwardExpiredConcat`, `deleteConcatSet`) | locals of the cycle | scan, read and probe, cache, choose, submit, delete, restore | AT client, cache, SMTP client |
| **Multipart cache** `modem/concat_cache.h` | two sets of at most five parts, with age, SMTP and deletion flags | store, advance, find complete or expired, mark, remove | forwarding cycle |
| **Task lifecycle** `modem_service.cpp`, `gps_service.cpp`, `system/task_control.h`, `system/modem_lock.h`, `modem/modem_transport.h` | task handles, stop flags, the `Serial1` mutex, the UART reference count, send flags | sync (stop and create), poll, send, begin and end of a transport | HTTP handlers, FreeRTOS |
| **Time synchronisation** `time_sync.cpp` | last sample, quarantine and backoff of each source; published state | feed, arbitrate, discipline, start and stop SNTP | GNSS and modem polls, lwIP, NTP server |
| **AT client** `modem_client.cpp` | scratch buffer, failed stage, charset, PDU reference | init, list, read, probe, delete, send, status | `Serial1` |
| **GNSS client and service** `gps_client.cpp`, `gps_service.cpp` | receiver power, published fix | power up, restart, poll | `Serial1`, time sync |
| **ZTE source** `zte_service.cpp`, `zte_client.cpp` | reserved operation, session, results of test and send | poll cycle, test, send with status polling, clean-up | router over HTTP, SMTP client |
| **SMTP client and service** `smtp_client.cpp`, `smtp_service.cpp` | dialog stage; configuration, test result | send mail; save, test | mail server |
| **NTP server** `ntp_server.cpp` | started, rate window | serve one datagram per loop | time sync |
| **Wi-Fi manager** `wifi_manager.cpp` | connection state, access point and its deadlines | connect, fall back, reconnect, test a profile | radio, time sync |
| **Watchdog** `watchdog.cpp`, `sms_gate.ino` | boot count and safe mode in RTC memory | boot, loop, restart, clear | all tasks |
| **HTTP interface** `http_server.cpp`, `web_api.cpp` | none of its own | save settings, start send or test, status | every service |
| **Configuration stores** `config_store_*.cpp` | one NVS record each | load, migrate, save | NVS |
| **Codecs, validators, e-mail builder, web application, tools** | none | pure functions, rendering, assets | |

### How they interact

Five kinds of tasks run side by side: the Arduino loop task (HTTP, Wi-Fi, NTP,
clock), the modem poll task, the GNSS poll task, the ZTE poll task and
short-lived send and test tasks, all but the first pinned to core 0. Everything that speaks AT on `Serial1` takes
one mutex with a time limit and counts itself in the UART's reference count.
The loop task and the send task both stop and start poll tasks, through a stop
flag and a handle, with no lock between them. A modem poll forwards SMS while
it holds the mutex. Samples of time come from the poll tasks and from lwIP's own
task; the loop task arbitrates.

### What is hard

* **Partial failure.** Mail and deletion are two steps; either may fail, and a
  reply may be lost after its effect. The only durable state is the modem's.
* **Slots are reused.** The cache names parts by storage and index, and the
  network fills an index again as soon as it is free.
* **Lifecycle races.** A stop may time out; a handle and a flag are shared by
  three tasks; the UART is closed by whoever counts down to zero, and that count is a
  plain `int` which the modem poll task changes without the lock.
* **Time.** `millis()` rolls over; samples age; the clock may only go forward;
  one source may lie.

* **Late answers.** A modem that answers after its client gave up makes the next
  command read the wrong line; a router may have carried out what it did not answer.
* **Lock-free publication.** Results are several plain fields that a page reads
  while a worker writes them.
* **Resets.** Of five kinds, at any step, over a count in RTC memory and records in
  flash that an older firmware may have written.

What makes each part correct: no SMS leaves the modem unmailed, none is mailed
twice without cause and each is mailed in the end (forwarding, ZTE source); a
cached part is the record in its slot (cache); AT dialogs never overlap, the
UART stays open under the modem poll task, polling survives sends and saves, sends end (life
cycle); the clock is near UTC and monotone and only a fresh, trusted source
wins (time); the device is always reachable through a station or an access
point, and a series of crashes ends in safe mode (Wi-Fi and watchdog); an
operation's result belongs to that operation (ZTE and SMTP services); time is
served only when synchronised, and within a budget (NTP); what the operator
asked for is what runs, over resets, upgrades and failed writes (stores).

## 2. Modules

### `ConcatCache` — `modem/concat_cache.h`

Operators, one for each method, on the array of sets. A stored text is the
message it came from; sender, reference and reference width are one key, for the
code only compares them. First-match searches are `IsFirst`. `StoreIn` keeps the
code's detail that a part already held is not replaced while the set's age
restarts. Text joining is left out; that a joined text
may not fit is the constant `Oversized`.

### `SmsForward` — one poll cycle and its surroundings

The cycle is one thread, because it runs under the modem lock. Each blocking
dialog is one action with every outcome the code can see:

| action | code |
|---|---|
| `BeginCycle`, `ListInbox`, `ListFails` | age the cache, list ME, fall back to SM when ME is empty, once |
| `SkipCached`, `ReadFails`, `SkipUnprobed`, `CachePart`, `FindSingle`, `ScanDone` | the loop over candidates in index order, at most `kMaxSets * kMaxParts + 1` of them |
| `ChooseSet`, `ChooseSingle` | a complete set, then an expired one, then the single record; a part that found no room goes before both |
| `SingleAccepted`, `CompleteAccepted`, `CompleteTooLong`, `FragmentAccepted`, `FragmentPassed`, `FragmentsDone`, `Rejected` | submission by SMTP |
| `ErasePart`, `ErasePartFails`, `EraseDone`, `EraseSingle`, `EraseSingleFails` | CPMS and CMGD |
| `Restore` | back to ME |
| `Arrive`, `Reboot`, `RestartTask` | the network, a restart, a poll task created anew |

`inbox` is the modem's store, `mem1` the storage CPMS selected, `textMode` its
CMGF, `sets` the cache; `pc`, `active`, `pending`, `found`, `fallback` and `job`
are the locals of `runPollCycle`. `mailed`, `joined` and `frags` are what the
mail server accepted (history). The faults a run admits are its constant `Faults`.

Two settings of the cycle are fixed: forwarding is on and SMTP is configured
(otherwise no cycle runs), and one full poll is one cycle.

### `SmsDelivery` — the contract

At-least-once delivery with the modem's store as the only durable state: a
message leaves the store only after an accepted e-mail carried it. `SmsForward`
implements it (`DeliveryContract`, with `store <- Stored`), which is both checked
and proved.

### `PollLifecycle` — tasks on `Serial1`

A poll task is a value of `Tasks` with a step `tpc`, a send task a value of
`Senders` with a step `apc`; the loop task shares `apc` because both run
`syncTask`. `handle`, `stop`, `lock`, `sending`, `cycling`, `refs`, `active` and
`started` are the variables of the code, `uart` is whether `Serial1` runs. A bounded wait is two actions: the awaited thing
happens, or the limit passes while it has not. Every point at which the
scheduler may switch between two accesses to shared state is a step of its own:
the test of the handle and the creation of a task, the gate and the claim of a
send. `begin()` and `end()` of a transport are modelled access by access (`call`, with
`seen` for what was read of the count): the modem poll task runs `end()` after it gave the
lock back (`modem_service.cpp:597`), so both its update of `s_refCount` and its closing of
the UART may fall into a `begin()` of another task, and an update may be lost. `doubled`
is history: a modem poll task was created while another was alive. Safe mode is left out.

### `TimeSync` — sources, quarantine, arbitration, clock

`now` is real time, the code sees it modulo `Wrap`; `samples`, `active`, `until`,
`duration` and `published` are the fields of `TimeSync`. A feed is atomic (it
runs under the lock). `loop()` is three steps, because the reading of
`millis()`, the arbitration with the discipline of the clock, and the
publication are separate: `LoopRead`, `LoopSelect` or `LoopUnsynced`, and
`LoopPublish`. `loopNow` is what it read last. Between two steps at most `LoopDelay`
passes, between two calls at most `LoopPeriod`: `loopFirmware` calls `timeSync.loop` in
each pass and feeds the task watchdog there, which resets the board after 60 s without
(`watchdog.cpp`). Both bounds are far below half a turn of `millis()`, and `LoopDelay` is not
above `Deadband` (a step of `loop()` is never later than the 2 s that the clock may be
off before it is set); only that is assumed of them. `ahead` is the system clock minus UTC. A slew below the dead band
is any part of the difference, since `adjtime` spreads it over later loops; that
`adjtime` fails is taken not to happen. Epoch and accuracy of the published
state, and log throttling, decide nothing and are left out.

### `ZteDialog` — the router as an SMS source

`zte_client.cpp` under the three jobs of `zte_service.cpp` that use it: `poll`,
`test` and `send`. `step` is the HTTP request whose answer the job waits for and
`resume` the one that follows a login; each request is an action for its answer, and
one for an answer that is lost, late or garbled. The device is part of the model: it
may page or ignore the page number, list newest or oldest first, drop sessions, and
claim a deletion it did not carry out. A forward runs the whole submission of
`SmtpDialog`, which is instantiated over variables of the same names. The module
implements `SmsDelivery` too (`DeliveryContract`). Two things are assumed of the records
and the device. All records are readable: one that `captureMessage` refuses
(`zte_client.cpp:488-507`) ends the scan, and every later scan that meets it, which is not
modelled. And a new send resets the device's status word, so that a word read after it is
about this send or a later one; neither the code nor its documents say so, and
`ConfirmedMeansSent` rests on it.

### `SmtpDialog` — one submission

`stage` is the reply the client waits for. Any reply but the expected one, a timeout
and a closed socket take one branch, as in `smtp_client.cpp`. The server's promises
(extensions offered in clear and over TLS, the message taken although its answer was
lost) are variables.

### `AsyncOps` — requests and their results

The handlers of `http_server.cpp` and the services behind them, access by access:
`loop` is the step of the handler on the loop task, `worker[o]` that of the task of
request `o` (`test` and `send` of the ZTE service, `mail` of the SMTP service). The
reservation `active`, the fields of a request, of its result and of the page's answer
are variables of their own, because the code reads and writes them one by one without a
lock. A text is the number of the request it belongs to. The ZTE poll task, its stop
flag and the sync that creates and stops it are in the same module, for they share
the reservation.

### `AtDialog` — the line to the modem

A dialog of `modem_client.cpp` or `gps_client.cpp` (`init`, `poll`, the three ways
to send, `gnss`) is the list `todo` of the steps it has left. A step has a role: it
may fail, must succeed, or is a prompt, a body, a probe of the receiver. `tx` is what
the modem has not read, `line` what the client has not read. The client purges what
has arrived before each command, and may give up on an answer that is still to come
(`GivesUp`); nothing on the line is lost. So a late answer is read by a later command,
in the same dialog or the next one. `dev` is what commands have set (`Effect`), and
`unset` names the receive settings whose command was refused, could not be written, or
was swallowed by a prompt left open. Listing, reading and deleting SMS are steps of
`SmsForward`.

### `Gateway` — boot, safe mode, Wi-Fi

One round of `loop()` is `Head` (watchdog, resumption), a request or none, `WifiLoop`
and `ApLoop`; time and the radio link change between them. A deadline is a timer that
is off, on or due. `Reset` is `setup()` after a crash, power, software or other reset,
with the retained count of RTC memory and the record in flash. Submitting a network
blocks the round (`pc = "test"`) as `testStationCandidate` does.

### `ConfigStores` — profiles over forms, flash and firmware

A behaviour follows one of the five stores: forms that are accepted or rejected,
saves that fail, resets, and boots that load the record, migrate one of an older layout,
or fall back to defaults. `told` is what the operator last asked for, of this
firmware or of the one before. A profile keeps only the fields that decide something: `secret` stands for
host, credentials, addresses and label, `ssid` for a network and its password. A write to flash
is atomic (NVS). Records two versions back, and damaged ones, are not followed.

### `NtpServer` — datagrams and their budget

One round of the server per visit of `loop()`: bind or close with the link, take one
datagram whatever its size, and ignore it, answer it, or refuse it with a
kiss-o'-death. `now` is real time in parts of a second; `millis()` is `now % Turn`, and
the window is the second of that, so the last window of a turn is a short one when `Turn`
is no whole number of seconds (2^32 ms is none). `answers` remembers every answer. The fields of an answer are left out.

### MC and proof modules

`MCSmsForward`, `MCPollLifecycle`, `MCTimeSync`, `MCZteDialog` and `MCGateway` give
the constants that a cfg cannot write. `MCGateway` also takes one
of the initial states that differ only in names. `MCAppliance` puts `ConfigStores`, `NtpServer`
and `AtDialog` into one instance: they share no state, and a behaviour looks at one of them. The modules named `...Proofs` hold theorems.

Operators in a section headed *Plausible bugs* are used by no specification;
they are the mutated forms by which each property was shown to be able to fail.

### How the modules compose

`SmsForward` uses the operators of `ConcatCache` and implements `SmsDelivery`;
`ZteDialog` uses `SmtpDialog` and implements `SmsDelivery`. The others meet at what one
takes from the other as a nondeterministic choice: the outcome of a submission
in `SmsForward` is one of those `SmtpDialog` allows; a dialog in `PollLifecycle` is
one of `AtDialog`, whose assumption of one dialog at a time is what `OneDialog` shows;
the jobs of `ZteDialog` follow one another because of `OneDialog` in `AsyncOps`; safe
mode in `AsyncOps` is that of `Gateway`; the profile `Gateway` boots with is one
`ConfigStores` can load.

## 3. Runs

Times are minutes at most on two cores. Every property of a passing run has a mutant
in `PROJECT.json`: a changed definition under which TLC finds it violated.

### Runs that pass

* **`forward_safety`** — two sets at once that can be completed, a duplicate part, a
  lone part of a second set, and a plain message; two ME slots and a SIM slot
  that may hold a message of an earlier owner; every fault except a lost CMGD
  reply. Nothing is lost (`NoLoss`), the cache agrees with the modem
  (`CacheMirrorsInbox`), a set goes only when all its parts did
  (`SetReleasedWhenClean`), and the cycle implements `DeliveryContract`. Five messages
  in three slots make every slot be reused.
* **`forward_lost_replies`** — with lost CMGD replies, an oversized joined text, a
  message of too many parts and a malformed record, a set is still submitted
  once within a boot (`SubmittedOncePerBoot`) and a flag never runs ahead of SMTP
  (`FlagsFollowMail`).
* **`forward_liveness`** — two parts and a lone part, faults that do not last:
  every message is mailed in the end (`EveryMessageMailed`) and then erased
  (`EveryMessageErased`). The lone part makes the expiry of a set happen, the
  single set (`MaxSets = 1`) the case without room.
* **`contention`** — two sends, a save and both poll services with three poll task
  incarnations, under stop timeouts, lock timeouts and exhausted memory: `OneDialog`,
  `Serial1` runs as long as the modem poll task has its transport begun, whoever begins and
  ends one meanwhile (`ModemKeepsUart`, but for the time after two modem poll tasks were
  alive at once, whose unlocked updates can leave the count wrong), and after one save or
  one send each live poll task is the one its handle names (`PollTaskIsNamed`). Three
  incarnations allow two live tasks
  of one service and one of the other.
* **`polling`** — sends and a save while the modem is polled, with stops and the lock
  timing out: the modem is polled again and again unless a stop request that timed
  out still stands (`ModemKeepsPolling`), and an accepted send ends (`SendEnds`).
* **`one_liar`** — GNSS may be right, ahead, or before 1970; `millis()` rolls over
  in the middle: `AtMostOneExcluded`, `ClockNearUTC`, `ClockOnlyForward`,
  `OnlyFreshSamplesWin`. One unit is a few minutes; windows, quarantine and backoff
  keep their order of size except that the quarantine distance is smaller than a
  freshness window, so that outliers by age alone arise as well. The theorems cover any
  number of turns of `millis()` and the code's own figures.
* **`zte_jobs`** — poll cycles, a send and a connection test on three kinds of router,
  with three events (jobs asked for and faults): mail goes out oldest first
  (`ForwardsOldest`), at least once (`DeliveryContract`, `EveryIncomingMailed`), again
  only after a cycle that reported a failure or a verification that looked at a page the
  record was not on (`RemailedOnlyAfterFailure`), and a confirmed send was sent
  (`ConfirmedMeansSent`). Three ids and pages of two make a second page.
* **`services`** — two requests of each kind, status questions between any two
  accesses, a save, the end of safe mode: an answer that says done is the answer to the
  last request and whole (`AnswerIsWhole`), every request ends (`EveryRequestEnds`), and
  polling goes on unless a stop gave up (`PollingContinues`).
* **`gateway_loop`** — two resets, two requests, one outage, failing flash and a failing
  access point in any order, with two networks that work and one that does not: crashes lead
  to safe mode (`CrashLoopContained`); an access point has the password of the profile in use,
  or is the open one of a device just set up whose shutdown is pending
  (`ApFollowsPassword`); and the device is reachable again and again (`ReachableAgain`), gets back
  to the very network it has saved (`RejoinsNetwork`), leaves safe mode (`ServicesResume`) and
  closes its access point (`ApCloses`). Excepted from `RejoinsNetwork` by name is the one way to
  be connected elsewhere: a candidate that connected and could not be saved
  (`HeldByCandidate`). The threshold is 2 instead of 3; the theorem covers every threshold.
* **`appliance`** — three parts that share no state, one per behaviour.
  *Profiles*: any two forms and two resets with a flash fault, on a device that ran this
  firmware or an older one: `OperatorsWordKept` and `PageRoundTrips` (a page submitted as shown
  changes nothing). Intervals lie at and beyond both limits; ports are 0, an ordinary one and
  one beyond 16 bits.
  *NTP*: four datagrams over the rollover of `millis()`: within a second of real time never more
  than twice the budget, or three times it if `millis()` rolls over in that second
  (`BudgetInAnySecond`; TLC finds either bound reached), and no datagram makes the server deaf
  (`NeverDeaf`).
  *Line to the modem*: any two dialogs, one late answer and one refusal, failed write or
  unsolicited report: a reported send was taken, every part whole and once
  (`SuccessMeansSent`, `PartsInOrder`), text mode and UCS2 are back after each dialog
  (`RestoredAfterDialog`), a status field is never taken from the answer to another
  question (`AnswersFit`), a published fix is of a biased antenna (`StartedWithBias`). What
  the last and the first of these leave open after late answers really happens, see below.
  Two dialogs are what a leftover needs to meet its successor; the theorems are about any
  number of dialogs, parts, late answers and faults.

### The runs that find a disagreement

* **`lost_delete_reply`** — the OK of a CMGD is lost after the deletion; the part's
  deletion is retried by slot in a later cycle, and by then the slot may hold
  another message, which is deleted unmailed. The README promises removal "only
  after successful email delivery".
* **`closed_under_peer`** — nothing fails: the modem is switched off, its poll task finds
  the count at zero, a GNSS poll takes the lock and begins its transport, and then the
  modem task closes the UART under that dialog. `modem_transport.h:61` says that `end`
  releases its reference "without disrupting peers" (`EndDisruptsNobody`).

### Seen while modelling, and not a run

Forwarding from the modem:

* A part mailed as a fragment whose deletion failed is mailed again in the joined
  e-mail when its sibling arrives before the retry: `completeReadyForSmtp` does not
  look at `smtpAccepted`.
* A part stored twice is stored into its set again in every cycle, which restarts the
  age: the set never expires (`concat_cache.h:83`).
* Eleven malformed records at the lowest indices take all candidates, so no later
  message is ever forwarded (`modem_service.cpp:381-382` passes over them).
* The command that returns to text mode after a PDU probe is not retried; if it is
  lost, scans fail until the modem is initialised again.

Tasks:

* `syncTask` with a null handle does not clear a stop request left by a timeout;
  the task it creates ends at once. The ZTE service has the same pattern. Hence the
  exceptions in `ModemKeepsPolling` and `PollingContinues`.
* Two sends that overlap, or a send and a save, both see no task and both create one.
  The lock keeps their dialogs apart (`OneDialog`), but only one of the two can be
  stopped; `PollTaskIsNamed` is about one at a time.
* A poll that begins while the modem poll task ends its transport works on a closed port
  (`closed_under_peer`). The two updates of the count may also overlap, and one of them is
  lost. A count that is one too high stays so until the next reset and keeps `Serial1` open
  from the next dialog on. One that is too low recovers with the end of the dialog it fell
  into, unless another modem poll task has begun by then: its polls may find the port closed.
  Hence the exception in `ModemKeepsUart`.

Time:

* A time sample is never discarded: after 49.7 silent days its age starts again at
  zero. The backoff of a quarantine practically never doubles, because the loop
  resets it as soon as the quarantine is over.
* The quorum is the mean of epochs as sampled, without their age, so fresh peers
  sampled some minutes ago can make a right sample an outlier.

Serial line:

* After a late answer the refusal of a setting may be purged: an SMS is then reported
  as sent though it went out in the wrong charset, or a GNSS status is published though
  bias or restart was refused.
* After three late answers the prompt of an earlier send may be read by the next one, and
  its text goes out under the other's CMGS. Two are not enough (`SentWhenReported`): by
  its submission a send has waited for two answers of its own.
* After six late answers a stale OK may stand for the command that powers the receiver on:
  a GNSS status is published of a receiver left without bias, though nothing was refused.
  With five, and no more than seven GNSS polls, TLC finds no such case.
* A prompt that comes late leaves the modem waiting for a text (no ESC is sent), and the
  commands that follow are swallowed by it.
* Attachment is read from any line that holds `: 1`, the firmware version from any line, and
  the counters of the two stores are told apart only by the store selected.
* The reference of a multipart SMS is always 1, as every send has a client of its own.

ZTE router:

* A device that lists newest first and ignores the page number shows only its newest five
  records: the oldest of those is taken, not the oldest of all.
* Absence is verified on the first page only; a record found on a later page counts as
  gone. Five outgoing records on such a device hide all incoming ones.

Profiles and network:

* NTP settings saved while a boot could not read the network record overwrite it,
  network and password included. `OperatorsWordKept` excuses it by `blind`.
* NTP settings saved before the first set-up are forgotten at the next boot.
* The first set-up over the open access point schedules its shutdown, which is granted only while
  the station is connected (`wifi_manager.cpp:314-315`), and `enterFallback` keeps an access point
  that is already up (line 176). When the link is lost within those three seconds, the recovery
  access point of a device that has a password is the open one until the network is back, though
  `system/wifi_manager.h:7` says "Fallback AP is protected". TLC finds it in seven steps, and
  `ApFollowsPassword` allows it by name.
* An SSID with bytes beyond printable ASCII is accepted by the form and joined, but its
  record can never be saved.
* A candidate that connects but cannot be saved leaves the radio on its network, connected
  and reported as such, until the link is lost or the device restarts. Hence `HeldByCandidate`
  in `RejoinsNetwork`.
* The NTP budget is counted by the second of `millis()`, so twice the budget may go
  out within a second of real time, and three times in the second of the rollover, because the
  last window before it lasts 296 ms.

Some exceptions leave a hazard uncovered, in part or whole; the `note` of each in
`PROJECT.json` says what. The larger ones: a stop request left standing by a timeout excuses
`ModemKeepsPolling` and `PollingContinues`; the clause of `AnswersFit` on the counters of the
two stores is waived once any answer was late or refused; a paging router that lists newest
first and ignores the page is outside `ForwardsOldest`; no property says that a clean
restart does not count towards safe mode, or that no service is started twice.

### Fairness

* `SmsForward`: weak fairness of the cycle (the poll task runs again after its
  delay), and strong fairness of a scan, of an accepted submission and of a
  deletion that are tried again and again: the faults of the environment do not
  last for ever. Nothing is assumed of `Arrive` and `Reboot`.
* `PollLifecycle`: weak fairness of each task (FreeRTOS schedules every ready task
  and all waits are bounded), and strong fairness of taking the lock (a FreeRTOS
  mutex serves tasks of one priority in the order they began to wait).
  Nothing is assumed of saves; a wait may always time out where the fault is
  admitted.
* `ZteDialog`: weak fairness of the running job (every request has a time limit) and of
  the next poll. Faults are bounded by `MaxEvents`.
* `AsyncOps`: weak fairness of the handler, of each worker and of the steps of the poll
  task. Nothing is assumed of new requests or of questions.
* `Gateway`: `loop()` is called for ever, timers elapse, and a network within reach is
  joined while the radio is told to. Outages, resets and requests are bounded.
* `NtpServer`: the loop task keeps visiting the server.
* `TimeSync`, `AtDialog` and `ConfigStores` have no liveness property.

### Bounds

Counters are bounded by constants in guards, and each is marked `bound:` where it is
declared (`MaxSaves`, `MaxSends`, `MaxTime`, `LoopDelay`, `LoopPeriod`, `MaxEvents`, `MaxStarts`,
`MaxRequests`, `MaxResets`, `MaxOutages`, `MaxDialogs`, `MaxLate`, `MaxFaults`,
`MaxDatagrams`, `Behind`); `joined` and `frags` stop at `MaxCount` = 2, one above what the
property allows. `MaxSets`, `MaxParts` and `ExpireCycles` are the code's 2, 5 and 20, reduced
to 1 or 2: the code treats all parts alike, and the difference between first, last
and absent parts exists from two parts on. `PageSize` is 2 for 5, `Tries` 2 for 10,
`MaxStatus` 2 for 20: each keeps a first, a last and an exhausted case. `CHECK_DEADLOCK FALSE` is
given where the bounds on requests, dialogs or events end the run, as each cfg says.

## 4. Proofs

TLAPS checks the following for every value of the constants (their assumptions are
`CacheAssumption`, `ForwardAssumption`, `LifecycleAssumption`, `TimeSyncAssumption`,
`ZteAssumption`, `AsyncAssumption`, `GatewayAssumption`, `ConfigStoresAssumption`,
`NtpServerAssumption` and `AtDialogAssumption`). A theorem with a condition of its own states it as `ASSUME`; there
are two such conditions, `"deleteReply" \notin Faults` and `OneLiar`.

### `SmsForwardProofs`, for any messages, slots, headers and faults

Under every mix of faults:

* `SteadyInvariant`, `TypeCorrect` (`TypeOK`), `FlagsAreTrue` (`FlagsFollowMail`)
* `OnceInvariant`, `AtMostOncePerBoot` (`SubmittedOncePerBoot`), `ReleasedWhenClean`
  (`SetReleasedWhenClean`)

If no reply of a deletion is lost, that is without `deleteReply` (with it `NoLoss` is false,
see `lost_delete_reply`):

* `InductiveInvariant`, `NothingLost` (`NoLoss`), `CacheIsFaithful` (`CacheMirrorsInbox`)
* `OnlyKnownMessages` — nothing is cached or mailed that the network did not deliver
* `ForwardingImplementsDelivery` — `Spec => DeliveryContract`

The facts fall into two groups. `Steady` is what holds whatever the modem replies: types,
flags that follow the mail server (`FlagsFollowMail`), a scan that looks at occupied slots of
the selected storage (`ScanLooksAtMem1`), and what the job is at each step
(`JobMatchesStep`). `SlotFacts` is what a lost reply can break. `NoLoss` alone is not
inductive: a CMGD by slot is harmless only if the slot still holds what was mailed. So it
takes along that a live cached part mirrors its slot (`CacheMirrorsInbox`), that no two live
parts share a slot (`CacheHoldsDistinctSlots`, else one deletion would spoil the other), and
that the single record still is in its selected slot and in no set (`SingleHasItsSlot`).
`IInv` is both groups. The proof has a lemma for each action, on top of lemmas about what
the cache operators change.

`OnceInv` is about the submissions of one boot, and slots may be wrong in it, but no message
is in two places: none in two slots, none cached twice, and a cached message that the modem
still has is in the slot it was read from (`Copies`). A message mailed in this boot that the
modem still has is then still cached, with the flag up that keeps it from being mailed again
(`JoinedOnce`, `FragOnce`). So a lost reply, which can lose a message, cannot make one boot
mail a message twice.

For the refinement each step of the cycle maps to `Arrive`, to `Mail` of what the e-mail
carried, to `Erase` of what `IInv` says is mailed, or to a stutter; `KnownMessages` gives the
guard of `Mail`.

### `PollLifecycleProofs`, for any poll and send tasks and any faults

* `InductiveInvariant`, `DialogsDoNotOverlap` (`OneDialog`), `ModemUartIsKept`
  (`ModemKeepsUart`)
* `NamedInvariant`, `PollTaskStaysNamed` (`PollTaskIsNamed`)

`IInv` adds to the types that a task at a step that owns the lock is its owner
(`LockIsHeld`), which service each task is of (`ServicesAreKnown`), and which steps of a task
leave room for a `begin()` or `end()` (`CallsArePlaced`: all but those of the modem poll task's
last `end()` are under the lock). Nothing says that the count is exact, which it need
not be. `SerialIsRight` is what holds while there was one modem poll task at a time
(`OneModemTask`): it begins alone (`ModemBegins`), and while it is counted `Serial1` runs and
the count is not below one, nor below two with a peer, so no peer's `end()` closes
(`ModemCounts`). The rest is about what a modem task on its way out leaves to the next one:
whoever stops `Serial1` will also clear `s_serialActive`, so that it is begun again, and the
count has nothing over that a peer relies on (`ModemCloses`, `StartsInactive`,
`StoppedWhileStarting`, `StoppedIsCleared`).

`NamedInv` speaks of the time up to one save or one send: only one actor synchronises then
(`OneSync`), and it creates a task only while the handle is null (`CreatesFromNull`), so no
live task can lose its handle to another.

### `TimeSyncProofs`, for every uptime and the code's own figures

* `InductiveInvariant`, `TypeCorrect` (`TypeOK`)
* `OneSourceExcluded` (`AtMostOneExcluded`)
* `FreshSamplesWin` (`OnlyFreshSamplesWin`), `ClockNeverGoesBack` (`ClockOnlyForward`)
* `SpoofDefence` (`ClockNearUTC`), if at most one source lies (`OneLiar`)

The code compares instants modulo a turn of `millis()`, which is right only while they are
near each other. `LoopInTime` says that the loop task read `millis()` not long ago, and
`Deadlines` that a quarantine ends within `QuarantineMax` and was not over long before that
reading. Hence a deadline that has passed is lifted before it would look like one to come
again, and the modular comparison is the real one. `OneExcluded` is `AtMostOneExcluded` in
real time: a quarantine needs a quorum of the two other sources, so neither of them is
excluded. Nothing bounds `MaxTime`.

`SpoofDefence` adds `SamplesNearUTC`: unless a wrong sample came when no quorum could judge
it, a sample of the liar leads UTC by at most the quarantine distance and those of the others
do not lead it. It is kept because two samples that agree are not both the liar's, and their mean is then
not in the future. With two liars it is false: they are a quorum against the truth.

### `ZteDialogProofs`, for any number of records, pages and faults and any router

* `SmtpInvariant`, `NothingInClear` (`NoCredentialInClear`: credentials and message travel
  only over the TLS that the settings ask for), `SuccessIsTaken` (`SuccessMeansTaken`: a
  success reported is a message taken) — of a submission by itself
* `InductiveInvariant`, `TypeCorrect` (`TypeOK`), `SubmissionsAreSafe` (the same two of the
  submissions that the jobs run)
* `ConfirmedIsSent` (`ConfirmedMeansSent`), `RemailedWhenExcused` (`RemailedOnlyAfterFailure`)
* `ForwardingImplementsDelivery` — `Spec => DeliveryContract`

`IInv` is `TypeOK`, the invariant of the submission, `Control` and `Records`. `Control` says
which request a phase of a job can wait for, through a login and back too (`StepFits`), and
that a clean-up that goes on has not used up its limits (`Counts`, without which the types of
the counters are not kept). `Records` says that what the mail server has taken in this cycle
is the target (`MailFits`), that the target is a record the phase may mail or delete
(`TargetFits`: a deletion in a poll cycle is of a mailed record, one in a clean-up never of an
incoming one), that mailed records came in (`CameIn`), that a mailed one still on the device
is excused or being worked on (`Accounted`, which gives `RemailedOnlyAfterFailure`), and that
the device's status word is about the record of this send if it is alone (`SendFits`, which
gives `ConfirmedMeansSent`). That a page of records has an oldest and a newest one is proved by
a smallest counterexample among the finite sets.

### `AsyncOpsProofs`, for any number of requests and any faults

* `InductiveInvariant`, `AnswersAreWhole` (`AnswerIsWhole`)
* `DialogsDoNotOverlap`, `WorkersHaveTheirRequests`, `StopFlagsAreExplained`

`AnswerIsWhole` speaks of the moment of the reply; `IInv` adds what each field of a request
holds at each step of its worker (`Fields`), who may own the reservation (`Ownership`), and
that what the handler has read so far still holds (`Reading`): a result is written before the
flag that announces it, the flag is read before the result, and no new request starts while
one handler runs.

### `GatewayProofs`, for any threshold, networks, passwords, resets, requests and faults

* `InductiveInvariant`, which includes `TypeOK`
* `CrashLoopIsContained` (`CrashLoopContained`), `ApIsGuarded` (`ApFollowsPassword`)
* `ProfileSurvivesRestart` (`RestartKeepsProfile`), `SntpIsAsConfigured` (`SntpFollowsProfile`)

`CrashLoopContained` needs that the retained count never falls behind the crashes, because what
clears it is a quiet window in which there were none, that a count at the threshold is safe mode,
and that no service was started in it (`Contained`).
`ApFollowsPassword` needs that before the first set-up the access point is the open one, and
that a network under test changes no password of the one in use (`Guarded`). It says nothing of
how long the open one lasts (see *Seen while modelling*).

### `ApplianceProofs`, for any forms, resets and flash faults, any budget and any datagrams

* `StoresInvariant`, `OperatorsWord` (`OperatorsWordKept`), `PagesRoundTrip` (`PageRoundTrips`)
* `BudgetInvariant`, `BudgetInAnySecondHolds` (`BudgetInAnySecond`)

`StoresInv` relates the three places a profile is in: a record in flash is what the operator
asked for, of this firmware or of the one before, unless NTP settings took the network with
them (`RecordIsTold`); what runs is what he asked for, or the profile of a new device while the
flash did not give up the record (`RunningIsTold`). `PageRoundTrips` also needs that each
profile in use would be accepted by its own form (`Valid`), through every migration; limits of
intervals and ports are kept for all integers.

`BudgetInv` says that the answers of each slot, a turn of `millis()` and a second in it, are
within the limit, and that those of the present one are counted (or the window is an older one).
A second of real time meets two slots (`SpanMeetsTwoSlots`), hence twice the budget, and three if
the turn ends in it (`RolloverMeetsThreeSlots`); the proof counts a union of finite sets of answers
(`UnionIsSmall`).

### `AtDialogProofs`, for any dialogs, parts and retries, any late answers and any faults

* `TypeCorrect` (`TypeOK`), `SettingsRestored` (`RestoredAfterDialog`),
  `PartsTakenInOrder` (`PartsInOrder`), `SentWhenReported` (`SuccessMeansSent`),
  `AnswersAreTaken` (`AnswersFit`), `ReceiverStartedWithBias` (`StartedWithBias`)
* the invariants below them: `TypeInvariant`, `PromptInvariant`, `RestoreInvariant`,
  `OrderInvariant`, `CreditInvariant`, `EncodingInvariant`, `FitInvariant`, `TurnInvariant`,
  `BiasInvariant`

A leftover line can meet any later step of any dialog, so the invariant is built in layers,
each proved from those before it.

* `Typed` includes that `todo` is a script: of a send, the one list that ends as its script
  does and has so many steps left (`StepOf`); of any other dialog, steps that set nothing a
  send sets. What a step of a send is, and what its failure leaves, then follows from the
  number of steps left.
* `Prompted`: the modem waits for a text as long as a prompt is out, and a text on its way is
  that of the current submission, with nothing but reports about.
* `Restored`: a setting that is not in use by the current send holds, or its command is on the
  way, or it is in `unset`.
* `Ordered` counts what the modem has accepted of the current message by the steps left.
* `Credited` is about lateness: no more final lines and unread commands are about than answers
  were given up on, plus the one awaited; and a prompt or CMGS that is not of this submission
  counts also the answers this send has had since. By the first submission these are two, so
  with at most two late answers a text meets its own prompt.
* `Encodes`: a charset a send relies on holds, or its command is still to be read before the
  submission, or the error that ends the send is on its way.
* `Fits` needs no bound at all: a line is kept only while a reply is awaited, and the prefix
  decides. The two stores share a prefix, and `Turns` says whose turn it is when nothing is
  late and nothing fails.
* `Biased`: a receiver without bias is still to be restarted, and what is left of its dialog
  is one of the six remainders of a restart with the settings that go with it (`Staged`); an OK
  on its way means that the command it answers is done.

### Only model-checked

* That it takes a sixth late answer to publish a fix without bias when nothing is refused: the
  proofs follow how far a leftover can travel for sends only. `StartedWithBias` is proved as
  stated, for dialogs without a late answer.
* `ForwardsOldest` of `ZteDialog`: its proof counts pages, and is about lists that fit `MaxPages`.
* All liveness: fairness and ENABLED are out of the prover's reach.

## 5. Not modelled

* **ZTE reply and form codecs, e-mail builder, text codecs** — pure functions over bytes without
  state, covered by golden tests. The models keep what they decide: an answer that cannot be
  read, a record that is incoming, a token that is missing, a joined text that does not fit.
* **Web application, tools and tests** — no part of the state of the device.
* **HTTP interface, in part** — authentication, routing of assets and JSON are left out; each
  handler that changes state is an action of the module whose state it changes.
* **AT client and GNSS client, in part** — limits on lines per answer, lines cut by a time
  limit, and the parsing of a fix.
* **Task lifecycle, in part** — safe mode, in which no poll task of `Serial1` is created. Its
  counterpart for the ZTE poll task is in `AsyncOps`.
* In `SmsForward`, forwarding is on and SMTP configured. In `TimeSync`, `adjtime` does not fail.
* In `Gateway`, scanning for networks, and `triggerRestart`, which is never called; brownout and
  external resets count as power.

## 6. What could follow

1. Proofs: `ForwardsOldest`; how many late answers the restart of the receiver withstands.
2. The splitting of a text into parts, and the ZTE codecs, against reference definitions.
3. Safe mode in `PollLifecycle`; two modem services over one line, `AtDialog` under `PollLifecycle`.
