# Verification of the RSMP gateway

TLA+ models of the gateway (`src/src`): the secure session, its credentials,
queues and threads, the listener, the application on top, and the conversions
a message goes through. TLC checks them on small instances, TLAPS proves the
main invariants for every instance. `PROJECT.json` lists components, runs,
mutants, findings, hazards, theorems and, under `map`, the source lines of
every definition.

## 1. The system

A gateway talks to one peer over a TCP connection, as *follower* (client) or
*leader* (server). Each site owns *logins* towards the other: it encrypts what
it sends with the password of one of its own logins (its TO entries) and
decrypts with its copy of the peer's passwords (its FROM entries). Both bases
live in `auth.db`. When a password gets old the owner renews it by a
*Challenge*, and it is only when no login is due that the site sends *AllClear*;
when both AllClear have been exchanged the application may talk: versions
first, then watchdogs, commands and statuses.

| Component | State | Operations | Interaction | What makes it correct |
|---|---|---|---|---|
| Session (`cyber`) | `challenge_ctxt`, `allClearRxed/Sent`, `stop`, three queues, three threads, a timer | `_start` with the cipher negotiation, `cyber_send`, `cyber_receive`, `cyber_receive_internal`, `cyber_process_internal_msg`, `initiateChallenge`, `_send`, `_stop`, `free` | threads through the queues; peer through the transport; application through `_send`, events and callbacks | a renewal never locks a login out, whatever is lost or restarted; one answer per challenge; what is sent can be read; a stop ends every thread |
| Coder (`coder`) | none (uses the secret cache) | `Challenge_encode`, `Encrypted_encode`, `Encrypted_decode`, `serializeMessage`, `deserializeMessage`, `ptxt_set` | called by the session's threads | the right login and secret for each message, the right queue for each text |
| Credentials (`auth`) | TO and FROM entries, pending password, cached secrets, `auth.db` | get, set and switch a password; save and load; cache, delete a secret | called by session and coder from several threads | memory and file agree; no secret outlives its password |
| Queues (`sync`) | list, counter and semaphore of each queue, shared list of unused entries | push, pull, flush | between all the threads of all the sessions | FIFO, nothing lost or altered, no entry in two places |
| Transport | socket, listening thread, `thread_count` | start, listen, accept, hand over, stop | session above, network below | every connection is answered, no socket closed under another session |
| Events, threads | subscriptions; started flags | subscribe, trigger; start, stop (join or cancel) | life cycle of the session | no deadlock at stop |
| Application (`main`) | exchange of versions, `external_receive`, watchdog timers | send and wait for versions, answer, supervise, callbacks | calls the session, is called from its internal thread | both sides run or neither; a dead peer is noticed, a live one is not dropped |
| Ciphers | table | walk, search by name | negotiation | both sides select the same |
| RSMP messages, fields, JSON (`rsmp`) | context of the site | construct, encode, decode, release, dispatch | application | what is read is what was written; nothing incomplete is accepted |
| SXL, display (`rsmp/sxl`) | registry of commands | register, search, execute; encode and decode documents of signs | dispatch | a request is run as a whole or refused |
| crypt, log | - | library calls, output | - | - |

Hard behaviours: four threads per session and a timer working on the same
context, mostly without locks; a password whose two copies, each with its
file, are changed at different moments over a network that can fail in
between; both sites renewing at the same time; a timer racing its answer;
several threads stopping one session; tables and decoders with an error path
per field. `PROJECT.json` lists them under `hazards` with their lines.

## 2. Modules

| Module | Models |
|---|---|
| `PwdRotation` | abstract: what a renewal may do to the three copies of a password |
| `ChallengeSession` | two sites, their sessions, stores and faults; implements `PwdRotation` |
| `Fifo` | abstract: what a queue promises |
| `MsgQueue` | `queue.c` over `ldc-mutex.c`; implements `Fifo` |
| `Handshake` | `_start` on both sides: connection, CipherAgreement, choice |
| `SessionThreads` | the threads of one session from `_start` to `free`, `_stop` entered by several |
| `Listener` | `transport_listen`, the thread of each connection, the event it triggers, `cyber_atexit` |
| `VersionExchange` | `echange_versions` of two applications and the traffic after it |
| `Watchdog` | the supervision loop of `external_receive`, with time |
| `SecretCache` | `coder_secret_get` and the purge, lock by lock |
| `AuthFile` | `auth.db` rewritten in place, crash, reload |
| `Envelope` | one message through `coder.c`: checks, text, class, elements, queues |
| `RsmpFields`, `RsmpMessages`, `RsmpCodec` | fields and typed variables; tables, constructors and destructors; `json.c` in both directions |
| `RsmpContext` | the options `--rsmp` and the identity they give the site |
| `Dispatch` | the handlers of requests and the SXL registry |
| `Display` | encoders, decoders and handlers of variable message signs |
| `MCApplication` | composition: `VersionExchange`, then `Watchdog` from the state it ends in |
| `MCCredentials`, `MCMessages` | several modules in one run, each behaviour exercising one (`SecretCache` and `AuthFile`; the modules of the messages) |
| `MCChallengeSession`, `MCMsgQueue`, `MCHandshake`, `MCSessionThreads`, `MCListener` | instances |
| `ChallengeSession_proofs`, `Handshake_proofs`, `VersionExchange_proofs` | theorems about the module of that name |
| `Threads_proofs` | theorems about `SessionThreads`, `Listener` and `MsgQueue` |
| `Application_proofs` | theorems about `Watchdog` and about the composition `MCApplication` |
| `Credentials_proofs` | theorems about `SecretCache`, `AuthFile` and their run `MCCredentials` |
| `Site_proofs` | theorems about `RsmpContext` and `Dispatch` |
| `Messages_proofs` | theorems about `Envelope` and the layers run with it in `MCMessages` |

Variables and operators carry the names of the fields and functions they stand
for. An operator `X_Something` marked *Mutant* is a plausible mistake in `X`; the
mutants in `PROJECT.json` put it in the place of `X` and the named property fails.

### ChallengeSession

`to` and `from` are the two bases of a site, `disk` its `auth.db`, `to_secret` and
`from_secret` the cached derivations (represented by the password they derive
from). `send_q`, `net`, `internal_q` are the queue to `cyber_send`, the connection,
and the queue to `cyber_receive_internal`. An encrypted element is a plaintext
with the password that opens it. Both elements of a Challenge are kept: the
ChangePwdRequest under the current password and the Ping under the new one; it
is the Ping that completes a renewal whose first answer was lost.

| Action | Code |
|---|---|
| `cyber_send`, `cyber_receive` | one iteration of the thread of that name |
| `HandleAllClear`, `HandleChangePwdRequest`, `HandleChangePwdResponse`, `HandlePing`, `HandlePong` | one case of `cyber_process_internal_msg` |
| `InternalInitiate`, `InternalIdle` | the call of `initiateChallenge` after a message, or after the wait timed out; `running` is set inside `Challenge_encode` (coder.c:1370), before the challenge is queued |
| `Launch` | the last lines of `initiateChallenge`, after queueing: `running` is assigned again and the timer is armed |
| `SendChoose`, `SendPush` | `_send`: the choice of a login, and the push, which is a separate step |
| `Expire` | a password reaches the renewal age |
| `ChallengeTimeout` | `handler_timeout_challenge` |
| `ConnectionBreaks`, `ConnectionLost`, `PayloadCut`, `Crash` | faults: the connection drops, each end notices and stops, a payload is lost to a read timeout, a process dies |
| `Connect` | a new follower process and a new session on both sides |

- A handler is one step. What it leaves in the volatile queues is lost with
  the process, so a crash inside it leaves what a crash before or after it
  leaves, as long as saving `auth.db` is one step; `AuthFile` opens that step.
  The steps other threads can observe half done are split: `initiateChallenge`
  (`InternalInitiate` then `Launch`) and `_send`.
- Looking a secret up, deriving and storing it is one step; `SecretCache` opens
  it and shows the race that remains. Locks are not modelled; the lock library
  is not in the repository.
- A text is opened by exactly the key that closed it; a new password differs
  from the current one; message ids are reused cyclically (`MIdCount`), one id
  stands for the request and its Ping.
- The follower is one session per process, so a new one, whoever starts it, reloads
  `auth.db`.
  The leader process survives its sessions; the threads of an old session
  have ended before the next one is accepted.
- Failures of allocation and of encoding are left out. The exchange of
  versions, which the internal thread runs in a callback, is seen as a slow
  thread.

### MsgQueue

Each call that takes a list's mutex, each access to the content of an entry
and each semaphore operation is a step. `Entry` is the memory available, so
that allocation fails when it is used up (`PushFails`). One consumer per queue,
as in a session; a pull that times out changes nothing. `ldcInsert` (not in the
repository) is assumed to append at the tail. A flush holds the mutex of its
list while it recycles, hence is one step, followed by that of the semaphore.

### Handshake, SessionThreads, Listener

`Handshake`: each side is this program or, on at most one side, another
implementation that sends any list or nothing. `enabled` and the identifiers are
any. The wait of the leader has no timeout, since `to_sec` is -1; an error before
sndPayload is initialised may end the process, and is a choice between both
outcomes. Events are immediate calls.

`SessionThreads`: `_stop` is a sequence of steps (test the flag, set it, close the
transport, join receive, cancel the timer, join internal and send, trigger
CYBER_LOST) executed by main, the receive task, the timer or the application. A
task that would join itself skips the join (`thread.c`). One join per thread is
effective; a second waits for the same end.

`Listener`: sockets are numbers the system gives out again. The library's FLUX
object is external: whether closing a shadow FLUX closes the socket is the
constant `ShadowCloses`, FALSE in the instance and an assumption of the theorem
on sockets. accept and the creation of a thread may fail.

### VersionExchange, Watchdog

One channel per direction, FIFO. A wait takes the next message whatever it is,
as the code does. In `VersionExchange` a timeout may happen whenever a wait is
possible (bounded by `MaxTimeouts`) and the watchdog's age is abstract; in
`Watchdog` time passes in ticks of ten seconds, the period is 6, the tolerance 3
and a message takes at most 2; a site may hang with its connection open.
`MCApplication` starts with the exchange and lets the supervision take over in
exactly its initial state (`TakeOver`): the follower runs, its last acknowledgement
is on its way.

### SecretCache, AuthFile

`SecretCache`: a lock asked for without waiting is granted or not, and the code
goes on either way; `auth_secret_delete_by_key` does not release its lock. The
ghosts `raced` and `contended` record the two races in which the cache may go
wrong; the invariants say that it does not otherwise.

`AuthFile`: a cell stands for about sixteen characters of a line; each line is
written by one call at the current offset over the old content, without
truncation. A process may end between two lines. Reading is defined by its
result: a line of an entry counts, the latest one gives the password, the latest
one with an acceptable pending password gives that; what has no key, or too short
a password, is skipped. `order` is the order in which a save writes the entries:
`auth_login_insert` chains an entry at the end, when its first line is read, so
that a restart may change the order (`Listed`); the lists of bases, sites and
logins are seen as one. The result of `auth_serialize_to_file`, always -1, is used by nobody.

### RsmpFields, RsmpMessages, RsmpCodec, RsmpContext

Texts are opaque. Every field has the encoder and decoder the macro gives it,
every message type of the table its fields, constructor and destructor. In
`RsmpCodec` a message is built, one field set and one item added, written,
changed at one place (removed, of another type, another text), read and freed.
The table of names in `RsmpContext` has the holes of the source. Not modelled:
json-c asserting on an array field that is no array, the addition of SXLG to any
payload that contains "Version" in quotes, a JSON null.

### Dispatch, Display, Envelope

`Dispatch`: the registry is a tree of the C library whose node is mistaken for
the record; what the links hold with several nodes is a nondeterministic choice.
`Display`: a text is empty, fits or fills its array; memory a decoder does not
write is any value. M31 and M41 return the generic error with "ACK" in the
response, S30 returns no_error after errors, as in the source; the M32 handler
reads decoded entries as pointers. `Envelope`: a text is what the code asks of
it, its words and the length class of its fields; elements carry their key. The
padding of an own Pong is that of the Ping it answers, hence any text, a marker as
well. Another implementation sends any message of the protocol, or one that lacks a
member or has one changed (no text, empty, too long, a marker), under any class.
`strcpy` of an oMId that is too long (coder.c:1110, 1146) is undefined behaviour: the
message may be handled as it is or as a type that uses nothing behind the array, be
refused, or end the process, by choice.

## 3. Runs

| Run | Instance | Distinct states | Shows |
|---|---|---|---|
| `one_login` | 1 login per site, both expiring, 3 passwords, the leader's application sending, 1 fault | 1,638,002 | `TypeOK`, `CredentialAgreement`, `AcceptedWhenAvailable`, `AllClearReadable`, `OneAnswerPerChallenge`, `BusyLeavesPassword`, `SecretsCurrent`, `ResponseReadable` (before any fault) |
| `two_logins` | 2 logins, one site expiring, 2 faults | 1,101,912 | `ChallengeInv`, the inductive invariant of section 4, with a choice of login |
| `rotation_liveness` | 1 login, follower expiring, 3 passwords, 1 fault | 153,234 | `RotationCompletes` (a renewal ends unless, after a fault, nobody makes a new session); `ChallengeSession` implements `PwdRotation` |
| `queues` | 2 queues, 2 producers of 2 messages, 2 entries, 1 flush | 303,612 | `QueueTypeOK`, `EntryHeldOnce`, `MsgQueue` implements `Fifo`; until a flush `TokenPerMessage`, `MessagesDelivered` |
| `handshake` | 3 ciphers, one unknown to the leader, any enabled ones and identifiers, at most one foreign side | 137,808 | `Negotiated` (both open on the strongest common cipher, with the peer they know, none that is disabled), `HandshakeEnds`, `NoHalfOpenSession` |
| `session_stop` | main, receive, timer and application stop | 538,916 | `StopIsOrderly` (nothing goes on behind CYBER_LOST or in a freed session), `StopCompletes`, `ProcessEnds` |
| `application` | 2 timeouts, 4 messages; period 6, tolerance 3, delay 2 | 72,515 | `ExchangeInOrder`, `BothRun`, `NoOneSidedSession`, `NoFalseAlarm`, `DetectionBound` |
| `listener` | 3 peers, 4 sockets, 2 entries | 43,084 | `OwnSocket`, `EntryPerThread`, `PeerIsAnswered`, `SocketIsReleased` |
| `credentials` | cache: 3 threads, 3 passwords; file: 2 entries, 5 passwords of 3 lengths, 4 changes, 2 crashes | 307,561 | `CacheIsCurrent`, `SecretIsGiven`, `FileIsFaithful` |
| `messages` | every type with one edit, one item, one change; 4 options; 3 registrations, 2 requests; every sign document; 2 sends, 1 foreign, 1 mutilated | 1,117,672 | `RoundTrip`, `DecodedIsSound`, `IdentityAsGiven`, `RequestsAreAnswered`, `SignIsFaithful`, `SessionIsFaithful` |
| `resumed_challenge`, `external_race` | as `one_login`, without the application; with it, without a fault | - | violations, section 5 |

A property such as `SessionIsFaithful` is the conjunction of the named parts of
its module, its types included; each part, types apart, has a mutant of its own.

Bounds are constants. One fault interrupts both directions at once, a second
one the recovery from the first; three passwords distinguish a current, a proposed and a
replaced one; two message ids tell an answer from a late one; two logins cover
`auth_get_first` and `auth_get_next_from_auth`. Two entries for four messages
force entries to be recycled and allocation to fail. Three peers for two entries
make the array run full; four sockets let a number be given out again. Three
ciphers tell the strongest common one from the first and the last. Three ticks
of tolerance and two of delay put a message just below the limit. Four changes
of a password with two crashes leave several generations of lines in the file.
Passwords are symmetric where no liveness is checked. One message of another
implementation, in front of or behind an own one, meets every test of the coder.

Deadlock checking is off where a system really stops: producers after their
messages, negotiations that ended, processes that exited, messages handled.

Why several modules share a run: the parts of `MCCredentials` and of `MCMessages`
work on data of their own, so a behaviour exercises one and leaves the others in
an initial state; the states of the run are the sum, not the product, and each
part is explored as if alone.

### Fairness

- `ChallengeSession`: every thread is scheduled again as long as it has work, a
  broken connection is noticed by the next read and the armed timer of an
  unanswered challenge fires. `Connect` has no fairness: a follower makes one
  session, `callback_cyber_lost` (main.c:716) only logs its loss and main goes on
  waiting for its signal (main.c:395), so a new session is possible and never due.
  `RotationCompletes` says accordingly that a renewal is completed, in its session or
  in a later one, unless a fault was followed by no further session. Faults are
  not fair and are bounded.
- `MsgQueue`: a thread inside a push or a pull is scheduled until its end.
- `Handshake`: the threads of the program; not another implementation, not the
  loss of the connection.
- `SessionThreads`: main, the callers of `_stop`, the tasks; no signal, lost
  connection or timeout is forced.
- `VersionExchange`: receiving, the exchange, handling; a wait on a stopped
  session ends, the watchdog timer of a running application expires, an end
  notices that the other closed.
- `SecretCache`: threads inside a lookup or a purge. `Listener`: start,
  subscription, accept or refusal, hand-over, end of a thread.

What `rotation_liveness` does not claim: when both sites expire, two renewals may
answer each other busy, time out and start again without end; the code relies
on a random wait of up to five seconds to separate them. An AllClear lost to a
read timeout is not repeated: that session stays closed.

## 4. Proofs

For every value of the constants, with no bound on logins, passwords, faults,
queues, threads, entries, connections, sockets, ciphers or on time.

### The challenge sequence (`ChallengeSession_proofs`)

- `StoreInvariant`, from which `TypeCorrect`: `TypeOK` is not inductive, because a
  positive answer copies `new_pwd`, which might be absent. `StoreInv` adds that a
  challenge in progress has a pending password (also when the process was
  reloaded meanwhile, hence that memory and `auth.db` agree, `Durable`) and that
  `toSend` is set exactly between queueing and `Launch`. One lemma per action.
- `SecretsAlwaysCurrent`: `SecretsCurrent`, inductive relative to `StoreInv`. It
  takes a derivation for one step; `SecretCache` opens it.
- `ChallengeInvariant`: `ChallengeInv`, from which `NeverLockedOut`
  (`CredentialAgreement`), `AvailableIsInStep` (`AcceptedWhenAvailable`),
  `AllClearIsRead` (`AllClearReadable`), `BusyIsHarmless` (`BusyLeavesPassword`)
  and `OneAnswer` (`OneAnswerPerChallenge`). None of these is inductive: an answer
  accepted late would switch a password the peer does not have. `TokenInv` says
  why there is none. A challenge of a site is a token that is at most once in six
  places in a row: queued, on the network, read by the peer, answered, on the
  way back, read (`OneToken`); what it holds in each place are the passwords as
  they are (`Shapes`); it is of the login in progress and an answer tells which
  of the two passwords the peer has (`Matching`); a site without challenge has
  no token (`Settled`) and, once it announced that it is done, no login out of
  step (`OthersInStep`); its AllClear is ahead of its next challenge
  (`AllClearAhead`). The run `two_logins` checks it.
- `ResponseIsRead`: `ResponseReadable`, for sites with one login, or when only one
  of the two renews its passwords. Otherwise it is false (section 5), hence the
  hypothesis. With one login, `ReturnInv` says of a connection on which nothing was
  lost: a running challenge has its token on the way (`Underway`) and every trace of
  it has its id (`SameId`), so that no answer is taken for stale; once the peer
  has adopted the password, the answer that says so is ahead of the peer's own
  next challenge (`AnswerAhead`), so that the site switches before it answers, and
  every answer on the network is under the password its reader has
  (`AnswerKeys`). The busy test keeps the two directions from
  being answered at once. With one side renewing, the other side's passwords never
  change (`OneSided`). Both were checked by TLC on the instances of `one_login`
  and `two_logins`.
- `ImplementsTheRotation`: `Spec => ImplementsRotation`. Each step that changes a
  password is shown to be a `Propose`, `Adopt` or `Switch` of `PwdRotation`, from
  `ChallengeInv`. `AgreementHolds`: the rotation alone, with nothing of what
  carries it out, keeps the peer's copy among the owner's two.

### Queues, threads, listener (`Threads_proofs`)

- `QueueInvariant`, from which `EntriesHeldOnce` and `QueueTypeCorrect`: `QueueInv`
  adds to `EntryHeldOnce` who has an entry in hand, that the counter is the length
  and that a linked entry is filled.
- `QueuesAreFifos`: `QueueSpec => ImplementsFifo`. The waiting messages are the
  contents of the linked entries; a pull counts from the unlinking on, since
  the entry then in hand cannot change (`EntryHeldOnce`). Insert is a `Put`,
  extract a `Get`, list flush a `Clear`, the rest stutters.
- `TokensMatchMessages`: `TokenPerMessage`, for finitely many producers
  (`ProducerAssumption`), by counting the producers between their insertion and
  their signal. It needs `FlushCounted`: no flush is in progress that was not
  counted, since a flush empties list and semaphore at two moments.
- `StopInvariant`, from which `StopsAreOrderly` (`StopIsOrderly`): which tasks
  exist at each line of main, who is inside `_stop` and what a caller that passed
  a join has waited for. When only one caller entered, its joins are what makes
  CYBER_LOST the last event.
- `ListenerTypeCorrect`: `thread_count` stays inside the array. `EntriesSuffice`:
  `EntryPerThread`, by counting the threads that run before and after a step.
- `SocketsAreOwn`: `OwnSocket` when a shadow FLUX does not close the socket.
  `SocketInv` says it of every connection whose thread runs, also while it stops:
  only then does closing one number spare the others.

### Negotiation (`Handshake_proofs`)

- `NegotiationHolds`: `Negotiated`, from `HandshakeInvariant`. `HandshakeInv` says
  that between two instances of the program nothing is on its way but the one
  offer and the one answer, that there is an answer only when the leader has
  settled on its cipher, and that the cipher it settled on is the one its search
  of the offer finds. That this is the strongest common one rests on a lemma
  about `cipher_foreach`, `ForeachIsSorted`: the offer is exactly the enabled part
  of the table, in its order. `cipher_foreach` is a recursive function, and the
  lemma an induction on the length of the table, carried out as the choice of a
  least counterexample (`Least`, from the well-foundedness of the naturals);
  `WalkExists` shows the same way that the recursion defines a function at all.

### Credentials (`Credentials_proofs`)

- `CacheStaysCurrent`: `CacheIsCurrent`. `CacheInv` adds that a purge has found an
  entry of the list (`Linked`), that a key in hand was derived from the current
  password unless the race was recorded (`Derived`), and that, as long as every
  write lock was granted, only its holder is between its search and its store
  or its purge, so that what it found is what there is (`Locked`).
- `FileStaysFaithful`: `FileIsFaithful`, whatever the lengths of the passwords, the
  number of entries and the lines at which the process ends. It is not inductive:
  it says nothing of the file while a save is under way, and a crash leaves
  just that file. `FileInvariant` is about every line the file holds, of whichever
  save: a key begins a line (`KeysFirst`), a line holds what its entry has had
  (`OwnLines`), every entry with a line is in the store (`NoStranger`), and up to
  the offset of a save the lines are the store (`Written`). The proof rests on what
  one write does to the lines. `OverSource`: a line that is read afterwards is the
  new one, or was there before, ahead of the offset or behind the end of the new
  line; the torn line between the two has lost its key. `OverKept` and `OverNew`: all
  of those are there. `LineMeansOne`: a line that `auth_write` writes is read as
  nothing else, which is where the columns are counted. That a full-length save
  leaves the store itself then follows from `Written`: behind the last offset
  there is nothing.
- `CredentialsStaySound` carries both over to `MCCredentials`.

### Messages (`Messages_proofs`)

- `SessionStaysFaithful`: `SessionIsFaithful`, for any logins, passwords and numbers
  of messages. Its parts say nothing of messages still on their way, so
  `SecureInv` follows each one from the list of what was built. `AsBuilt`: an
  element has the class `ptxt_set` finds in its text, and the kind of text its
  author writes. `OnTheirWay`, `Queued`, `AsHandled`: what is in a place is that
  element, under its login, and what is handled is what `deserializeMessage`
  makes of it. `AsLost`: an element is lost for a reason it has itself, never for
  its neighbour. `InOnePlace`: the five places share no number and leave none out,
  from which `EachOnce`. `FailsOnlyThen`: a receiver that failed was sent an oMId
  that is too long, by another implementation, or a payload it could not decode.
  The lemmas on texts carry what the code evaluates: `OwnDocument` and `WellWrittenIsRead` (what `serializeMessage` writes is read back,
  overruns nothing, and is internal but for a Pong that repeats "rSMsg"),
  `ApplicationText` (what an application writes is never read as a message of the
  session), `ReadMessage` (what is read has its fields, checked, and after an
  overrun too), `KeptElements` (what the loop of `Encrypted_decode` keeps of one or
  two elements, in their order).
- `MessagesStayFaithful` carries it over to `MCMessages`, with the two properties of
  `Site_proofs`: each layer's steps leave the variables of the others alone.

### Identity and requests (`Site_proofs`)

- `IdentityStaysAsGiven`: `IdentityAsGiven`, for any labels, any values and any number
  of options. It speaks of a process that runs; `OptionsInv` says of one that is
  still decoding that its context has the values of the options decoded, in
  their order (`Reads`), that nothing is decoded behind an option that is refused
  (`Stops`), and that an sId was noted just when there was one (`Decoded`). When the
  loop ends, what has been decoded is what was given (`AllDecoded`), and the
  defaults fill just the lists that are empty.
- `RequestsStayAnswered`: `RequestsAreAnswered`, for any codes, whatever links the
  library gives to the nodes of the registry, and any number of registrations and
  messages. It is inductive once what is sent is known to be a sequence of answers
  (`AnswersInv`). Most of the proof is about one handler: `EachIsSound` says of every
  reaction to every message that its messages are one of the final answers of
  the type, that nothing refused was run, that what was run was registered, and
  that a status is what was asked (`Command`, `Status`). `AnswersHandle` then shows
  that the answers to one message are sent one behind the other, behind all
  earlier ones.

### Application (`VersionExchange_proofs`, `Application_proofs`)

- `VersionsInOrder`: `ExchangeInOrder`. In `ExchangeInv` the messages queued and on
  the network in one direction are one stream with consecutive numbers
  (`Unread`); each side has sent what its phase says (`Scripted`); the answers in a
  stream answer messages that want one, in their order, and none that is still
  in the stream back (`Answering`), so that what a wait takes next is what it
  waits for.
- `WatchInvariant`, from which `NoFalseAlarms` and `HangsDetected`: the two
  properties of `Watchdog`. `WatchInv` relates the timers of a loop to each other
  (`Cycle`), the silence to the messages still on their way (`Silence`), the start
  of the leader to the acknowledgement it waits for (`Opening`), the age of the
  last watchdog received to the next one on its way or due (`Fresh`), and the wait
  to the age it will find (`Looked`). The assumption is that a message takes less
  than the tolerance and the tolerance is at most the period (30 s and 60 s).
- `ApplicationInOrder` and `ApplicationIsSupervised` carry both over to the
  composition: a step of it is a step of one of the two and leaves the state of
  the other alone, and `TakeOver` leaves both.

### Assumptions, and what is only model-checked

The assumptions are the named `ASSUME`s of the modules; TLC evaluates them in
every run of the module.

Only model-checked:

- every liveness property, which is outside the prover's reach;
- `RoundTrip`, `DecodedIsSound`, `SignIsFaithful`: they evaluate tables that are fixed in the
  source, so that TLC covers them whole up to the number of edits and items.

## 5. What the code does not keep

Two runs end in a violation, each of what a comment says of the code:

- `resumed_challenge`: when both directions were interrupted half renewed, the
  Pong of a resumed challenge is under a password the reader has replaced.
- `external_race`: a message whose login had no challenge when it was queued is
  encrypted after one took effect at the peer.

The following definitions state what a comment, a header or an error message
says, and TLC refutes each on the instance of the run named when it is added to
its cfg (under the name of its instance where the module is instanced). They are
kept next to the properties that do hold.

| Definition | Run | What happens |
|---|---|---|
| `ChallengeSession.ResponseReadable` | `two_logins` with both sites in `ExpiringSites` | the handler looks for a login without challenge for its answer (cyber.c:1581), then sends with the first login: the answer can be unreadable |
| `Handshake.CipherAgreementTimeout` | `handshake` | "10 sec pour timeout" (cyber.c:238), but `to_sec` is -1: a silent peer keeps the leader waiting |
| `Handshake.RefusalOnlyDropsConnection` | `handshake` | a refused offer jumps over the initialisation of `sndPayload` to its free (cyber.c:871, 905) |
| `SessionThreads.FreedAfterThreads` | `session_stop` | `_stop` returns at once when another thread executes it; main frees the session meanwhile (cyber.c:1538) |
| `VersionExchange.NotHandledWhenStopped` | `application` | main.c:506 tests the pointer `cyber->isRunning` without calling it |
| `Listener.FullMeansBusy` | `listener` | `thread_count` is never decremented (transport.c:123): after MAX_THREADS connections every peer is refused |
| `Listener.HandedOver` | `listener` | the listening thread starts before the event is subscribed (cyber.c:1411, 1423) |
| `Listener.ExitIsClean` | `listener` | the transport of a listener has no flux to close (transport.c:421) |
| `SecretCache.OldDerivationPurged` | `credentials` | a key derived before the purge is stored after it (coder.c:435) |
| `AuthFile.RestoresLong` | `credentials` | after a shorter save a whole old line survives and is read back (auth-basic.c:978) |
| `AuthFile.RestartRestores` | `credentials` | a password below the minimum is only logged when it arrives (coder.c:883) and refused by the next start (auth-pwd.c:49) |
| `RsmpCodec.FailureIsReported` | `messages` | the freed message is returned (json.c:650) while main.c:511 expects NULL |
| `RsmpCodec.AcceptedDates` | `messages` | the result of strptime is ignored (timestamp.c:49) |
| `RsmpCodec.VersionCarriesESXLG` | `messages` | json.c:295 describes the key eSXLG, json.c:264 writes SXLG |
| `RsmpContext.OptionsAreDecoded` | `messages` | strcmp meets an entry without name (fields.c:73), for instance before vers |
| `Dispatch.EveryStatusAnswered` | `messages` | item j is compared in place of item i (stat-request.c:144) |
| `Dispatch.RegisteredIsActive` | `messages` | a node of the tree is taken for the record (sxl.c:125) |
| `Envelope.JunkIsOnlyDropped` | `messages` | early errors of Encrypted_decode do not assign the list that cyber_receive frees (cyber.c:1169) |
| `Envelope.OMIdFits` | `messages` | an oMId of any length is copied into an array of UUID_STR_LEN before messageCheckFields (coder.c:1110, 1146) |
| `Envelope.OwnStaysInternal` | `messages` | a Pong repeats the padding of the Ping (cyber.c:1711); with "rSMsg" ptxt_set classes it external (coder.c:138), and the peer hands it to its application |
| `Display.OwnRequestAccepted` | `messages` | the M31 handler decodes the format of the response (disp_m31_handler.c:89) |
| `Display.MissingIdRefused` | `messages` | msgId is tested although the decoder did not write it (disp_m40_handler.c:57) |
| `Display.StatusIsWhole` | `messages` | colours, size, textDisplayable and groups are written and read by no decoder (disp_json_generic.c:537) |

Observations outside the models: a follower whose session was lost neither
connects again nor ends (main.c:395, 716); `rsmp_sxl_initialize` is called by nobody, so the
program as shipped refuses every command; a StatusRequest gets no MessageAck;
the option -W (main.c:264-266) returns after setting the time window, which is
never active; the destructors of StatusSubscribe, StatusUpdate and
StatusUnsubscribe keep the items sS; `rsmp_array_char_new` reads through a pointer
that is not set.

## 6. Not modelled

- crypt (calls of a cryptographic library, base64 and BCD), log and error codes
  (output), the lock library (not in the repository).
- The memory of `challenge_ctxt` (cyber.c:677), freed by one thread and read by
  another: it has a value at every step. Two sessions saving one `auth.db` at
  once.
- `coder.c`: MessageAck_*, Ping_deserial, Pong_deserial, ChangePwdRequest_deserial,
  which nothing calls. What an overrun by strcpy damages besides the message and
  the process that reads it is not followed in `Envelope`.
- `rsmp/messages`: the *AckIncluded types, which have no entry in the table.
- `rsmp/sxl/display`: S31 is commented out; disp_m31.c to disp_s40.c print and
  release structures and are not called by the handlers.
- The bytes of the framing; the options of the command line other than `--rsmp`.

## 7. Plan

Done: the modules, runs and theorems above. Left: several
sessions of one server over one `auth.db`.
