# A TLA+ model of amt-uefi-boot-app

The program is a UEFI application (with Windows and Linux builds) that shows the
state of Intel AMT, activates a device in client control mode (CCM), deactivates
it, and stores a DNS suffix. It drives the HECI hardware interface to the
Management Engine (ME) itself, speaks the PTHI host interface of AMT over it, and
for activation opens an APF tunnel to AMT's web server and posts WSMAN requests
through it.

The program has one thread. What makes it hard is the other party: the ME moves
between any two register accesses, answers late or never, drops connections, and
goes down. Every wait is a bounded poll or a count of messages, and most errors
are ignored or retried, so that the interesting question is what state the two
ends are left in.

Paths below are relative to the repository's root; the code is in `src/`. (The
`source` fields of PROJECT.json prefix them with the directory the repository is
checked out in.)

## 1. Inventory

| Part | State | Operations | Talks to |
|---|---|---|---|
| HECI interface, `heci/mod.rs`, `heci/regs.rs` | `mmio`, `me_addr`, `host_addr`, `max_msg_len`; the two circular buffers and their CSRs | `init`, `reset`, `wait_me_ready`, `write_msg`, `read_msg`, `send`, `receive`, `close` | registers shared with the ME |
| HBM connection, `heci/mod.rs:396-581`, `heci/hbm.rs` | the client's address | `connect_amthi`, `connect_client`: version, enumeration, properties, connect, first credit | HECI |
| MEI drivers, `heci/linux.rs`, `heci/windows.rs` | a device handle | `init`, `connect`, `send`, `receive`, `close` | the operating system, in the place of HECI and HBM |
| PTHI, `amt.rs` | none | `pthi_call` and nine commands | HECI `send`/`receive` |
| LME session, `lme/mod.rs`, `lme/apf.rs` | `our_channel`, `amt_channel`, `channel_active`, `port_forward_ok`, windows, `rx_buf` | `init`, `apf_handshake`, `channel_open`, `reopen_channel`, `send`, `receive`, `close` | HECI `write_msg`/`read_msg`, the LME firmware |
| HTTP, `http.rs` | `DigestAuth` (nonce, `nc`) | `post_wsman`, `parse_response`, `digest_from_challenge` | LME session |
| WSMAN, `wsman.rs` | static buffers | `wsman_call`, `activate_ccm` | HTTP |
| Menu, `main.rs` | the `HeciContext` | `do_amt_info`, `do_deactivate`, `do_set_dns_suffix`, `do_activate_ccm` | PTHI, LME session, WSMAN, the user |
| Debug log, `main.rs:10-72` | `LOG_BUF`, `LOG_POS`, `\debug.log` | `write_str`, `flush_log` | the boot volume |
| Helpers: `md5.rs`, `str_util.rs`, `ui.rs`, `font.rs`, `pci.rs`, `error.rs` | none that outlives a call | pure functions, drawing, key input, PCI configuration reads | |

What makes each part hard, and correct:

- **HECI write.** The host computes free slots from pointers the ME moves, then
  writes blindly. The pointers wrap, and a full buffer looks like an empty one. A
  write can give up between two fragments. Correct: nothing unread is
  overwritten; the ME reassembles what was written; every write returns; what was
  accepted is delivered without another call.
- **PTHI and the menu.** Nothing ties an answer to its command but order. A
  command that was given up on is still answered. Correct: answers belong to
  their commands; SUCCESS on the screen is the state of the device; a device in
  admin control mode (ACM) is left alone; the closed context is not used;
  operations end.
- **LME session.** Three receive loops must each return credits, grant port
  forwards and notice the ME's closes and disconnects, at any point of the
  session and over reconnects. Correct: credits balance; both ends agree on the
  channel; no forward is lost unless a write that grants it or a read that finds it
  timed out; an answer is collected whole, without a gap and
  without a part of an earlier one; loops end.
- **Debug log.** A fixed buffer, a truncation marker, and a file rewritten from
  its beginning by every run, with the platform resetting at any moment. Correct:
  the log is a prefix, says when it is cut, and what reached the file stays.
- **WSMAN and HTTP.** Two requests with authentication retries over a channel
  that loses answers or breaks them off; what arrived is read as if it were all.
  Correct: Setup is executed once at most and with the right password hash;
  SUCCESS and the failures that promise an untouched device are true; no nonce
  and count go out twice.
- **HECI read.** Fragments arrive at the ME's pace, stop in the middle of a message,
  and may not fit; read_msg returns what it has. Correct: what a reader gets is a
  piece of one message and stays within its buffer, and the whole message unless
  the ME was late or the buffer small; every read returns.
- **HBM connection.** Replies are taken by their command byte only, and a reset may
  be noticed late. Correct: Ok means a connection made in this attempt to the client
  asked for, with nothing of an earlier one on the way; a listed client is found;
  the connect returns.
- **Response parsing.** A response may end after any byte, and what it holds is
  told apart from its encoding by position only. Correct: every slice is in bounds; the body is
  what came of the body that was sent; the parser returns.

PROJECT.json lists each hazard at its line with the properties that cover it, or
with the reason why none does yet.

## 2. Plan

| Module | Models | State |
|---|---|---|
| `HeciWrite`, `HeciWriteProofs` | `write_msg` dword by dword | done |
| `HeciRead`, `HeciReadProofs` | `read_msg` dword by dword | done |
| `HbmConnect`, `HbmConnectProofs` | `init`, `reset` and `connect_client_impl` | done |
| `Lme`, `LmeProofs` | the APF session on three targets | done |
| `HostInterface` | what the PTHI calls promise, as an abstract specification | done |
| `Pthi`, `PthiProofs` | the menu's operations over PTHI calls, shown to implement `HostInterface` | done |
| `HttpParse`, `HttpParseProofs` | the body of a response: content length and chunks | done |
| `Activation`, `ActivationProofs` | `wsman_call` and `activate_ccm` over `post_wsman` | done |
| `LogBuffer`, `LogBufferProofs` | the debug log and its file | done |

Each module takes the one below it as a unit: `Pthi` and `Lme` take messages and
connections as `HeciWrite`, `HeciRead` and `HbmConnect` provide them when nothing
is late, and `Activation` takes responses as `Lme` and `HttpParse` provide them,
broken off included.

Of the safety properties none is left to the model checker alone; liveness is
(section 6).

## 3. The modules and the code

### HeciWrite

One action per register access of `write_msg` (`heci/mod.rs:196-239`):
`ReadHostCsr` and then `SlotsFree`/`SlotsBusy`/`WriteFails` are one poll of
`wait_slots`, `WriteHeader` and `WriteWord` the writes to `H_CB_WW`,
`EndFragment` is `notify_me` and the loop's increment, `Reset` is
`reset`. The ME pops dwords, reassembles fragments, sleeps until it is notified
and goes down, each at any point between two accesses. A byte is the pair of its
message and its offset, so that any misplaced, missing or repeated byte shows.
Arithmetic is modulo `WordMod` where the code's `u32` is, and the length field is
reduced modulo `LenMod`. `torn` remembers that a `write_msg` gave up after its
first fragment: `IntactDelivery` excepts that, since the code has no means to tell
the ME.

### HeciRead

One action per register access of `read_msg` (`heci/mod.rs:243-324`): `PollEmpty`
and `PollFound` are a poll of the two pointers, `ReadHeader` the header's read with
the comparison with the caller's buffer; `ReadWord` and `DrainWord` a payload
dword; `EndFragment` the acknowledgement with the end of the loop; `Timeout` and
`EndDrain` the two early ends. Two pointers that are compared for equality only
are abstracted to whether the buffer is empty: they count modulo 256 over a buffer
of at most 128 dwords. The ME writes dword by dword, in fragments it chooses, when
there is room, sleeps for the host's interrupt when there is none, and may go down
at any moment (`MeDown`), in the middle of a fragment too: it then writes nothing
until the next reset. A dword is its place in what the ME says (message, fragment,
number in the fragment), and `Addr`, `Length`, `Complete` and `Bytes` are what the
host reads in it; a byte is the pair of its message and its offset.

Nothing in the code checks that a payload dword has been written before it is
read: it relies on the ME moving its write pointer by whole fragments. Reading one
that is not there yet (`Astray`) does not stop the code, nor does it the model
(`Window`, `Fetch`): it copies what the register returns, goes on with the fragment,
acknowledges it and returns Ok. From then on the two pointers have crossed, and
until the next reset any poll may find something or nothing and any read may return
any dword of `Strays`; `ahead` remembers it. What is returned then is nobody's
message, and `OnePiece` and `WholeInOrder` except it, as the code has no means to
notice it; what `TypeOK` says of the caller's buffer, and `ReadReturns`, hold all the
same. The same happens when the ME goes down between a poll and the header it found.
`taken` records what is returned up to there, and the ME is not modelled any further,
since nothing it does makes a difference to the host before the next reset. The
ME makes no fragments of zero bytes, and `StrayAssumption` says the same of what a
stray header reads as, unless it completes the message: one of zero bytes that does
not, read again and again, would keep `read_msg` going for ever.

`OnePiece` holds in spite of timeouts and of buffers that are too small: the rest
of a message that was given up on is returned as a message of its own, but never
mixed with another's bytes. `WholeInOrder` says when nothing of that
happens: the ME stays up and is not late, has a fragment's dwords written before the
host reads them, and every message fits.

### HbmConnect

`Open` is the beginning of `init`, `ResetDone` and `ResetTimeout` the end of
`wait_me_ready`; then one action per write and per read of
`connect_client_impl` (`heci/mod.rs:405-581`). `Good` is the comparison of command
byte and status, the only one there is. `reset` releases the reset as soon as it
sees ME_RDY, which may be before the ME has noticed anything (`resetting`): what was
on the way of the connection before (`fresh` is FALSE) is then still there, and
goes when the ME resets. A reset that times out leaves the reset bit asserted
(`rst`), and the menu calls `connect_amthi` all the same, as `main.rs` ignores
`init`'s result; an LME session gives up. A timeout of the initial flow control is
an Ok, as in the code (`heci/mod.rs:565-581`), and any message is taken for it.

`OkLeavesNothingOld` and `OkIsConnected` rest on the ME attending to a reset before
it serves what is left of an earlier connection: a late-noticed reset then drops
the version request as well and the connect fails. Without that assumption the
model finds chains of late answers over several attempts that end in an Ok for a
connection the ME did not make.

### HostInterface and Pthi

`HostInterface` is what a caller of the PTHI commands counts on: a command is
carried out or refused at one instant between its call and its return, the answer
tells which, and a failure without an answer means it was not carried out.
`CommandsAtomic` is its specification under the refinement mapping of `Pthi`
(`Device`): the phase is the program's place in `pthi_call`, the answer under way is
found in the ME's output, and a command given up on is the loss of the promise,
until the interface is initialized again. It subsumes that each answer belongs to
its command, across flow control, disconnects, refused writes and
re-initializations.

`at` is the place of the program in `main.rs`: a call, or a key it waits for;
`cpc` is the place in `pthi_call`. `Send`, `SendFails`, `SkipHbm`, `Receive` and
`ReceiveTimeout` are `HeciContext::send` and `receive` (`heci/mod.rs:346-393`);
the other actions are the code between two calls. The ME holds the real control
mode and DNS suffix, and may answer with success, with an AMT error or too short,
before or after the flow control credit, late, or never; it may drop the
connection. A response is its command, status, length and first dword; `BufLen`
and `MinLen` hold the sizes that decide whether a response of another command is
accepted. `late` remembers that a command was given up on with the connection
still standing: from then on, until the interface is initialized again, an answer
may belong to an earlier command, and the properties that relate an answer to the
device except it. `ResponseAnswersCall`, without the exception, is violated.
`shown` is the result on the screen until the menu is drawn again.

### Lme

`pc` is the loop or method the session is in. `HostMessage` is a whole pass of a
loop: `raw_recv` with the credit it returns, `process_apf` with the reply it sends
and the session fields it sets, and the loop's exit condition. The ME's firmware
follows an init script, asks for forwards, opens and closes its channel, answers
requests in chunks as far as the host's window allows, sends keepalives, takes
messages in order, disconnects and goes down. `Target` selects the transport: the
UEFI build's credits and disconnects, the Linux driver's blocking read and
untruncated length, the Windows read that stays pending (`orphans`). Sizes are in
units, so that `rx_buf` and the windows have a size of three.

A write can fail in two ways. It is refused at once by an ME that is not ready, or by
a driver whose client is disconnected (`Refused`); or the ME is up but makes no room
for it before the timeout (`TimesOut`: `wait_slots` on UEFI, 5 s in `WriteFile` on
Windows, never on Linux). The host's replies and credits ignore either error
(`let _ =`, `lme/mod.rs:203, 217, 294, 306, 328, 357, 374`), so `Put` is `Sent` or
`Unsent`; CHANNEL_OPEN, a request and the host's version pass it on. `lost` and
`starved` remember, until the next connection, what was lost over a standing one: a
message whose write timed out, a credit likewise, and on Windows a forward or a CLOSE
that an abandoned read swallowed. What such a message leaves behind is
modelled as well. On UEFI a part of it may be with the ME, which takes the next
message for the rest (`Sent` may lose a message after a loss). On Windows the
write is not cancelled and may still be carried out, which the model lets happen at
once or never. A forward is answered only if it wants a reply (`NoReply`).

`CreditBalance` and `ForwardsNotLost` are therefore about everything but these
losses: no loop, no message type and no error path loses a credit or a grant, but a
write that times out does, and the code goes on without it.

### Activation

`hpc` is the step of `post_wsman`: build the request (`BuildRequest`, which counts
the nonce), reopen the channel if it is not active (`Reopen`), send, receive, and
then what `wsman_call` and `activate_ccm` do with the response (`Challenged`,
`SettingsRead`, `SetupRead`, `OtherStatus`, `Unreadable`). An answer is a status
code and the one value that is read out of it: the nonce of a challenge, the
`DigestRealm`, the `ReturnValue`. `got` says how far it came before `receive`
returned: not over the status line, to its end, to where the value begins, into
the value, to the end; these are the points `parse_response`, `extract_field` and
`xml_extract` tell apart, and `Read`, `Found` and `SetupReturnedZero` are what they
make of them. `receive` returns Ok with whatever it has, which is the hazard. An
answer that broke off leaves `active` set and the ME's end `closing`, as in the
module `Lme`: what is sent then is lost, and what is received is the rest of the
earlier answer. The ME serves a request at any later time, also after the host
gave up; it may challenge any request, with a new nonce. One request is served
per channel, since each says `Connection: close` (`http.rs:271-273`).

`RightPassword` holds for a reason nobody would guess from the code: a realm that
broke off is hashed and sent, but on a channel that is already closing. Making
`receive` mark the channel inactive when it ends early, which would repair the
disagreement `lme_send_dead` shows, breaks it: that change is its mutant.

### HttpParse

A byte is a number; those below `Base` are the digits of a chunk's size, and bodies
are made of digits and line ends as well. The web server sends the empty line and
the body, as it is or in chunks, and `raw` is any beginning of it. `FindBody`,
`CopyPlain`, `NextChunk`, `ReadDigit`, `EndSize` and `CopyChunk` are the branches and
loops of `parse_response` (`http.rs:62-159`) in their order. `BodyIsWhatCame` compares
with what was sent: a response that broke off anywhere yields what came of its body,
with one exception the code does have: between the CR and the LF behind a size, the
CR is copied as data. Chunk extensions, sizes beyond a `usize` and bytes that are
zero are left out.

### LogBuffer

`WriteStr(n)` is `write_str` of n bytes: what fits, then the marker. `FlushLog(k)`
is a flush of which k bytes reach the file. `Restart` is the end of a run and the
start of the next, over the same file.

## 4. Runs

| Run | Checks | Bounds |
|---|---|---|
| `heci_write` | `TypeOK`, `NoOverrun`, `IntactDelivery`, `WriteReturns`, `AcceptedIsDelivered` | A buffer of 4 dwords and pointers modulo 8, so that both wrap and a message of 13 bytes takes two fragments while one of 3 takes one; two addresses; 2 messages between resets, resets unbounded; 2 polls |
| `heci_read` | `TypeOK`, `OnePiece`, `WholeInOrder`, `ReadReturns` | A buffer of 4 dwords; messages of 3 and 10 bytes, the latter in fragments of up to 4 or 8, so that two of them do not fit at once; callers' buffers of 12 bytes and of 8, too small at the last fragment; the ME may go down once between two resets; 2 messages between resets, resets unbounded; 2 polls |
| `hbm_connect` | `OkIsConnected`, `OkLeavesNothingOld`, `NotFoundIsAbsent`, `ConnectReturns` | addresses 1 to 3 instead of 255 with clients at the first and the last, and a UUID nobody has; 6 messages in each direction; attempts unbounded |
| `lme` | `TypeOK`, `CreditBalance`, `ChannelAgreement`, `ForwardsNotLost`, `OpenAfterForward`, `LoopsEnd` | UEFI; a slow ME, whose reads and writes time out at any point; init scripts with and without the forward, with one that wants no reply, and an empty one; 2 requests, each over a connection of its own; loops of 3, 2 and 3 passes instead of 40, 30 and 100; an answer of two chunks of two units, where `rx_buf` holds three; keepalives and window adjustments unasked |
| `lme_prompt` | `RxIsPrefix`, `ResponseWhole` | UEFI, an ME within the timeouts; 3 requests; answers in several chunks, some larger than the receive loop's buffer; keepalives and window adjustments unasked, whenever the ME has read all of the host's messages, as long as they do not use up receive's attempts (`PatientSpec`) |
| `lme_windows` | `ChannelAgreement` | the Windows driver and a slow ME: reads that are abandoned while the channel is active and swallow its CLOSE, writes that time out; 3 requests, so that reopens over the same connection happen; channel numbers modulo 3, so that they wrap, which they do only here: on UEFI every reopen makes a new connection and starts over |
| `pthi` | `CommandsAtomic`, `InStep`, `SuccessIsTrue`, `ActivatesFromPre`, `NoCallWhenClosed`, `AcmStays`, `OperationEnds` | 2 attempts instead of 30; suffixes of 0 and 2 characters, the latter with a response exactly as long as a control mode's; 2 messages in the buffers; operations unbounded in number and order |
| `http_parse` | `TypeOK`, `BodyIsWhatCame`, `ParseReturns` | sizes in base two, so that they have up to three digits; every body of up to 4 bytes out of digits, CR and LF, every division into chunks, every cut; a body's buffer of 4 bytes, one less than needed |
| `activation` | `RightPassword`, `SuccessIsActivated`, `FailureIsClean`, `SetupIsLast`, `NoReplay` | the code's 3 attempts; one return value of a refusal; one activation, which ends: deadlock is not checked, and the menu that may start another is `Pthi` |
| `log_buffer` | `LogIsPrefix`, `TruncationShown`, `FlushedStays` | 8 bytes, a tail of 4 and a marker of 3, as 32 and 19 of 65536: a second marker finds room for its beginning only; strings of 1 and 3 bytes; 10 bytes in a run, 3 runs |

The type invariants of `HbmConnect`, `Pthi`, `Activation` and `LogBuffer` are not in
these runs: they are proved (section 6).

The bounds on counts (`MaxMsgs`, `MaxPosts`, `MaxLen`, `MaxQueue`, `Cap`, `MaxBytes`,
`MaxRuns`) are enough where they let the thing they bound happen once more than
the case of interest: two messages make one that follows another, three requests
make a reopen after a reopen, three runs make a file left by two. `Cap` bounds
what is in flight; beyond it the ME waits and the host's write times out, which is
what the circular buffers do.

Runs that show a disagreement, one property each:

| Run | What the code does | What it says |
|---|---|---|
| `lme_send_dead` | a disconnect that ends a response leaves `channel_active` set, and the next request goes out over the dead connection | `http.rs:303`, "Re-open APF channel if not currently active" |
| `pthi_late` | a late response is returned as the next command's | `amt.rs:52`, "Send a PTHI command and receive the response" |

Disagreements the models can show and no run is kept for:

- A response that broke off right before the digits of its ReturnValue is read as
  zero, and SUCCESS is reported for a Setup the ME refused (`wsman.rs:22` says
  "Extract value between <tag>value</tag>"). `result = "ok" => answer.value = 0` is
  violated in the run `activation`; `SuccessIsActivated` excepts just this answer.
- The second string that does not fit the log stamps the first 13 bytes of the
  marker again (`main.rs:37` says "stamp the truncation marker once"): two items of
  `log` equal `Mark(1)` in the run `log_buffer`.
- On Linux the second silent read of the handshake blocks for ever
  (`heci/linux.rs:127`), where `lme/mod.rs:88` says "channel_open will still attempt":
  with `Target` "linux", `pc = "handshake" /\ pvOk` does not lead to another `pc`.
- A chunk that does not fit what is left of `rx_buf` is dropped and a smaller one
  after it appended (`lme/mod.rs:284`; `RxIsPrefix` fails with `Responses` of such
  chunks).
- A read that timed out on Windows stays pending and swallows the ME's next message
  (`heci/windows.rs:271`): a forward, which is then never granted, or a CLOSE, after
  which `channel_active` stays true over a channel the ME has closed.
  `ForwardsNotLost` and `ChannelAgreement` except just these messages (`lost`); without the
  exception both are violated with `Target` "windows" and `Slow`.
- A REQUEST_SUCCESS whose write times out is lost (`lme/mod.rs:357`), although the ME
  resets the platform over a missing one (`lme/mod.rs:172-178`), and so is a credit
  (`lme/mod.rs:217`), after which the ME has nothing to answer with on this connection.
  Without their exceptions `ForwardsNotLost` and `CreditBalance` are violated in the
  run `lme`.
- A payload dword read before the ME wrote it is returned with Ok
  (`heci/mod.rs:301-323`), as section 3 describes; `OnePiece` and
  `WholeInOrder` end where that happens.
- A log shorter than the file of an earlier run leaves that run's end behind its own
  (`main.rs:66`).
- The comment on `activate_ccm` (`wsman.rs:164`) names a CommitChanges call it does
  not make.

## 5. Fairness

Safety needs none. `WriteReturns` assumes that the host's code runs on and nothing
of the ME; `AcceptedIsDelivered` is stated of an ME that serves its interrupts
while it is up, as a premise of the property.
`ReadReturns`, `ConnectReturns` and `ParseReturns` assume the host's code only: the ME
may be silent, stop in the middle of anything, or go on for ever. `LoopsEnd` assumes
the host's code, the operating system's completion of reads and
the ME's steps while it is up; the ME may go down or have nothing to say at any
point. `OperationEnds` assumes the host's code only: `WF_vars(PthiCall \/
Program)` is one thread that runs to its next return or key. Weak fairness is all
the code justifies: it polls and sleeps, and holds no lock. The user is never
assumed to press a key, and no property needs it.

## 6. Proofs

The theorems hold for every value of the constants that satisfies the modules'
named assumptions.

- **HeciWriteProofs** (`TypesHold`, `NoOverrunHolds`, `LengthFits`,
  `IntactDeliveryHolds`). `NoOverrun` is
  not inductive: that the buffer is not full says nothing of the next write. The
  invariant adds `SlotsReserved`: from the read of H_CSR to the last dword of the
  fragment, what is pending and what is still to be written stay below the depth,
  because the ME only ever frees slots. It rests on the depth dividing the
  pointers' range. `LengthFits` states that no fragment's length is cut by the
  header's field. `IntactDelivery` needs to know where the two ends are in the stream
  of messages: a cursor is a message, an offset in it and the dwords left of the
  fragment, and the pending slots lead from the ME's cursor to the host's, dword by
  dword (`Pipeline`). That a push leaves the pending slots alone is `NoOverrun`
  again; a write that gives up between two messages leaves the cursor at the
  beginning of the next one, and only one that gives up within a message
  (`torn`) breaks the chain.
- **HeciReadProofs** (`TypesHold`, `OnePieceHolds`, `WholeInOrderHolds`). That what is read never exceeds
  the caller's buffer is not inductive: the comparison is made at the header, and the
  dwords are copied after it. The invariant adds `Fits`: while dwords of a fragment
  are to come, what is read and what is left of the fragment fit the buffer together,
  because each dword but the last brings four bytes. `OnePiece` rests on what the ME
  has written and the host has not read being a chain (`Chained`): each dword is the
  next of its fragment or the header of the one that goes on where it ended. The host
  takes whole fragments off the chain, whether it keeps or drains them, and goes idle
  between two only; so a new read finds a
  header in front of it (`Aligned`) behind all that was returned (`Floor`), one under
  way finds what comes after its last dword (`Current`), and the bytes it has are an
  unbroken piece that ends there (`Collected`). All of this is about a host that has
  not read ahead of the ME: the induction carries it until `ahead`, and the bound on
  the buffer and the types on their own beyond (`Safe`, `Bounds`). An ME that goes down leaves the chain
  empty and never adds to it before the next reset. `WholeInOrder` adds `Turns`: as
  long as the ME is up, on time and not overtaken, and no message is dropped, what is in the buffer
  begins with the message after the last one returned, and a read under way has that
  message's bytes from its first on (`InTurn`); the wait for the next fragment finds
  the ME writing or about to be woken (`Prompt`), so that no read is given up on; and
  what is left of a begun message always fits (`Roomy`).
- **HbmConnectProofs** (`TypesHold`, `OkIsConnectedHolds`, `OkLeavesNothingOldHolds`,
  `NotFoundIsAbsentHolds`).
  The command bytes alone carry the argument: what an attempt leaves unread holds a
  reply to the version request or one to the enumeration, never both (`Exchange`), so
  that an attempt whose reset the ME has not noticed gets no further than the
  enumeration (`Resets`). Past it the reset was noticed, all that is on the way is of
  this attempt (`Fresh`), and a connect reply is one to the addresses the context
  holds. For `NotFoundIsAbsent`, an attempt nothing disturbed has either its last
  request or the answer to it on the way and nothing else (`Undisturbed`), so that
  the properties it reads are those of the address it asked about, and every listed
  address below the current one was asked for and is not the client (`Missed`).
- **HttpParseProofs** (`TypesHold`, `BodyIsWhatCameHolds`). `src` may pass the end of
  what was received after a chunk that was cut; it is within it again wherever bytes
  are copied, since the loop's condition is checked in between. That holds for every
  sequence of bytes and chunk size, not for well formed responses only.
  `BodyIsWhatCame` is about well formed ones. Its invariant (`Course`) says that what
  was received is the beginning of a wire, and where on the wire the parser is: before
  a chunk with all of the body before it (`AtChunk`), some digits into a size, of
  which `chunkSize` is then the quotient by the power that is left (`InSize`), behind
  the size (`BehindSize`), or where nothing can be added any more (`Stuck`). What the
  wire holds there is proved first (`ChunkIs`, `TailsAre`, `BeginsOne`). `Power` and
  `Tails` are recursive functions, and the library's induction theorems, which take an
  operator, are of no use to the provers; `Induction` is stated of a set of numbers
  instead and follows from the well-founded order of finite sets (`WFMin`). With it the
  finite beginnings of a recursive function exist and agree, so that the function is
  what its definition says.
- **LmeProofs** (`TypesHold`, `CreditBalanceHolds`, `OpenAfterForwardHolds`,
  `ForwardsNotLostHolds`, `ChannelAgreementHolds`, `RxIsPrefixHolds`,
  `ResponseWholeHolds`). Types carry that a connected ME is up and that chunk
  sizes fit when the responses do; credits then balance step by step, until one is
  given up on.
  `OpenAfterForward` needs `PfAsked`: `port_forward_ok`, and every forward on its
  way, is of a port asked for on this connection. `ForwardsNotLost` follows each
  port from the ME's request to the grant (`AllWait`): it waits in the inbox, in the
  grant, or in what was lost. `ChannelAgreement`, like these two on every target,
  needs what is on the way in both directions (`Ends`): an open and its
  answer only while the host waits for the answer or has given up and is about to end
  the session, with its channel inactive (`OpenOut`, `Awaited`); no second open and no
  close behind an open (`LastWords`); no close on a channel that is open for the ME
  (`Quietly`); and a channel the ME is closing has its CLOSE on the way or swallowed
  (`Closes`). What a write or a read loses only ever takes something off the queues,
  and each of these facts bears that. One credit means one message on the way to the host (`Single`), so
  that the confirmation the host reads is of the channel as it is (`Confirmed`).
  `RxIsPrefix` and `ResponseWhole` have conditions, since the code ends a response on
  any error and keeps what it has. `OnTime`: UEFI, where no read is left pending; an
  ME within the timeouts, or receive stops before the rest, which then arrives in
  the next response; and answers that fit `rx_buf` (`AnswersFit`; the chunks behind
  one larger than the receive loop's buffer need not, as the ME has lost its credit
  by then), or a chunk is dropped in the middle (section 4). `Patience`, in the
  specification they are proved of (`PatientSpec`): the ME's keepalives and window
  adjustments do not use up receive's 100 attempts while the channel is open. Nothing
  is lost then (`Intact`). Under them (`Course`) a request is on its way, with the host's
  whole window at the ME's disposal (`Asking`), or it is being answered and the
  window, the chunk on its way and the adjustments on theirs make up `rx_buf`
  (`Answering`, `Window`), so that the ME can always go on and receive does not time
  out (`ServingIsBusy`); or the ME's CLOSE is next and everything was collected
  (`Closing`). Between requests none is left to answer (`Idle`), and no chunk of an
  earlier answer is on its way (`NoData`). An aborted or starved connection satisfies
  none of this and only ends the response.
- **LogBufferProofs** (`TypesHold`, `LogIsPrefixHolds`, `TruncationShownHolds`,
  `FlushedStaysHolds`). The first three are inductive together; `FlushedStays`
  follows from them, since a flush writes a prefix over the file's beginning and
  the log only grows.
- **PthiProofs** (`TypesHold`, `InStepHolds`, `OwnAnswerHolds`,
  `SuccessIsTrueHolds`, `ActivatesFromPreHolds`, `AcmStaysHolds`,
  `NoCallWhenClosedHolds`, `CommandsAtomicHolds`). The invariant says what the program and the ME know of
  each other while nothing was given up on: what is on the way is the current
  call's (`InStep`); a response on the way or returned tells the device's state
  (`Answered`); what was concluded from a control mode holds until it is acted on
  (`ModeKnown`); after a shown success nothing on the way can undo it
  (`ShownHolds`); the context is closed in the tunnel and after the end only
  (`Closed`). Each conjunct needs the others: a control mode is the device's only
  because the answer is the call's own, and it stays so only because no command
  that changes it is on the way. `CommandsAtomicHolds` is the refinement: under the
  invariant every step of `Pthi` is a step of `HostInterface` or a stutter, with one
  lemma for each action.
- **ActivationProofs** (`TypesHold`, `RightPasswordHolds`,
  `SuccessIsActivatedHolds`, `FailureIsCleanHolds`, `SetupIsLastHolds`,
  `NoReplayHolds`). `Placed` ties the two ends of the channel to the host's step;
  `Hashed` says that a Setup with a wrong hash finds its channel closing; `Told`
  that the device is activated exactly when the answer to Setup is a zero, and
  that such an answer is never a 401; `Counted` that counts below the current one
  were used with the current nonce, and none with the nonce of a challenge not
  yet read.

Only model-checked: liveness (`WriteReturns`, `AcceptedIsDelivered`, `ReadReturns`,
`ConnectReturns`, `ParseReturns`, `LoopsEnd`, `OperationEnds`), which the prover does
not reach.

## 7. What is not modelled

- `read_msg`'s partial messages above `HeciRead`: the modules above take a message as
  one unit that arrives, fails or times out. A message of which only some fragments
  arrived, which `read_msg` returns as complete (`heci/mod.rs:256`), does not occur in
  them: the claims of `Lme` and `Activation` about what is received rest on an ME that
  completes the messages it begins.
- A connect that ends as in `HbmConnect`'s runs with something late: `Pthi` and `Lme`
  take a connection as made or failed, which is what `OkIsConnected` and
  `OkLeavesNothingOld` give them; after a failed one, `Pthi` has no connection.
- The PCI lookup in `init`, and the depth read by `reset`.
- `tx_window` and `hbm_send_credits`: the code counts them and never decides by
  them.
- An ME that sends flow control messages or disconnects without end, inside one
  `receive`; APF messages shorter than their fields.
- On Windows the result of `GetOverlappedResult`, which the code ignores
  (`heci/windows.rs:232, 276`): a pending request that fails later is taken as one that
  transferred nothing, where `Lme` has it fail.
- In `Pthi`: a control mode changed by somebody else while the program waits for
  a key; an `init` that finds no device after it found one; the drivers' receive,
  whose untruncated length is modelled under the LME session only.
- In `Activation`: answers that `receive` cut because `rx_buf` was full, with the ME's
  CLOSE behind them (`lme/mod.rs:284`), or that `post_wsman`'s body buffer cut
  (`http.rs:152`): an answer is cut there only by a `receive` that ended early, on a
  channel that stays active; an ME that repeats a nonce; a second activation of the same
  program run; answers without the value they are read for.
- Contents of informational responses, drawing, fonts, PCI reads, MD5.
