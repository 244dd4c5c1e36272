# Stir4200MacOS: a TLA+ model, its checks and its proofs

`stir4200` downloads the memory of a Uwatec Galileo dive computer through a
SigmaTel STIr4200 infrared dongle, with the IrDA stack written in user space.
This directory models the parts of it that are hard to test: the chip and the
protocol layers over a link that loses frames and answers late, the download,
and the parsers that walk untrusted offsets through a memory dump. All paths
below are relative to the repository; the Rust sources are under `src/src/`.

## Inventory

| component | code | state it keeps | operations | model |
|---|---|---|---|---|
| Chip control | `chip/mod.rs` 75-262, `irlap/mod.rs` 409-440 | registers, FIFO | `change_speed`, `run_init`, `send_sir`, `fifo_drain` | `Chip`, `ChipProofs` |
| SIR framing, FCS | `sir/framing.rs`, `sir/crc.rs` | `Unwrapper`: state, buffer, error counters | `async_wrap`, `push`, `finish`, `check` | `SirFraming`, `SirFramingProofs` |
| IrLAP connection | `irlap/mod.rs` 444-545 | V(s), V(r), the unwrapper; per call: frame, try | `transact`, `disconnect` | `IrlapLink`, `IrlapLinkProofs` |
| IrLAP bring-up | `irlap/mod.rs` 100-218, 326-440, 549-673 | discovery list, connection address, retry counters | `discover`, `exchange`, `connect`, `run_connect` | `IrlapConnect`, `IrlapConnectProofs` |
| TinyTP session | `smart/mod.rs` 1-303 | `remote_credit`, `send_credit`, `rx` | `connect`, `send`, `recv`, `transfer` | `Ttp` (over `IrlapLink`), `Session`, `TtpProofs` |
| Download | `smart/mod.rs` 307-383 | the session, `length`, the dump file | `run_download` | `Download` (over `Session`), `DownloadProofs` |
| Parse command | `subsurface/mod.rs` 753-840 | the dives and their numbers | `run_parse` | `ParseRun` (over `DumpExtract`, `Calendar`), `ParseRunProofs` |
| Dump scan | `subsurface/mod.rs` 145-164 | scan position, end of the record above | `extract_dives` | `DumpExtract`, `ParseRunProofs` |
| Calendar | `subsurface/mod.rs` 468-485, 575-618 | none | `civil`, `unix_from_civil`, `parse_since` | `Calendar`, `ParseRunProofs` |
| Dive record parser | `subsurface/mod.rs` 20-100, 167-465 | offset, current values, active and last mix | `parse_dive` | `DiveParser`, `DiveParserProofs` |
| XML and UDDF writers | `subsurface/mod.rs` 486-568, 621-750 | none | formatting | not modelled |
| Diagnostic commands | `chip`, `irlap` | none that outlives a call | `tx`, `rx`, `discover`, `connect` commands | not modelled |
| USB transport | `usb/mod.rs` | libusb handles | enumerate, claim, transfer | not modelled |
| Command line, logging | `main.rs`, `logging.rs` | none the protocol depends on | printing | not modelled |

**How they interact.** Everything is one thread and synchronous. `run_download`
sets the chip up with `change_speed`, calls `irlap::connect`, then `Ttp::connect`
and a series of `transfer`s. Each turn of `recv` is one call of `transact`;
`transact` sends a SIR frame (`async_wrap`, bulk OUT), waits for the FIFO to
drain, and reads bulk IN through the `Unwrapper` until a frame with the final bit
comes or its 500 ms window closes. The concurrency is between the program, the
dive computer and the frames under way: both directions are queues (chip FIFO and
USB pipe), and nothing empties them between exchanges, or between runs of the
program. `parse` is a run of its own, over the file that a download left.

**What is hard here.** A late answer is read by the next exchange. A lost
command and a lost answer look alike. `transact` gives up without knowing
whether the device took the I-field. Credit is counted when it is offered, not
when it arrives. A killed run leaves a connected device, unread frames, and a
chip between two register writes. The memory of the device may change between
two commands. Offsets and lengths in the dump come from the dump. Every such
hazard is listed, at its line, under `hazards` in `PROJECT.json`, with the
properties that cover it.

**What makes each component correct.**

* Chip: `change_speed` returns Ok only with the receive path set, whatever broke
  off before; the clock changes in reset only; the verdict of `run_init` is true;
  a response window hears what comes within it.
* Framing: intact frames arrive, nothing is made up.
* IrLAP: each direction is a stream of I-fields without repetition or reordering;
  `connect` takes no answer of an earlier run, ends, and hands over a fresh link.
* TinyTP: every recv returns the bytes sent for its own command; no credit is
  overdrawn; nothing starves for want of credit.
* Download: Ok means that the whole memory is in the file; nothing but the write
  of a complete download touches an earlier dump.
* Parse: the records are those written; samples, gas changes, numbers and dates
  are those of the device; the filters select what they say.

## The modules

**`Chip`** is the chip under any number of runs: `WriteReg` is one turn of
`change_speed`, `WriteFails` the same with an error (the chip may have taken the
write all the same), `ReadReg` and `Verdict` are `run_init`, `Stop` ends a run
anywhere, `Unplug` puts the registers back. `Deaf` registers do not keep what is
written; the low bits of CTRL2 are the revision of the chip. Time is in ticks and
passes in `DrainTurn` and `ListenTurn`. An exchange is `Send`, `fifo_drain`
(whose result is ignored, hence `Listen` with `blind`) and the window.

**`SirFraming`** pushes bytes through the `Unwrapper`; a byte is the set of its
one bits, so the CRC is the real one. The medium inserts garbage and damages bytes.

**`IrlapLink`** is `transact`, step by step: `BeginInfo` and `BeginPoll` are the two
ways to call it (the frame is built once, before the loop), `Retransmit` a turn
of the retry loop, `GiveUp` its end, `ReceiveFinal` and `ReceiveNonFinal` a
matching frame in the inner loop, `UsbFailure` the `?` behind `send_sir`.
`ReceiveFinal` may drop any number of the frames queued behind the one it takes:
`push_all` returns all frames of a bulk read as a list, and `transact` returns
out of the middle of it. A late answer is legal: the window of 500 ms is also the
turnaround time the program offers the device, and the time of the frame comes
on top. `Prompt = FALSE` therefore lets a window close with an answer still
coming; `Prompt = TRUE` excludes it. `MaxStaleUas` UAs may be in the queue at the
start: they are the answers to SNRMs that `connect` sent more than once, and
`transact` reads them as supervisory frames with N(r) = 3. The device is
external: a secondary with a window of one that repeats its I-frame until it is
acknowledged. `SplitReplies = TRUE` lets it answer in two frames, as the code
allows for (`pf == 0`).

**`IrlapConnect`** is what comes before `IrlapLink`: discovery passes, SNRM/UA,
polls and DISC, for several runs of the program in a row, any of which may abort
anywhere (`Abort`: an error, or a kill). The two queues survive from run to run,
and so does the device's connection until its own timer ends it
(`DeviceTimesOut`; the code offers at least 3 s for that timer, longer than a
handshake, hence it is not enabled during the connection's own run). Its invariant
`HandsOverFreshLink` is the state `LinkInit` of `IrlapLink` starts from.
`parse_ua` refuses a UA of fewer than ten bytes (`irlap/mod.rs` 375), and the try is
then lost; the model has no such step. Frames under way are whole (damage is the
subject of `SirFraming`), a UA that answers an SNRM has both device addresses in
it, and by `OwnAnswersOnly` no other UA, such as a short one for a DISC, matches.

**`Ttp`** EXTENDS `IrlapLink`: every action of it that calls `transact` is an action
of the link conjoined with what the caller does before, and `Returns` is what it
does with the result. The peer is external; it sends data while it holds credit,
and gives credit back at once, or late, or in a PDU without data
(`DatalessGrants`). A byte of a reply is named `<<transfer, position>>`, so a
reply that is mixed up with another is visible.

**`Session`** is what `run_download` counts on: connect ends, a transfer returns
what the device sent for that very command, whole and in order, or the session is
over; every call ends. `Ttp` implements it (`ImplementsSession`: `phase` is the
stage of `tpc`, requests and replies are the histories), and `Download` uses it:
losses, retries, credit and segmentation are checked once, in `Ttp`, and the
download is checked over what is left of them.

**`Download`** is `run_download`: `CMD` is its sequence of commands, `Transfer`
sends the next, `Identity`, `SizeReply`, `DataSize` and `Data` are what it does
with each reply, `Write` and `WriteFails` are `fs::write`. The memory of the
device is a version with a length, changes at any time (`MemoryChanges`), and a
reply to SIZE or DATA says what held when it was sent. `Word` is the modulus of
`length + 4`; `build` says whether it panics or wraps.

**`DumpExtract`** is the backward scan, one action per turn. **`Calendar`** holds
the two conversions between seconds and dates, and `parse_since` behind the
splitting of its argument; a time is a day and a second of the day, as 32-bit
integers are all TLC has. **`ParseRun`** composes both into `run_parse`: scan,
numbers, `--since`, `--last`, the refusals and the write, which may break off. One
record on which `parse_dive` panics ends the run (`ParsePanics`); which records do
is left open (`Panics`), and for the bytes of a record it is a matter of
`DiveParser`. In `Calendar`, a part of an argument that `parse()` refuses is
`NotANumber`, which is no integer: a negative hour is one that it accepts.
A record is `Readable` if it has the 44 bytes `parse_dive` asks for and `Parses`
does not refuse it for another reason; `AtAll(s, S)` is the sequence s at the
positions in S, in order, which is what the filters of the code keep.

**`DiveParser`** is `parse_dive`, one action per kind of sample. A record carries
its bytes and, for the properties only, the samples that were `written` into it,
each with its meaning and its place. `Encoded` says which bytes mean a sample, and
what may be behind the last that is in the record in full. The properties speak of
the samples and never of the bytes: `Meant` is the profile point that a sample
stands for, by the last absolute value and the differences since; `Switches` are the
samples on another mix than the one before. MC modules make the bytes of the inputs
here and in `DumpExtract`, and `MCDivesEncoded` checks that those here are
`Encoded`. The conversions from raw units to metres, degrees and bar, the
salinity and the cylinder pressures are left out: they are products of one value
with a constant.

## The runs

Every run sets `CHECK_DEADLOCK FALSE`: the program ends (with a result or an
error), the parsers finish, and the bounds stop the environment.

| run | question | bounds, and why they are enough |
|---|---|---|
| `chip` | Is the chip set when `change_speed` says so, after runs that broke off anywhere? Is the verdict true? Is an answer within the window heard? | 9600 and 2400 baud, one speed the chip does not have, three sets of deaf registers; ticks of 10 ms, frames from 20 to 340 ms, answers on both sides of every edge of the window. The number of runs is unbounded. |
| `sir_framing` | Is nothing made up, does every intact frame arrive, is every end counted? | 3 frames, 1 damaged byte, 2 bytes of garbage; payloads that hold BOF, EOF and CE. |
| `link_late` | Late answers, losses and a left-over UA: is no I-field returned or taken twice, and none skipped? Is `LinkInv` an invariant? | 2 tries, 3 offers, 2 device I-fields, 2 losses, 3 frames per queue. Two tries give every overlap of an answer with a retry; with windows of one a confusion needs at most two generations of frames. The proofs cover all other values. |
| `link_prompt` | Prompt device, fewer losses than tries: does every I-field arrive before `transact` returns, is it acknowledged only then, does everything end, and is every I-field of the device returned if answers are single frames? | 9 offers: V(s) wraps at 8. 4 device I-fields, 2 losses, 3 tries, split answers. |
| `connect` | Three runs, aborted anywhere: is an answer of an earlier run ever taken for one of this run? Does `connect` hand over what the link starts from, end, and fail only for a reason? | 2 passes, 3 SNRMs, 2 addresses (so runs may draw the same) and the two that are refused, 2 losses, device up to 2 frames behind. |
| `ttp_lossy` | Losses beyond the retries, disconnects, left-over UAs, dataless and late grants: does the session implement the abstract one, is no credit overdrawn, does it fail only for a reason? | 3 losses against 2 tries, so a frame, a grant or a command can be lost for good; 2 transfers of 2 or 3 bytes in PDUs of up to 2, credit target 2: the device runs out of credit within a reply, and a reply takes one recv or two. 3 polls for the confirm and a limit of 4 empty answers, so that both limits are reached and passed. |
| `download` | Does Ok mean that the memory is saved? Does anything but the write touch the file? Does the comparison of the sizes stop the download exactly when the memory is no longer of the size that SIZE said? | words of 4 bits; lengths 0, 1, 3, 11, 12 and 15 on both sides of the overflow; the memory changes up to twice, so length and content can go apart and come back. |
| `parse_run` | Are the records found? What does a dump lose that is cut off? Do dives keep their numbers, do the filters select what they say, are dates those of the calendar? | dumps of up to 3 records with junk, a marker within a dive, 0-9 bytes cut off (a record header is 8); records that are refused, or end the run by a panic, among others of 44 bytes, the least that is read; dives at the ends of every month of a leap and of common years, at both ends of the clock and of the timezone; 12 values of `--since` and 4 of `--last`, none among them. |
| `parse_dive` | Are samples, gas changes and cylinders those that were written? Is there one index out of range only? Does it end? | up to 3 samples of 17 kinds (extreme differences, both kinds of alarms, mixes out of order), four kinds of header, records cut within a sample. Carried state is one value per channel, so three samples show every pair of effects. |
| `link_split`, `dump_cut`, `parse_lost_switch` | the findings below | each the smallest instance that shows it |

**What the checks rely on.**

* `FailsOnlyIfRefused` holds while the device is prompt and fewer frames are lost
  than there are tries; it says so.
* `OwnAnswersOnly` holds for a device at most two frames behind (`Behind`): the final slot of
  discovery and its windows read what an earlier run left. With a device three
  frames behind *and* the same random address drawn twice, an old UA would be accepted.
  It also takes queues of at least four frames: a queue of three that is full drops
  the discovery command whose answer would flush the rest.
* `AcknowledgedWasTaken` and `OffersArrive` hold for a prompt device, no UA left
  over and fewer losses than tries: when a `transact` gives up and its answer comes
  later, that answer acknowledges the next I-field.
* `NothingMadeUp` is checked for the damage of one byte in the payloads of the run.
  It does not hold in general: a sixteen-bit FCS cannot detect all damage, and one
  byte that becomes an EOF leaves two frames of any content. What holds of every
  frame is that it fails the check if one of its bytes changed (`FcsNoticesOneByte`).
* `CreditCovered` says that `remote_credit` never understates what the device
  holds, and is exact (but for the PDUs that only give credit, which `absorb`
  charges) only until as many frames are lost as a transact tries: a grant is
  counted when it is offered, one that is lost for good is never repaired
  (`smart/mod.rs` 241-243), and the session then may starve. `OnlyUsbFails`
  excludes that case, a device that disconnects or keeps the credit it owes,
  and an I-field given up on. One of these needs no loss beyond the retries: a
  UA left over from the handshake may be read as the answer to the LMP CONNECT,
  which then is not sent again though its frame was lost.
* `ImplementsSession` holds with all of these: it promises an end, not success.
* `PromptIsHeard` takes off the window what `fifo_drain` left of the frame: its
  60 ms are shorter than a full frame at 9600 baud (about 85 ms), so 30 ms of the
  500 go to the frame. At 2400 baud an SNRM takes some 340 ms and 220 ms are left;
  if the status cannot be read, `fifo_drain` returns at once and the whole frame
  counts.
* `FileIsSelection` holds for a `--since` that is a date of the calendar.
  `parse_since` does not check the ranges of its fields: `2023-02-31` means the
  third of March.
* `EverySduReceived` speaks of behaviours in which every answer is one frame; of an
  answer in two the I-field may be acknowledged and thrown away (`link_split`).
  `link_prompt` has both kinds of behaviours.
* `CutRecordCosts` speaks of dumps in which no dive holds the marker.
* `ChangeIsNoticed` says nothing of runs that panic in `length + 4`: a debug build
  does for a size within four of 2^32.

**Fairness.** `LinkFairness` is weak fairness of `transact`'s own steps (its loops
run), of `BeginPoll` (the callers poll on: `recv` does, for 2000 empty answers) and
of the device's answers (a secondary must answer a poll). `FairTtpSpec` and
`FairConnectSpec` ask the same of the program's loops and of the device, and
`FairParseSpec` that the loop of `parse_dive` goes on. Nothing is asked of losses
or USB errors, and no strong fairness is used. The fairness within `Session` is not
an assumption but a promise: `ttp_lossy` checks that `FairTtpSpec` implies it.

## Findings

* `link_split`: `transact` forgets an I-field that comes in a frame without the
  final bit though V(r) has advanced (`irlap/mod.rs` 513-527). The Galileo was
  not seen to answer in two frames.
* `dump_cut`: a dump whose only record is cut within its dive has a marker, yields
  no record, and `run_parse` then says that the marker is missing. That whole, older
  records are lost with a newest one that is cut is not in this trace; it is what
  `CutRecordCosts` says, which `parse_run` checks and `ScanCutRecordCosts` proves.
* `parse_lost_switch`: a switch to a mix that is described only later is
  remembered as seen, and no gas change is ever written for it.

Smaller things met on the way, which the models contain and no run argues about:
the comment of `irlap/mod.rs` 534-535 is not true after a frame without the final
bit that acknowledged V(s) (the frame is still sent again with its old N(s), which the
device takes for the duplicate it is); DISC is sent once; a lost grant is not
repaired; surplus bytes in `rx` would become the start of the next reply; `u32_le`
and `rec[offset]` panic for a dump that ends within the length of a record and for an
empty MISC sample at the end of a record; the README's "solo immersioni dopo una
data" includes the dives of that very second.

## The proofs

All theorems hold for every value of the constants; what they assume of them are
the named ASSUMEs of the modules, as weak as the code allows, and the hypotheses
that stand at their head (`ASSUME Prompt, MaxStaleUas = 0`). Every run that checks
a property of a theorem meets those, or finds the property true beyond them.

**`IrlapLinkProofs`**

* `LinkTypeCorrect`: `TypeOK`, split answers included.
* `LinkInvariant`, for single-frame answers (`~SplitReplies`; with split answers
  `link_split` refutes it): `LinkInv`. `ReceivedInOrder` is not inductive: it
  speaks of the histories, and whether the next frame extends them well depends on every
  frame under way. `LinkInv` therefore counts I-fields without bound, takes all sequence
  numbers to be these counts modulo 8 (`Counters`), and bounds how old a frame
  in either queue can be: a frame to the device carries the I-field it expects or
  the one before, and none that is fresh precedes one that is stale (`ToDevice`);
  a frame from it carries its last I-field or the one before and acknowledges all it took or
  all but one (`FromDevice`); UAs come before everything else. With a distance of
  at most one, numbers modulo 8 identify I-fields. The proof has one lemma
  per action and, in the larger ones, one step per conjunct.
* `LinkReceivesInOrder`, `LinkAcceptsInOrder`, `LinkWindowOfOne` follow from it.
* `LinkPromptInvariant`, for a prompt device and no UA left over, split answers
  and any losses included: `PromptInv`. There is one exchange at a time, and every
  frame under way is the frame of this `transact` or an answer to it (`OneExchange`,
  `InWindow`). While fewer frames are lost than there are tries, each try but the
  one under way has cost a frame, so `transact` does not give up, and what it
  offered has been taken and acknowledged when it returns (`Settles`). Hence
  `LinkOffersArrive` and `LinkAcknowledgedWasTaken` with fewer losses than
  tries, and `LinkPromptWindowOfOne` with any, for split answers too.
* `LinkAnswersInvariant`, with single answers as well: `AnswersInv`, the way back.
  Every try but one under way has cost a frame, an answer carries an I-field when
  one is due and only then, and while fewer frames are lost than there are tries
  no I-field of the device waits for a later call.

**`IrlapConnectProofs`**

* `ConnectInvariant`, for any number of runs, each broken off anywhere, any losses
  and any draw of addresses: `ConnectInv`, for a device at most two frames behind
  and queues of at least four. `OwnAnswersOnly` says nothing of the frames that could
  break it later. `ConnectInv` says why there are none: discovery puts two frames of its own
  behind those of earlier runs, so they are gone when the final slot closes
  (`Flushing`); from the first SNRM on, all that is under way is discovery or of
  this run (`OwnFrames`); a device that was heard is connected to this run
  (`Linked`); and each SNRM leaves one UA at most (`Counted`).
  Hence `ConnectOwnAnswers`, and `ConnectFreshLink`: `connect` hands over the
  state in which `LinkSpec` starts, with `MaxStaleUas = SnrmTries - 1`.
* `ConnectFailsForAReason`, for a device that takes another SNRM as a new one and
  queues that hold a frame of each run: `WhyInv`. As long as no window closed on an
  answer under way, each pass and each try that failed was paid for with a lost
  frame, or the device refused in this very run.

**`TtpProofs`**, all for single-frame answers, as the link is

* `TtpUsesLink`: every session is a behaviour of `IrlapLink`, so the theorems above
  hold in sessions too (`TtpReceivesInOrder`).
* `TtpSendCreditBacked`, for sessions of any length, any losses, prompt or late
  devices: `send` never spends a credit the device did not grant. `SendCreditBacked`
  alone is not inductive, for two reasons. A command is paid for when its transact
  returns, whether or not the device took it; and one that was given up on may be
  taken much later, out of a queue. `CreditInv` therefore is a balance: the
  program's `send_credit`, the grant in an I-field that is on its way (`Granted`,
  at most one, by `LinkInv`) and a credit for a command given up on that the device
  would still take (`Kept`, at most one: taking one makes the others stale) add up
  to no more than the device granted; one less while a command has been taken and
  its transact has not returned (`PaidLater`). The proof uses `LinkInv` throughout
  and has a lemma for each kind of step.
* `TtpCreditBounded`, the same for the other direction and again for any losses
  and late devices. `Gap` is what the program counts less what the device holds or has
  spent on what is unread. `BoundInv`: it is never negative, and no frame that the
  device would still take brings more credit than the gap has.
* `TtpCreditCovered` adds that the count is exact while fewer frames are lost than
  a transact tries: the gap is the credit of the I-field under way (`ExactInv`,
  with `PromptInv`). The theorem takes a prompt device and no UA left over;
  `ttp_lossy` finds `CreditCovered` true with one left over as well.
* `TtpRefinesSession`: every step of a session of any length is a step of `Session`
  or leaves it alone, with any losses and late answers. The bytes not yet
  returned are in `rx`, in an I-field `transact` has not returned, or still owed by
  the device; `StreamInv` says that these three, one after the other, are the rest
  of the reply to the command in progress, or nothing while the device has not
  taken it, and that no other command is left for it to take. This is the safety
  part of `ImplementsSession`. `Download` is proved over `Session` alone, so
  together they are the whole path from the frames to the file.
* `TtpOnlyUsbFails`: a session of a prompt device, with fewer frames lost than a
  transact tries, does not starve. `LastsInv` says what an answer without an I-field
  can be: a dawdle, of which there are `MaxDawdles`, a device with nothing to send, or
  one without credit. Until it confirms the connection it has that to send, so
  `polls` counts dawdles (`Opening`). In a transfer it has taken the command, the bytes
  not here yet are owed, by `StreamInv`, and it holds credit, by `ExactInv` and
  because `recv` tops it up before every turn (`Serving`), so `misses` counts dawdles too,
  and one PDU that only gives credit (`Missing`). `send_credit` is what the device granted and
  `window` and `give` add up to `InitialCredit`, so `send` refuses only while the
  device keeps credit back (`Windows`). The hypotheses are that the device dawdles
  no longer than the code waits (`ConnectPolls >= MaxDawdles`, 20 polls;
  `MissLimit > MaxDawdles`, 2000 misses), grants credit when it confirms, and no UA
  is left over; `ttp_lossy` has one.

**`SirFramingProofs`**

* `SetInduction`: a set that holds 0 and with each number the next holds all
  numbers; by counting, as the library's induction takes an operator for a
  parameter. With it and the one function that meets a recursion (`StepsExist`
  and what follows) the recursive functions of the module, which the CRC is, can
  be reasoned about.
* `PayloadChecks`: a payload with its two bytes of FCS leaves the good residue,
  whatever the payload; `FcsNoticesOneByte`: a frame with one byte changed does not.
* `SirIntactArrive`, for any payloads, garbage and damage: `Arriving`, that all
  undamaged frames but the last have come out, and that the last has, or is on its
  way with n of its bytes in `buf`, and what is left on the wire is the stuffing of
  the others. `push` takes any stuffed frame apart from any state it was in before.
* `SirEndsCounted`, and the types (`SirTypeCorrect`).

**`ChipProofs`**: `ChipInv` adds to `ReadyMeansSet` what holds after each of the seven
writes (`Progress`), which registers `run_init` has compared (`Compared`), and for
an exchange that clock, what is left of the frame and what is left of the answer
add up to the times of the exchange, but for the overrun (`Timed`). Hence
`ChipReadyMeansSet`, `ChipPromptIsHeard`, `ChipClockChangesInReset`, `ChipVerdictTrue`.

**`DownloadProofs`**: `DownloadInv` ties the three histories together: the replies
are to the commands sent so far, one each (`Owned`, `InStep`), and once DATA has
been answered with `length + 4`, the memory being sent has `length` bytes
(`Dumped`). Without it OkMeansSaved says nothing of a run before its end. Hence
`DownloadOkMeansSaved`, `DownloadOnlyWriteHarms`, `DownloadChangeIsNoticed`, for any
word size and any changes of the memory. The last rests on `SameLength`: four more,
modulo the word, keeps different lengths apart, so the wrapped sum hides no change.

**`ParseRunProofs`**, for the scan, the calendar and the command

* `ScanInv` is inductive for every set of dumps (records found so far lie at or
  after `previous`, apart, each at a marker with the length that follows it),
  hence `ScanRecordsApart`.
* `ScanCutRecordCosts`, for every dump that breaks off within a record: until the
  scan is at the start of that record it has found nothing; how many bytes of the
  record there are then decides whether it is passed by, is an index out of range,
  or ends the scan (`BeforeCutStep`). If it is passed by, what is left is a scan of the
  records before it (`BesideCutStep`), as in the next point.
* `ScanExtractsAll` and `ScanNewerSurvive`, for every whole dump: while the scan
  runs, the records found are all but the m oldest of those written, and it has not
  passed the start of any of those m (`Suffix`). Of a dump whose markers are only the starts of
  records this holds to the end (`ExtractInv`); with a marker within a dive, until
  all newer dives are found (`NewerInv`). `DumpAssumption` says of a dump no more
  than what a device writes: records one after another, each with marker and
  length as far as the dump reaches.
* The calendar, for all times and all dates, not only those a record can hold:
  `civil` gives a date of the calendar and `unix_from_civil` takes it back
  (`CivilRight`), and the other way round (`CivilBack`); the day after is the next
  date (`CivilTomorrow`); the order of dates is that of their times
  (`NotBeforeRight`). The divisions by 4, 100, 400, 1460, 36524 and so on are one
  lemma each, as linear inequalities (`By4`, ...); the rest of an era of 400
  years then is linear arithmetic, and eras are 146097 days each.
* `RunScans`: a run scans as `DumpExtract` specifies, so the theorems of the scan
  hold in it.
* `RunNumbersKept` and `RunFileIsSelection`, for every dump, every parser and every
  filter: `Lists`, that the local `dives` has the numbers of a set, each dive as
  it is in the dump and in ascending order; the set is first that of the readable
  records, then what `--since` and `--last` leave of it (`Chosen`). That
  `AtAll` keeps order and number is shown by the ranks of the positions (`Ranks`, `NthIs`).
* `RunPrintedIsCalendar` from the calendar.

**`DiveParserProofs`**

* `ParseTypes` and `LoopMovesOn`, for any bytes: locals keep their types, no two
  mixes have an id in common, every gas change names a mix, and after `Finish` the
  cylinder it has become; every turn that goes on moves the offset forward, which is
  why the loop ends.
* `SamplesAreRead`, `GasesAreRead` and `PanicsAreEmptyMisc`, for every record whose bytes
  encode samples (`Encoded`), of any number and any values, cut off anywhere: what
  `parse_dive` makes of the bytes is what the samples mean. `SamplesMatch` speaks of
  the end only and of the whole record; the loop has no count of the samples it has
  read, and the points made so far say nothing of the values to come. `ReadInv`
  therefore says that while the loop runs there is a number k such that the offset is behind
  the k-th sample (`Place`), each local value is that after k samples, the calibration
  that of the first absolute depth (`Values`), the points and the time are those of
  the first k (`Points`), the mixes those described by then, each once and as it was
  first (`MixList`), and, as long as every mix was described before it was used, the
  changes are the switches so far (`Changes`).
  The proof has three parts. The bytes of a sample take the loop to the action that
  reads that value (`Takes`, with the divisions and remainders of the sample table in
  the `Reads...` lemmas), and behind the last no sample is found (`EndTaken`). The
  sums and last entries that define the meaning are each one step further after one
  sample more (`TotalSteps`). `Finish` then turns the changes' numbers of mixes into
  numbers of cylinders: `Order` is the ascending order of the ids (`Sorted`).
* `AnyBytesEncode`: whatever the bytes behind a header are, there are samples that
  they encode: whole ones one after the other, then nothing whole. `Encoded` is
  thus a condition on `written`, which only the properties look at, and no
  restriction of what is parsed. By induction on the number of samples, each of
  which takes a byte at least.

**Only model-checked** are:

* all liveness (fairness and ENABLED are out of the prover's reach): the promises of
  `Session` that calls end, `EverySduReceived`, `TransactEnds`, `ConnectReturns`,
  `ParseEnds`;
* `OnlyUsbFails` and `CreditExact` with UAs left over from the handshake, which
  would need `PromptInv` with them;
* `NothingMadeUp`, which is not true of all constants.

## Not modelled

* The XML and UDDF writers: formatting with no state. The date they print is in
  `Calendar`.
* The diagnostic commands `tx`, `rx`, `discover`, `connect`: loops that send or
  print; the operations they call are modelled with their components.
* USB transport: enumeration and claiming through libusb, pure I/O.
* Command line and logging.

## What is left

* `PromptInv` with UAs left over from the handshake, by which `TtpCreditCovered`
  and `TtpOnlyUsbFails` would lose their hypothesis on `MaxStaleUas`.
