------------------------------ MODULE Download ------------------------------
(***************************************************************************)
(* run_download of src/src/smart/mod.rs over the session of Session: bring *)
(* the link up, ask for the identity of the device and for the size of its *)
(* memory, download that, write the file, and take the link down.  An      *)
(* error leaves through "?", and sends no DISC.                            *)
(*                                                                         *)
(* The device is external.  What its memory holds may change at any time,  *)
(* between two commands too; a reply says what held when it was sent.      *)
(***************************************************************************)
EXTENDS Integers, Sequences

CONSTANTS Word,       \* modulus of the u32 arithmetic (2^32)
          Lengths,    \* bytes a memory may have
          MaxChanges  \* bound: changes of the memory

ASSUME DownloadAssumption ==
  Word \in Nat /\ Word > 4 /\ Lengths \subseteq 0 .. Word - 1 /\ MaxChanges \in Nat

VARIABLES
  step,       \* "start", "link", "session", "write", or how the run ended
  phase, requests, replies,     \* the session: see Session
  said,       \* what the first reply to each command says (history)
  length,     \* run_download's
  file,       \* what out_path holds
  linked,     \* the device is in a connection
  build,      \* "debug": an overflow panics; "release": it wraps
  memory,     \* of the device: [version, len]
  dumped      \* its memory when it was asked for it (history)

sessionVars  == <<phase, requests, replies>>
downloadVars == <<step, sessionVars, said, length, file, linked, build, memory, dumped>>

CMD == <<"HANDSHAKE1", "HANDSHAKE2", "MODEL", "HARDWARE", "SOFTWARE", "SERIAL",
         "DEVTIME", "SIZE", "DATA">>
Size(k) == IF CMD[k] \in {"SERIAL", "DEVTIME", "SIZE", "DATA"} THEN 4 ELSE 1
Over    == {"ok", "error", "panic", "killed"}
OldFile == [version |-> 0, bytes |-> <<>>]

S == INSTANCE Session
       WITH AskSizes <- {1, 4}, MoreSizes <- 0 .. Word - 1, MaxTransfers <- Len(CMD)

-----------------------------------------------------------------------------
DownloadInit ==
  /\ step = "start" /\ S!Init /\ said = <<>> /\ length = 0
  /\ file = OldFile /\ linked = FALSE
  /\ build \in {"debug", "release"}
  /\ \E len \in Lengths : memory = [version |-> 1, len |-> len]
  /\ dumped = memory

(* The chip is set up and irlap::connect returns a link; or one of the     *)
(* calls fails, with the device in a connection if its UAs were lost.      *)
LinkUp ==
  /\ step = "start"
  /\ \/ step' = "link" /\ linked' = TRUE
     \/ step' = "error" /\ linked' \in BOOLEAN
  /\ UNCHANGED <<sessionVars, said, length, file, build, memory, dumped>>

ConnectMut ==                             \* the file created at once
  /\ step = "link"
  /\ S!Connect /\ step' = "session"
  /\ file' = [version |-> 1, bytes |-> <<>>]
  /\ UNCHANGED <<said, length, linked, build, memory, dumped>>
Connect ==
  /\ step = "link"
  /\ S!Connect /\ step' = "session"
  /\ UNCHANGED <<said, length, file, linked, build, memory, dumped>>

(* transfer; for DATA the recv of the memory follows.  Whatever the        *)
(* handshakes are answered, the identity is only printed.                  *)
Replied(cmd) == CASE cmd = "SIZE" -> {memory.len} [] cmd = "DATA" -> {(memory.len + 4) % Word}
                  [] cmd \in {"HANDSHAKE1", "HANDSHAKE2"} -> {0, 1}  [] OTHER -> {0}
RSP_OK == 1

Transfer ==
  /\ step = "session"
  /\ LET k == Len(requests) + 1 IN
       /\ S!Ask(Size(k), IF CMD[k] = "DATA" THEN length ELSE 0)
       /\ \E v \in Replied(CMD[k]) : said' = Append(said, v)
       /\ dumped' = IF CMD[k] = "DATA" THEN memory ELSE dumped
  /\ UNCHANGED <<step, length, file, linked, build, memory>>

Current == CMD[Len(requests)]
Said    == said[Len(said)]
Reply(cmds) ==
  /\ step = "session" /\ S!Answer
  /\ Current \in cmds
  /\ UNCHANGED <<said, file, build, memory, dumped>>

Handshake ==
  /\ Reply({"HANDSHAKE1", "HANDSHAKE2"})
  /\ step' = IF Said = RSP_OK THEN "session" ELSE "error"
  /\ UNCHANGED <<length, linked>>

Identity ==
  /\ Reply({"MODEL", "HARDWARE", "SOFTWARE", "SERIAL", "DEVTIME"})
  /\ UNCHANGED <<step, length, linked>>

(* No data: nothing is written, and the link is taken down. *)
SizeReply ==
  /\ Reply({"SIZE"})
  /\ length' = Said
  /\ IF Said = 0 THEN step' = "ok" /\ linked' = FALSE
     ELSE UNCHANGED <<step, linked>>

(* "total != length + 4", in 32 bits.                                      *)
Overflows(n) == n + 4 >= Word
MatchesMut(total, n) == TRUE              \* the size not compared
MatchesWideMut(total, n) == total = n + 4 \* the sum in more than 32 bits
Matches(total, n) == total = (n + 4) % Word

DataSize ==
  /\ S!Returned = 0 /\ Reply({"DATA"})
  /\ step' = CASE Overflows(length) /\ build = "debug" -> "panic"
               [] Matches(Said, length) -> "session"
               [] OTHER -> "error"
  /\ UNCHANGED <<length, linked>>

Data ==
  /\ S!Returned = 1 /\ Reply({"DATA"})
  /\ step' = "write"
  /\ UNCHANGED <<length, linked>>

(* fs::write empties the file before it fills it.                          *)
ReceivedMut == [version |-> dumped.version, bytes |-> replies[Len(replies) - 1]]
Received == [version |-> dumped.version, bytes |-> replies[Len(replies)]]
Write ==
  /\ step = "write"
  /\ file' = Received
  /\ step' = "ok" /\ linked' = FALSE
  /\ UNCHANGED <<sessionVars, said, length, build, memory, dumped>>

WriteFails ==
  /\ step = "write"
  /\ \E n \in 0 .. Len(Received.bytes) :
       file' \in {file, [Received EXCEPT !.bytes = SubSeq(@, 1, n)]}
  /\ step' = "error"
  /\ UNCHANGED <<sessionVars, said, length, linked, build, memory, dumped>>

SessionFails ==
  /\ step \in {"link", "session"}
  /\ S!Fail /\ step' = "error"
  /\ UNCHANGED <<said, length, file, linked, build, memory, dumped>>

Killed ==
  /\ step \notin Over
  /\ step' = "killed"
  /\ UNCHANGED <<sessionVars, said, length, file, linked, build, memory, dumped>>

(* The device, external. *)
MemoryChanges ==
  /\ memory.version <= MaxChanges
  /\ \E len \in Lengths : memory' = [version |-> memory.version + 1, len |-> len]
  /\ UNCHANGED <<step, sessionVars, said, length, file, linked, build, dumped>>

Program == LinkUp \/ Connect \/ Transfer \/ Handshake \/ Identity \/ SizeReply
           \/ DataSize \/ Data \/ Write \/ WriteFails \/ SessionFails

DownloadNext == Program \/ Killed \/ MemoryChanges
DownloadSpec == DownloadInit /\ [][DownloadNext]_downloadVars

-----------------------------------------------------------------------------
(* Properties.                                                             *)

(* A run that ends well has saved the whole memory as it was when asked    *)
(* for, however it changed since the size was, or found it empty; and the  *)
(* link is down.                                                           *)
OkMeansSaved ==
  step = "ok" =>
    /\ ~linked
    /\ IF length = 0 THEN file = OldFile
       ELSE file = [version |-> dumped.version,
                    bytes |-> S!Bytes(Len(CMD), 4, 4 + dumped.len)]

(* An earlier dump is harmed only by fs::write, once the whole memory has  *)
(* been received: a session that fails, is refused or killed before leaves *)
(* the file as it was.                                                     *)
OnlyWriteHarms == file # OldFile => Len(replies) = Len(CMD) + 1

(* Once the size of the data is compared, unless by a panic: the download  *)
(* goes on exactly if the memory has, when DATA is asked for, the size it  *)
(* had when SIZE was; a sum that wraps neither hides a change nor makes    *)
(* one up.                                                                 *)
ChangeIsNoticed ==
  Len(replies) = Len(CMD) /\ phase # "failed" /\ step \in {"session", "error"} =>
    (step = "error" <=> dumped.len # length)
=============================================================================
