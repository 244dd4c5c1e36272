------------------------------ MODULE Session ------------------------------
(***************************************************************************)
(* What run_download counts on from Ttp of src/src/smart/mod.rs: connect   *)
(* ends; a transfer, and the recv of the bytes behind it, return what the  *)
(* device sent for that command, whole and in order; or there is an error  *)
(* and the session is over.                                                *)
(***************************************************************************)
EXTENDS Integers, Sequences

CONSTANTS AskSizes, MoreSizes,  \* bytes a transfer asks for, and sends after those
          MaxTransfers          \* bound: transfers of the session

VARIABLES phase,      \* "connecting", "ready", "busy" or "failed"
          requests,   \* [ask, more] of every transfer
          replies     \* what was returned, a byte named <<transfer, position>>

sessionState == <<phase, requests, replies>>

Bytes(k, from, to) == [i \in 1 .. to - from |-> <<k, from + i>>]

(* The replies to transfer k. *)
RepliesOf(k) ==
  LET r == requests[k] IN
    IF r.more > 0 THEN <<Bytes(k, 0, r.ask), Bytes(k, r.ask, r.ask + r.more)>>
                  ELSE <<Bytes(k, 0, r.ask)>>

(* Replies returned to the current transfer so far, while it is busy. *)
Returned ==
  IF replies # <<>> /\ replies[Len(replies)][1][1] = Len(requests) THEN 1 ELSE 0

Init == phase = "connecting" /\ requests = <<>> /\ replies = <<>>

Connect ==
  /\ phase = "connecting"
  /\ phase' = "ready"
  /\ UNCHANGED <<requests, replies>>

Ask(a, m) ==
  /\ phase = "ready" /\ Len(requests) < MaxTransfers
  /\ requests' = Append(requests, [ask |-> a, more |-> m])
  /\ phase' = "busy"
  /\ UNCHANGED replies

Answer ==
  /\ phase = "busy"
  /\ LET due == RepliesOf(Len(requests)) IN
       /\ replies' = Append(replies, due[Returned + 1])
       /\ phase' = IF Returned + 1 = Len(due) THEN "ready" ELSE "busy"
  /\ UNCHANGED requests

Fail ==
  /\ phase # "failed"
  /\ phase' = "failed"
  /\ UNCHANGED <<requests, replies>>

Next == Connect \/ (\E a \in AskSizes, m \in MoreSizes : Ask(a, m)) \/ Answer \/ Fail

(* A call that was made ends. *)
Calls == phase \in {"connecting", "busy"} /\ (Connect \/ Answer \/ Fail)

Spec == Init /\ [][Next]_sessionState /\ WF_sessionState(Calls)
=============================================================================
