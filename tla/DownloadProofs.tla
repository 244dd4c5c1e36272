--------------------------- MODULE DownloadProofs ---------------------------
(***************************************************************************)
(* run_download over any session that implements Session, for every memory *)
(* size and every width of a word: the proofs of OkMeansSaved,             *)
(* OnlyWriteHarms and ChangeIsNoticed of Download.                         *)
(***************************************************************************)
EXTENDS Download, TLAPS

K == Len(requests)
N == Len(replies)
Memory == [version : Nat, len : Lengths]

DownloadTypeOK ==
  /\ length \in 0 .. Word - 1
  /\ memory \in Memory /\ dumped \in Memory
  /\ requests \in Seq([ask : Nat, more : Nat]) /\ K <= 9
  /\ said \in Seq(0 .. Word - 1) /\ Len(said) = K
  /\ replies \in Seq(Seq(Nat \X Nat))

(* Replies belong to requests, and request k is the k-th of run_download.  *)
Owned ==
  /\ \A i \in 1 .. N : replies[i][1][1] \in 1 .. K
  /\ \A k \in 1 .. K : requests[k] = [ask |-> Size(k), more |-> IF k = 9 THEN length ELSE 0]

(* One reply to each request but the last, which may have none or, if it   *)
(* is DATA, one of two.                                                    *)
InStep ==
  /\ step \in {"start", "link"} => K = 0 /\ N = 0
  /\ step = "session" =>
       /\ phase \in {"ready", "busy"}
       /\ phase = "ready" => N = K /\ K <= 8
       /\ phase = "busy" =>
            /\ K >= 1 /\ N \in {K - 1, K} /\ (N = K => K = 9)
            /\ S!Returned = N - K + 1
       /\ K = 9 \/ (K = 8 /\ phase = "ready") => length # 0
  /\ step = "write" => K = 9 /\ N = 10 /\ length # 0

(* What was said of the memory when it was asked for, and what came of it. *)
Dumped ==
  /\ K = 9 => said[9] = (dumped.len + 4) % Word
  /\ step = "session" /\ K = 9 /\ N = 9 => length = dumped.len
  /\ step = "write" => replies[10] = S!Bytes(9, 4, 4 + dumped.len)

Files ==
  /\ step \notin Over => file = OldFile
  /\ OkMeansSaved /\ OnlyWriteHarms /\ ChangeIsNoticed

DownloadInv == DownloadTypeOK /\ Owned /\ InStep /\ Dumped /\ Files
-----------------------------------------------------------------------------
(* The bytes of a reply are those of its request, and never none.          *)
LEMMA BytesType ==
  ASSUME NEW k \in Nat, NEW from \in Nat, NEW to \in Nat, from <= to
  PROVE  /\ S!Bytes(k, from, to) \in Seq(Nat \X Nat)
         /\ from < to => S!Bytes(k, from, to)[1][1] = k
<1>1. to - from \in Nat
  OBVIOUS
<1>2. \A i \in 1 .. to - from : <<k, from + i>> \in Nat \X Nat
  OBVIOUS
<1>3. S!Bytes(k, from, to) \in [1 .. to - from -> Nat \X Nat]
  BY <1>2 DEF S!Bytes
<1>4. S!Bytes(k, from, to) \in Seq(Nat \X Nat)
  BY <1>1, <1>3
<1>5. QED
  BY <1>1, <1>4 DEF S!Bytes

(* The replies of the session to the k-th request.                         *)
LEMMA Due ==
  ASSUME DownloadTypeOK, Owned, NEW k \in 1 .. K
  PROVE  /\ k # 9 \/ length = 0 => S!RepliesOf(k) = <<S!Bytes(k, 0, Size(k))>>
         /\ k = 9 /\ length # 0 =>
              S!RepliesOf(k) = <<S!Bytes(9, 0, 4), S!Bytes(9, 4, 4 + length)>>
<1>1. requests[k] = [ask |-> Size(k), more |-> IF k = 9 THEN length ELSE 0]
  BY DEF Owned
<1>2. requests[k].ask = Size(k) /\ (k = 9 => requests[k].more = length)
      /\ (k # 9 => requests[k].more = 0)
  BY <1>1
<1>3. length \in Nat
  BY DownloadAssumption DEF DownloadTypeOK
<1>4. CASE k # 9 \/ length = 0
  <2>1. ~(requests[k].more > 0)
    BY <1>2, <1>4
  <2>2. QED
    BY <1>2, <1>4, <2>1 DEF S!RepliesOf
<1>5. CASE k = 9 /\ length # 0
  <2>1. requests[k].more > 0 /\ requests[k].more = length
    BY <1>2, <1>3, <1>5
  <2>2. Size(9) = 4
    BY DEF Size, CMD
  <2>3. QED
    BY <1>2, <1>5, <2>1, <2>2 DEF S!RepliesOf
<1>6. QED
  BY <1>4, <1>5

(* Which command the k-th is.                                              *)
LEMMA Commands ==
  /\ Len(CMD) = 9 /\ Size(9) = 4 /\ \A k \in 1 .. 9 : Size(k) \in {1, 4}
  /\ \A k \in 1 .. 9 :
       /\ CMD[k] = "SIZE" <=> k = 8
       /\ CMD[k] = "DATA" <=> k = 9
BY DEF CMD, Size

(* The sizes are compared when the ninth reply has come.                   *)
LEMMA BesideComparison ==
  /\ N # 9 \/ phase = "failed" \/ step \notin {"session", "error"} => ChangeIsNoticed
  /\ N' # 9 \/ phase' = "failed" \/ step' \notin {"session", "error"} => ChangeIsNoticed'
<1>1. Len(CMD) = 9
  BY Commands
<1>2. Len(CMD)' = Len(CMD)
  BY DEF CMD
<1>3. QED
  BY <1>1, <1>2 DEF ChangeIsNoticed, N

(* Four more, in a word: different lengths stay different.                 *)
LEMMA Wrapped ==
  ASSUME NEW a \in 0 .. Word - 1
  PROVE  (a + 4) % Word = IF a + 4 < Word THEN a + 4 ELSE a + 4 - Word
BY DownloadAssumption
LEMMA SameLength ==
  ASSUME NEW a \in 0 .. Word - 1, NEW b \in 0 .. Word - 1,
         (a + 4) % Word = (b + 4) % Word
  PROVE  a = b
BY DownloadAssumption, Wrapped

(* The step of the session behind a reply: it is the one due.              *)
LEMMA Answered ==
  ASSUME DownloadInv, step = "session", S!Answer
  PROVE  \E r \in Seq(Nat \X Nat) :
           /\ K \in 1 .. 9 /\ N \in {K - 1, K} /\ S!Returned = N - K + 1
           /\ replies' = Append(replies, r) /\ requests' = requests
           /\ r[1][1] = K
           /\ K # 9 => phase' = "ready" /\ N = K - 1
           /\ K = 9 /\ N = 8 => phase' = "busy"
           /\ K = 9 /\ N = 9 => r = S!Bytes(9, 4, 4 + length)
<1> USE DEF DownloadInv
<1>1. /\ phase = "busy" /\ requests' = requests
      /\ replies' = Append(replies, S!RepliesOf(K)[S!Returned + 1])
      /\ phase' = IF S!Returned + 1 = Len(S!RepliesOf(K)) THEN "ready" ELSE "busy"
  BY DEF S!Answer, K
<1>2. K \in Nat /\ N \in Nat /\ length \in Nat
  BY DownloadAssumption DEF DownloadTypeOK, K, N
<1>3. /\ K \in 1 .. 9 /\ N \in {K - 1, K} /\ S!Returned = N - K + 1
      /\ K = 9 => length # 0
      /\ K # 9 => N = K - 1
  <2>1. K >= 1 /\ N \in {K - 1, K} /\ (N = K => K = 9) /\ S!Returned = N - K + 1
        /\ (K = 9 => length # 0)
    BY <1>1 DEF InStep
  <2>2. K <= 9
    BY DEF DownloadTypeOK
  <2>3. QED
    BY <1>2, <2>1, <2>2
<1>4. CASE K # 9
  <2> DEFINE r == S!Bytes(K, 0, Size(K))
  <2>1. S!RepliesOf(K) = <<r>>
    BY <1>3, <1>4, Due
  <2>2. r \in Seq(Nat \X Nat) /\ r[1][1] = K
    <3>1. Size(K) \in Nat /\ 0 < Size(K) /\ 0 <= Size(K) /\ 0 \in Nat
      BY <1>3, Commands
    <3>2. QED
      BY <1>2, <3>1, BytesType
  <2>3. S!Returned = 0
    BY <1>2, <1>3, <1>4
  <2>4. replies' = Append(replies, r) /\ phase' = "ready"
    <3> HIDE DEF r
    <3>1. Len(<<r>>) = 1 /\ <<r>>[0 + 1] = r
      OBVIOUS
    <3>2. QED
      BY <1>1, <2>1, <2>3, <3>1
  <2>5. QED
    <3> HIDE DEF r
    <3> USE <2>2
    <3> WITNESS r \in Seq(Nat \X Nat)
    <3> QED
      BY <1>1, <1>3, <1>4, <2>4
<1>5. CASE K = 9
  <2> DEFINE first == S!Bytes(9, 0, 4)
             second == S!Bytes(9, 4, 4 + length)
  <2>1. S!RepliesOf(K) = <<first, second>>
    BY <1>3, <1>5, Due
  <2>2. first \in Seq(Nat \X Nat) /\ first[1][1] = 9
    <3>1. 0 \in Nat /\ 4 \in Nat /\ 9 \in Nat /\ 0 <= 4 /\ 0 < 4
      OBVIOUS
    <3>2. QED
      BY ONLY <3>1, BytesType DEF first
  <2>3. second \in Seq(Nat \X Nat) /\ second[1][1] = 9
    <3>1. 4 <= 4 + length /\ 4 < 4 + length /\ 4 + length \in Nat
      BY <1>2, <1>3, <1>5
    <3>2. QED
      BY <3>1, BytesType
  <2> HIDE DEF first, second
  <2>4. Len(<<first, second>>) = 2 /\ <<first, second>>[1] = first
        /\ <<first, second>>[2] = second
    OBVIOUS
  <2>5. CASE N = 8
    <3>1. S!Returned = 0
      BY <1>2, <1>3, <1>5, <2>5
    <3>2. replies' = Append(replies, first) /\ phase' = "busy"
      BY <1>1, <2>1, <2>4, <3>1
    <3> USE <2>2
    <3> WITNESS first \in Seq(Nat \X Nat)
    <3> QED
      BY <1>1, <1>3, <1>5, <2>5, <3>2
  <2>6. CASE N = 9
    <3>1. S!Returned = 1
      BY <1>2, <1>3, <1>5, <2>6
    <3>2. replies' = Append(replies, second)
      BY <1>1, <2>1, <2>4, <3>1
    <3> USE <2>3
    <3> WITNESS second \in Seq(Nat \X Nat)
    <3> QED
      BY <1>1, <1>3, <1>5, <2>6, <3>2 DEF second
  <2>7. QED
    BY <1>2, <1>3, <1>5, <2>5, <2>6
<1>6. QED
  BY <1>4, <1>5

-----------------------------------------------------------------------------
LEMMA DownloadInitInv == DownloadInit => DownloadInv
<1> SUFFICES ASSUME DownloadInit PROVE DownloadInv
  OBVIOUS
<1>1. step = "start" /\ requests = <<>> /\ replies = <<>> /\ said = <<>> /\ length = 0
      /\ file = OldFile /\ memory \in Memory /\ dumped = memory
  BY DEF DownloadInit, S!Init, Memory
<1>2. K = 0 /\ N = 0
  BY <1>1 DEF K, N
<1>3. DownloadTypeOK
  BY <1>1, <1>2, DownloadAssumption DEF DownloadTypeOK
<1>4. Owned /\ InStep /\ Dumped
  BY <1>1, <1>2 DEF Owned, InStep, Dumped
<1>5. Files
  BY <1>1, <1>2, BesideComparison DEF Files, Over, OkMeansSaved, OnlyWriteHarms
<1>6. QED
  BY <1>3, <1>4, <1>5 DEF DownloadInv

(* A reply is received: what holds of the session after it.                *)
LEMMA ReplyKeeps ==
  ASSUME DownloadInv, step = "session", S!Answer, length' \in 0 .. Word - 1,
         UNCHANGED <<said, file, build, memory, dumped>>,
         K = 9 => length' = length
  PROVE  /\ DownloadTypeOK' /\ Owned' /\ S!Returned' = 1
         /\ K' = K /\ N' = N + 1 /\ K \in 1 .. 9 /\ N \in {K - 1, K}
         /\ S!Returned = N - K + 1
         /\ K # 9 => phase' = "ready" /\ N' = K
         /\ K = 9 /\ N = 8 => phase' = "busy"
         /\ K = 9 /\ N = 9 => replies'[10] = S!Bytes(9, 4, 4 + length)
<1>1. PICK r \in Seq(Nat \X Nat) :
        /\ K \in 1 .. 9 /\ N \in {K - 1, K} /\ S!Returned = N - K + 1
        /\ replies' = Append(replies, r) /\ requests' = requests
        /\ r[1][1] = K
        /\ K # 9 => phase' = "ready" /\ N = K - 1
        /\ K = 9 /\ N = 8 => phase' = "busy"
        /\ K = 9 /\ N = 9 => r = S!Bytes(9, 4, 4 + length)
  BY Answered
<1>2. N \in Nat /\ replies \in Seq(Seq(Nat \X Nat)) /\ DownloadTypeOK /\ Owned
  BY DEF DownloadInv, DownloadTypeOK, N
<1>3. /\ K' = K /\ N' = N + 1 /\ replies' \in Seq(Seq(Nat \X Nat))
      /\ replies'[N + 1] = r /\ \A i \in 1 .. N : replies'[i] = replies[i]
  BY <1>1, <1>2 DEF K, N
<1>4. DownloadTypeOK'
  <2>1. requests' = requests
    BY <1>1
  <2>2. QED
    BY <1>2, <1>3, <2>1 DEF DownloadTypeOK, Memory
<1>5. Owned'
  <2>1. \A i \in 1 .. N + 1 : replies'[i][1][1] \in 1 .. K
    <3>1. \A i \in 1 .. N : replies'[i][1][1] \in 1 .. K
      BY <1>2, <1>3 DEF Owned
    <3>2. replies'[N + 1][1][1] \in 1 .. K
      <4>1. r[1][1] = K /\ K \in 1 .. 9
        BY <1>1
      <4>2. K \in 1 .. K
        BY ONLY <4>1
      <4>3. replies'[N + 1] = r
        BY <1>3
      <4>4. QED
        BY ONLY <4>1, <4>2, <4>3
    <3>3. \A i \in 1 .. N + 1 : i \in 1 .. N \/ i = N + 1
      BY <1>2
    <3>4. QED
      BY ONLY <3>1, <3>2, <3>3
  <2>2. \A k \in 1 .. K : requests[k] = [ask |-> Size(k), more |-> IF k = 9 THEN length' ELSE 0]
    <3>1. \A k \in 1 .. K : k = 9 => length' = length
      <4>1. K \in 1 .. 9
        BY <1>1
      <4>2. \A k \in 1 .. K : k = 9 => K = 9
        BY ONLY <4>1
      <4>3. QED
        BY <4>2
    <3>2. \A k \in 1 .. K :
            requests[k] = [ask |-> Size(k), more |-> IF k = 9 THEN length ELSE 0]
      BY <1>2 DEF Owned
    <3>3. ASSUME NEW k \in 1 .. K
          PROVE  requests[k] = [ask |-> Size(k), more |-> IF k = 9 THEN length' ELSE 0]
      <4>1. k = 9 => length' = length
        BY <3>1
      <4>2. requests[k] = [ask |-> Size(k), more |-> IF k = 9 THEN length ELSE 0]
        BY <3>2
      <4>3. QED
        BY ONLY <4>1, <4>2
    <3>4. QED
      BY ONLY <3>3
  <2>3. requests' = requests
    BY <1>1
  <2>4. QED
    BY <1>3, <2>1, <2>2, <2>3 DEF Owned, Size
<1>6. S!Returned' = 1
  <2>1. replies'[Len(replies')][1][1] = K /\ Len(requests') = K /\ replies' # <<>>
    <3>1. Len(replies') = N + 1 /\ Len(requests') = K
      BY <1>3 DEF N, K
    <3>2. replies' # <<>>
      BY <1>2, <3>1
    <3>3. QED
      BY <1>1, <1>3, <3>1, <3>2
  <2>2. QED
    BY <2>1 DEF S!Returned
<1>7. K = 9 /\ N = 9 => replies'[10] = S!Bytes(9, 4, 4 + length)
  <2>1. N = 9 => N + 1 = 10
    OBVIOUS
  <2>2. N = 9 => replies'[10] = r
    BY ONLY <1>3, <2>1
  <2>3. QED
    BY ONLY <1>1, <2>2
<1>8. K # 9 => phase' = "ready" /\ N' = K
  BY <1>1, <1>3
<1>9. K' = K /\ N' = N + 1
  BY <1>3
<1>10. /\ K \in 1 .. 9 /\ N \in {K - 1, K} /\ S!Returned = N - K + 1
       /\ K = 9 /\ N = 8 => phase' = "busy"
  BY <1>1
<1>11. QED
  BY ONLY <1>4, <1>5, <1>6, <1>7, <1>8, <1>9, <1>10

(* The session stands still, or only its phase changes.                    *)
LEMMA Kept ==
  ASSUME DownloadInv, memory' \in Memory,
         UNCHANGED <<requests, replies, said, length, dumped>>
  PROVE  DownloadTypeOK' /\ Owned' /\ K' = K /\ N' = N /\ S!Returned' = S!Returned
<1>1. requests' = requests /\ replies' = replies /\ said' = said /\ length' = length
      /\ dumped' = dumped
  OBVIOUS
<1>2. K' = K /\ N' = N
  BY <1>1 DEF K, N
<1>3. DownloadTypeOK'
  BY <1>1, <1>2 DEF DownloadInv, DownloadTypeOK, Memory
<1>4. Owned'
  BY <1>1, <1>2 DEF DownloadInv, Owned, Size
<1>5. S!Returned' = S!Returned
  BY <1>1 DEF S!Returned
<1>6. QED
  BY <1>2, <1>3, <1>4, <1>5

(* A command is sent: the device has not answered it yet.                  *)
LEMMA TransferKeeps ==
  ASSUME DownloadInv, Transfer
  PROVE  DownloadInv'
<1> DEFINE k == K + 1
           rq == [ask |-> Size(k), more |-> IF CMD[k] = "DATA" THEN length ELSE 0]
<1>1. /\ step = "session" /\ phase = "ready" /\ phase' = "busy" /\ step' = step
      /\ requests' = Append(requests, rq) /\ replies' = replies
      /\ length' = length /\ file' = file /\ linked' = linked /\ memory' = memory
      /\ build' = build
      /\ dumped' = IF CMD[k] = "DATA" THEN memory ELSE dumped
  BY DEF Transfer, S!Ask, K
<1>2. PICK v \in Replied(CMD[k]) : said' = Append(said, v)
  BY DEF Transfer, K
<1>3. K \in Nat /\ N \in Nat /\ length \in 0 .. Word - 1 /\ length \in Nat
      /\ memory \in Memory /\ dumped \in Memory
      /\ requests \in Seq([ask : Nat, more : Nat])
      /\ said \in Seq(0 .. Word - 1) /\ Len(said) = K
      /\ replies \in Seq(Seq(Nat \X Nat))
  BY DownloadAssumption DEF DownloadInv, DownloadTypeOK, K, N
<1>4. N = K /\ K <= 8 /\ (K = 8 => length # 0) /\ k \in 1 .. 9
  BY <1>1, <1>3 DEF DownloadInv, InStep
<1>5. (CMD[k] = "DATA" <=> k = 9) /\ Size(k) \in Nat
  BY <1>4, Commands
<1>6. K' = k /\ N' = N
  BY <1>1, <1>3 DEF K, N
<1>7. v \in 0 .. Word - 1 /\ (k = 9 => v = (memory.len + 4) % Word)
  <2>1. memory.len \in 0 .. Word - 1
    BY <1>3, DownloadAssumption DEF Memory
  <2>2. (memory.len + 4) % Word \in 0 .. Word - 1
    BY <2>1, Wrapped, DownloadAssumption
  <2>3. 0 \in 0 .. Word - 1 /\ 1 \in 0 .. Word - 1
    BY DownloadAssumption
  <2>4. k = 9 => CMD[k] = "DATA"
    BY <1>5
  <2>5. QED
    BY <1>2, <2>1, <2>2, <2>3, <2>4 DEF Replied
<1>8. DownloadTypeOK'
  <2>1. rq \in [ask : Nat, more : Nat]
    BY <1>3, <1>5
  <2>2. requests' \in Seq([ask : Nat, more : Nat])
    BY <1>1, <1>3, <2>1
  <2>3. said' \in Seq(0 .. Word - 1) /\ Len(said') = k
    BY <1>2, <1>3, <1>7
  <2>4. memory' \in Memory /\ dumped' \in Memory
    BY <1>1, <1>3
  <2>5. QED
    BY <1>1, <1>3, <1>4, <1>6, <2>2, <2>3, <2>4 DEF DownloadTypeOK, Memory
<1>9. Owned'
  <2>1. \A i \in 1 .. N : replies[i][1][1] \in 1 .. K
    BY DEF DownloadInv, Owned
  <2>2. \A i \in 1 .. N : replies[i][1][1] \in 1 .. k
    <3>1. K \in Nat
      BY <1>3
    <3>2. \A j \in 1 .. K : j \in 1 .. k
      BY ONLY <3>1
    <3>3. QED
      BY ONLY <2>1, <3>2
  <2>3. \A j \in 1 .. K :
          requests'[j] = [ask |-> Size(j), more |-> IF j = 9 THEN length ELSE 0]
    BY <1>1, <1>3 DEF DownloadInv, Owned, K
  <2>4. requests'[k] = [ask |-> Size(k), more |-> IF k = 9 THEN length ELSE 0]
    BY <1>1, <1>3, <1>5 DEF K
  <2>5. \A j \in 1 .. k : j \in 1 .. K \/ j = k
    BY <1>3
  <2>6. \A j \in 1 .. k :
          requests'[j] = [ask |-> Size(j), more |-> IF j = 9 THEN length ELSE 0]
    BY ONLY <2>3, <2>4, <2>5
  <2>7. QED
    BY <1>1, <1>6, <2>2, <2>6 DEF Owned, Size
<1>10. S!Returned' = 0
  <2>1. Len(requests') = k /\ Len(replies') = N
    BY <1>6 DEF K, N
  <2>2. replies' # <<>> => N >= 1
    BY <1>1, <1>3 DEF N
  <2>3. N >= 1 => replies'[N][1][1] # k
    <3>1. N >= 1 => replies[N][1][1] \in 1 .. K
      BY <1>3 DEF DownloadInv, Owned
    <3>2. K \in Nat
      BY <1>3
    <3>3. ~(k \in 1 .. K)
      BY ONLY <3>2
    <3>4. N >= 1 => replies[N][1][1] # k
      BY ONLY <3>1, <3>3
    <3>5. QED
      BY <1>1, <3>4
  <2>4. QED
    BY <2>1, <2>2, <2>3 DEF S!Returned
<1>11. InStep'
  BY <1>1, <1>3, <1>4, <1>6, <1>10 DEF InStep
<1>12. Dumped'
  <2>1. k = 9 => said'[9] = (dumped'.len + 4) % Word
    <3>1. said'[k] = v
      BY <1>2, <1>3
    <3>2. QED
      BY <1>1, <1>5, <1>7, <3>1
  <2>2. step' # "write" /\ N' # 9
    BY <1>1, <1>3, <1>4, <1>6
  <2>3. QED
    BY <1>6, <2>1, <2>2 DEF Dumped
<1>13. Files'
  <2>1. N' # 9
    BY <1>3, <1>4, <1>6
  <2>2. QED
    BY <1>1, <2>1, BesideComparison
       DEF DownloadInv, Files, Over, OkMeansSaved, OnlyWriteHarms
<1>14. QED
  BY <1>8, <1>9, <1>11, <1>12, <1>13 DEF DownloadInv

LEMMA Element ==
  ASSUME NEW T, NEW q \in Seq(T), NEW i \in 1 .. Len(q)
  PROVE  q[i] \in T
OBVIOUS

(* A reply is received and run_download looks at it.                       *)
LEMMA RepliesKeep ==
  ASSUME DownloadInv, Handshake \/ Identity \/ SizeReply \/ DataSize \/ Data
  PROVE  DownloadInv'
<1>1. /\ step = "session" /\ S!Answer
      /\ UNCHANGED <<said, file, build, memory, dumped>>
  BY DEF Handshake, Identity, SizeReply, DataSize, Data, Reply
<1>2. /\ DownloadTypeOK /\ K \in Nat /\ N \in Nat /\ length \in 0 .. Word - 1
      /\ said \in Seq(0 .. Word - 1) /\ Len(said) = K
      /\ dumped \in Memory
  BY DEF DownloadInv, DownloadTypeOK, K, N
<1>3. K \in 1 .. 9 /\ (phase = "busy")
  BY <1>1, Answered DEF S!Answer
<1>4. Current = CMD[K] /\ Said = said[K] /\ Said \in 0 .. Word - 1
  <2>1. Current = CMD[K]
    BY DEF Current, K
  <2>2. Said = said[K]
    BY <1>2 DEF Said
  <2>3. said[K] \in 0 .. Word - 1
    <3>1. said \in Seq(0 .. Word - 1) /\ K \in 1 .. Len(said)
      BY <1>2, <1>3
    <3>2. QED
      BY ONLY <3>1, Element
  <2>4. QED
    BY <2>1, <2>2, <2>3
<1>5. \A cmds : Reply(cmds) => CMD[K] \in cmds
  BY <1>4 DEF Reply
<1>6. length' \in 0 .. Word - 1 /\ (K = 9 => length' = length)
  <2>1. CASE SizeReply
    <3>1. CMD[K] = "SIZE" /\ length' = Said
      BY <1>5, <2>1 DEF SizeReply
    <3>2. K = 8
      BY <1>3, <3>1, Commands
    <3>3. QED
      BY <1>4, <3>1, <3>2
  <2>2. CASE ~SizeReply
    BY <1>2, <2>2 DEF Handshake, Identity, DataSize, Data
  <2>3. QED
    BY <2>1, <2>2
<1>7. /\ DownloadTypeOK' /\ Owned' /\ S!Returned' = 1
      /\ K' = K /\ N' = N + 1 /\ N \in {K - 1, K}
      /\ S!Returned = N - K + 1
      /\ K # 9 => phase' = "ready" /\ N' = K
      /\ K = 9 /\ N = 8 => phase' = "busy"
      /\ K = 9 /\ N = 9 => replies'[10] = S!Bytes(9, 4, 4 + length)
  BY <1>1, <1>6, ReplyKeeps
<1>8. K = 9 => length # 0 /\ said[9] = (dumped.len + 4) % Word
  BY <1>1 DEF DownloadInv, InStep, Dumped
<1>9. file = OldFile /\ file' = OldFile /\ length \in Nat
  BY <1>1, <1>2, DownloadAssumption DEF DownloadInv, Files, Over
<1>10. CASE Handshake \/ Identity
  <2>1. K # 8 /\ K # 9
    <3>1. CMD[K] # "SIZE" /\ CMD[K] # "DATA"
      BY <1>5, <1>10 DEF Handshake, Identity
    <3>2. QED
      BY <1>3, <3>1, Commands
  <2>2. step' \in {"session", "error"}
    BY <1>1, <1>10 DEF Handshake, Identity
  <2>3. InStep'
    BY <1>3, <1>7, <2>1, <2>2 DEF InStep
  <2>4. Dumped'
    BY <1>7, <2>1, <2>2 DEF Dumped
  <2>5. Files'
    <3>1. N' # 9
      BY <1>7, <2>1
    <3>2. QED
      BY <1>9, <2>2, <3>1, BesideComparison DEF Files, OkMeansSaved, OnlyWriteHarms
  <2>6. QED
    BY <1>7, <2>3, <2>4, <2>5 DEF DownloadInv
<1>11. CASE SizeReply
  <2>1. K = 8 /\ length' = Said
    <3>1. CMD[K] = "SIZE" /\ length' = Said
      BY <1>5, <1>11 DEF SizeReply
    <3>2. QED
      BY <1>3, <3>1, Commands
  <2>2. \/ step' = "ok" /\ length' = 0 /\ linked' = FALSE
        \/ step' = "session" /\ length' # 0
    <3>1. IF Said = 0 THEN step' = "ok" /\ linked' = FALSE ELSE step' = step
      BY <1>11 DEF SizeReply
    <3>2. QED
      BY <1>1, <2>1, <3>1
  <2>3. InStep'
    BY <1>3, <1>7, <2>1, <2>2 DEF InStep
  <2>4. Dumped'
    BY <1>7, <2>1, <2>2 DEF Dumped
  <2>5. Files'
    <3>1. N' # 9
      BY <1>7, <2>1
    <3>2. QED
      BY <1>9, <2>2, <3>1, BesideComparison DEF Files, OkMeansSaved, OnlyWriteHarms
  <2>6. QED
    BY <1>7, <2>3, <2>4, <2>5 DEF DownloadInv
<1>12. CASE DataSize
  <2>1. K = 9 /\ N = 8 /\ length' = length
    <3>1. CMD[K] = "DATA" /\ S!Returned = 0 /\ length' = length
      BY <1>5, <1>12 DEF DataSize
    <3>2. QED
      BY <1>2, <1>3, <1>7, <3>1, Commands
  <2>2. step' \in {"panic", "session", "error"}
        /\ (step' = "session" => Said = (length + 4) % Word)
        /\ (step' = "error" => Said # (length + 4) % Word)
    BY <1>12 DEF DataSize, Matches
  <2>3. /\ step' = "session" => length = dumped.len
        /\ step' = "error" => length # dumped.len
    <3>1. dumped.len \in 0 .. Word - 1
      BY <1>2, DownloadAssumption DEF Memory
    <3>2. Said = (dumped.len + 4) % Word
      BY <1>4, <1>8, <2>1
    <3>3. QED
      BY <1>2, <2>2, <3>1, <3>2, SameLength
  <2>4. InStep'
    BY <1>3, <1>7, <1>8, <2>1, <2>2 DEF InStep
  <2>5. Dumped'
    BY <1>1, <1>7, <1>8, <2>1, <2>2, <2>3 DEF Dumped
  <2>6. Files'
    <3>1. ChangeIsNoticed'
      <4>1. dumped' = dumped
        BY <1>1
      <4>2. QED
        BY <2>1, <2>3, <4>1 DEF ChangeIsNoticed
    <3>2. QED
      BY <1>9, <2>2, <3>1 DEF Files, OkMeansSaved, OnlyWriteHarms
  <2>7. QED
    BY <1>7, <2>4, <2>5, <2>6 DEF DownloadInv
<1>13. CASE Data
  <2>1. K = 9 /\ N = 9 /\ length' = length /\ step' = "write"
    <3>1. CMD[K] = "DATA" /\ S!Returned = 1 /\ length' = length /\ step' = "write"
      BY <1>5, <1>13 DEF Data
    <3>2. QED
      BY <1>2, <1>3, <1>7, <3>1, Commands
  <2>2. length = dumped.len
    BY <1>1, <2>1 DEF DownloadInv, Dumped
  <2>3. InStep'
    BY <1>7, <1>8, <2>1 DEF InStep
  <2>4. Dumped'
    BY <1>1, <1>7, <1>8, <2>1, <2>2 DEF Dumped
  <2>5. Files'
    BY <1>9, <2>1, BesideComparison DEF Files, OkMeansSaved, OnlyWriteHarms
  <2>6. QED
    BY <1>7, <2>3, <2>4, <2>5 DEF DownloadInv
<1>14. QED
  BY <1>10, <1>11, <1>12, <1>13

(* Every other step.                                                       *)
LEMMA OthersKeep ==
  ASSUME DownloadInv,
         \/ LinkUp \/ Connect \/ Write \/ WriteFails \/ SessionFails
         \/ Killed \/ MemoryChanges \/ UNCHANGED downloadVars
  PROVE  DownloadInv'
<1>1. /\ memory' \in Memory
      /\ requests' = requests /\ replies' = replies /\ said' = said /\ length' = length
      /\ dumped' = dumped
  <2>1. memory \in Memory
    BY DEF DownloadInv, DownloadTypeOK
  <2>2. CASE MemoryChanges
    <3>1. memory.version + 1 \in Nat
      BY <2>1 DEF Memory
    <3>2. QED
      BY <2>2, <3>1 DEF MemoryChanges, sessionVars, Memory
  <2>3. CASE Connect \/ SessionFails
    BY <2>1, <2>3 DEF Connect, SessionFails, S!Connect, S!Fail
  <2>4. CASE LinkUp \/ Write \/ WriteFails \/ Killed \/ UNCHANGED downloadVars
    BY <2>1, <2>4 DEF LinkUp, Write, WriteFails, Killed, sessionVars, downloadVars
  <2>5. QED
    BY <2>2, <2>3, <2>4
<1>2. DownloadTypeOK' /\ Owned' /\ K' = K /\ N' = N /\ S!Returned' = S!Returned
  BY <1>1, Kept
<1>3. K \in Nat /\ N \in Nat
  BY DEF DownloadInv, DownloadTypeOK, K, N
<1>4. InStep /\ Dumped /\ Files
  BY DEF DownloadInv
<1>5. CASE LinkUp
  <2>1. step = "start" /\ step' \in {"link", "error"} /\ phase' = phase /\ file' = file
    BY <1>5 DEF LinkUp, sessionVars
  <2>2. InStep' /\ Dumped'
    BY <1>1, <1>2, <1>4, <2>1 DEF InStep, Dumped
  <2>3. Files'
    <3>1. N' # 9
      BY <1>2, <1>4, <2>1 DEF InStep
    <3>2. QED
      BY <1>4, <2>1, <3>1, BesideComparison DEF Files, Over, OkMeansSaved, OnlyWriteHarms
  <2>4. QED
    BY <1>2, <2>2, <2>3 DEF DownloadInv
<1>6. CASE Connect
  <2>1. step = "link" /\ step' = "session" /\ phase' = "ready" /\ file' = file
    BY <1>6 DEF Connect, S!Connect
  <2>2. InStep' /\ Dumped'
    BY <1>1, <1>2, <1>4, <2>1 DEF InStep, Dumped
  <2>3. Files'
    <3>1. N' # 9
      BY <1>2, <1>4, <2>1 DEF InStep
    <3>2. QED
      BY <1>4, <2>1, <3>1, BesideComparison DEF Files, Over, OkMeansSaved, OnlyWriteHarms
  <2>4. QED
    BY <1>2, <2>2, <2>3 DEF DownloadInv
<1>7. CASE SessionFails \/ Killed
  <2>1. step' \in {"error", "killed"} /\ file' = file /\ step \notin Over
    BY <1>7 DEF SessionFails, Killed, Over
  <2>2. phase' = "failed" \/ step' = "killed"
    BY <1>7 DEF SessionFails, S!Fail, Killed
  <2>3. InStep' /\ Dumped'
    BY <1>1, <1>2, <1>4, <2>1 DEF InStep, Dumped
  <2>4. Files'
    BY <1>4, <2>1, <2>2, BesideComparison DEF Files, OkMeansSaved, OnlyWriteHarms
  <2>5. QED
    BY <1>2, <2>3, <2>4 DEF DownloadInv
<1>8. CASE Write \/ WriteFails
  <2>1. step = "write" /\ step' \in {"ok", "error"} /\ N = 10 /\ length # 0
    BY <1>4, <1>8 DEF Write, WriteFails, InStep
  <2>2. InStep' /\ Dumped'
    BY <1>1, <1>2, <1>4, <2>1 DEF InStep, Dumped
  <2>3. step' = "ok" => linked' = FALSE /\ file' = Received
    BY <1>8 DEF Write, WriteFails
  <2>4. Received = [version |-> dumped.version, bytes |-> S!Bytes(9, 4, 4 + dumped.len)]
    <3>1. Len(replies) = 10 /\ replies[10] = S!Bytes(9, 4, 4 + dumped.len)
      BY <1>4, <2>1 DEF Dumped, N
    <3>2. QED
      BY <3>1 DEF Received
  <2>5. OkMeansSaved'
    BY <1>1, <2>1, <2>3, <2>4, Commands DEF OkMeansSaved, S!Bytes
  <2>6. OnlyWriteHarms' /\ ChangeIsNoticed'
    <3>1. Len(replies') = 10 /\ Len(CMD) + 1 = 10
      BY <1>2, <2>1, Commands DEF N
    <3>2. N' # 9
      BY <1>2, <2>1
    <3>3. QED
      BY <2>1, <3>1, <3>2, BesideComparison DEF OnlyWriteHarms
  <2>7. Files'
    BY <2>1, <2>5, <2>6 DEF Files, Over
  <2>8. QED
    BY <1>2, <2>2, <2>7 DEF DownloadInv
<1>9. CASE MemoryChanges \/ UNCHANGED downloadVars
  <2>1. step' = step /\ phase' = phase /\ file' = file /\ linked' = linked
    BY <1>9 DEF MemoryChanges, sessionVars, downloadVars
  <2>2. InStep' /\ Dumped'
    BY <1>1, <1>2, <1>4, <2>1 DEF InStep, Dumped
  <2>3. Files'
    BY <1>1, <1>4, <2>1
       DEF Files, Over, OkMeansSaved, OnlyWriteHarms, ChangeIsNoticed, S!Bytes
  <2>4. QED
    BY <1>2, <2>2, <2>3 DEF DownloadInv
<1>10. QED
  BY <1>5, <1>6, <1>7, <1>8, <1>9
-----------------------------------------------------------------------------
(* The invariant of run_download.                                          *)
THEOREM DownloadInvariant == DownloadSpec => []DownloadInv
<1>1. DownloadInv /\ [DownloadNext]_downloadVars => DownloadInv'
  BY TransferKeeps, RepliesKeep, OthersKeep DEF DownloadNext, Program
<1>2. QED
  BY DownloadInitInv, <1>1, PTL DEF DownloadSpec

(* A run that ends well has saved the memory it asked for, whatever the    *)
(* size of the memory, whenever it changed, and with 32-bit sums.          *)
THEOREM DownloadOkMeansSaved == DownloadSpec => []OkMeansSaved
<1>1. DownloadInv => OkMeansSaved
  BY DEF DownloadInv, Files
<1>2. QED
  BY DownloadInvariant, <1>1, PTL

(* Only fs::write, after the whole memory was received, touches the file.  *)
THEOREM DownloadOnlyWriteHarms == DownloadSpec => []OnlyWriteHarms
<1>1. DownloadInv => OnlyWriteHarms
  BY DEF DownloadInv, Files
<1>2. QED
  BY DownloadInvariant, <1>1, PTL

(* The comparison of the sizes stops the download exactly if the size of   *)
(* the memory is no longer what SIZE said, for words of any width.         *)
THEOREM DownloadChangeIsNoticed == DownloadSpec => []ChangeIsNoticed
<1>1. DownloadInv => ChangeIsNoticed
  BY DEF DownloadInv, Files
<1>2. QED
  BY DownloadInvariant, <1>1, PTL
=============================================================================
