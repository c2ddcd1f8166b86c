--------------------------- MODULE DownloadProofs ---------------------------
(* The answer to a header names the bytes it asks for: for files of every   *)
(* size, headers with any numbers, and every buffer, window and fault of    *)
(* Download.                                                                *)
EXTENDS Download, TLAPS

\* ParseRange accepts exactly the headers that name a byte of the file.
LEMMA ParseRangeRefuses ==
  ASSUME NEW q, RequestOK(q), q.kind # "read"
  PROVE  Satisfiable(q) <=> Named(q) # {}
<1> USE DownloadAssumption DEF Satisfiable, Named, Bytes, Open
<1>1. CASE q.kind = "none"
  <2>1. 0 \in Bytes  OBVIOUS
  <2> QED  BY <1>1, <2>1
<1>2. CASE q.kind = "bad"  BY <1>2
<1>3. CASE q.kind = "suffix"
  <2>1. q.last \in Nat  BY <1>3 DEF RequestOK
  <2>2. ASSUME q.last > 0  PROVE Size - 1 \in Named(q)  BY <1>3, <2>1, <2>2
  <2>3. ASSUME q.last = 0  PROVE Named(q) = {}  BY <1>3, <2>3
  <2> QED  BY <1>3, <2>1, <2>2, <2>3
<1>4. CASE q.kind = "range"
  <2>1. q.first \in Nat /\ (q.last = Open \/ q.last \in Nat)
    BY <1>4 DEF RequestOK
  <2>2. ASSUME Satisfiable(q)  PROVE q.first \in Named(q)
    BY <1>4, <2>1, <2>2
  <2>3. ASSUME NEW o \in Named(q)  PROVE Satisfiable(q)
    BY <1>4, <2>1, <2>3
  <2> QED  BY <2>2, <2>3
<1> QED  BY <1>1, <1>2, <1>3, <1>4 DEF RequestOK

\* Of those it takes the first and the last byte.
LEMMA ParseRangeNames ==
  ASSUME NEW q, RequestOK(q), q.kind # "read", Satisfiable(q)
  PROVE  ParsedStart(q) .. ParsedEnd(q) = Named(q)
<1> USE DownloadAssumption DEF Satisfiable, Named, Bytes, Open,
        ParsedStart, ParsedEnd, LastByte, Smaller
<1>1. CASE q.kind = "none"  BY <1>1
<1>2. CASE q.kind = "bad"   BY <1>2
<1>3. CASE q.kind = "suffix"
  <2>1. q.last \in Nat  BY <1>3 DEF RequestOK
  <2> QED  BY <1>3, <2>1
<1>4. CASE q.kind = "range"
  <2>1. q.first \in Nat /\ (q.last = Open \/ q.last \in Nat)
    BY <1>4 DEF RequestOK
  <2>2. CASE q.last = Open  BY <1>4, <2>1, <2>2
  <2>3. CASE q.last \in Nat  BY <1>4, <2>1, <2>3
  <2> QED  BY <2>1, <2>2, <2>3
<1> QED  BY <1>1, <1>2, <1>3, <1>4 DEF RequestOK

LEMMA ParsedNumbers ==
  ASSUME NEW q, RequestOK(q), q.kind # "read", Satisfiable(q)
  PROVE  ParsedStart(q) \in Int /\ ParsedEnd(q) \in Int
<1> USE DownloadAssumption DEF ParsedStart, ParsedEnd, LastByte, Smaller, Open
<1>1. CASE q.kind = "none"  BY <1>1
<1>2. CASE q.kind = "bad"   BY <1>2 DEF Satisfiable
<1>3. CASE q.kind = "suffix"
  <2>1. q.last \in Nat  BY <1>3 DEF RequestOK
  <2> QED  BY <1>3, <2>1
<1>4. CASE q.kind = "range"
  <2>1. q.first \in Nat /\ (q.last = Open \/ q.last \in Nat)
    BY <1>4 DEF RequestOK
  <2> QED  BY <1>4, <2>1
<1> QED  BY <1>1, <1>2, <1>3, <1>4 DEF RequestOK

\* RangeIsNamed is not inductive: that the handler has answered nothing before
\* it parses, and that a reader gets no HTTP answer, has to be carried along.
Unanswered ==
  /\ gate \in {"verify", "file", "parse"} => status = 0 /\ request.kind # "read"
  /\ gate = "read" => status = 0 /\ request.kind = "read"

IInv == request \in Requests /\ Unanswered /\ RangeIsNamed

LEMMA InitIInv == Init => IInv
  BY DEF Init, IInv, Unanswered, RangeIsNamed, Answered

LEMMA ParseKeepsIInv == IInv /\ ParseRange => IInv'
<1> SUFFICES ASSUME IInv, ParseRange  PROVE IInv'
  OBVIOUS
<1>1. /\ RequestOK(request) /\ request.kind # "read" /\ status = 0
      /\ request' = request
  BY DownloadAssumption DEF IInv, Unanswered, ParseRange
<1>2. CASE Satisfiable(request)
  <2>1. Named(request) # {}  BY <1>1, <1>2, ParseRangeRefuses
  <2>2. ParsedStart(request) .. ParsedEnd(request) = Named(request)
    BY <1>1, <1>2, ParseRangeNames
  <2>3. start' .. end' = Named(request)'
    BY <1>1, <1>2, <2>2 DEF ParseRange, Named
  <2>4. Named(request)' # {}  BY <1>1, <2>1 DEF Named
  <2> QED
    BY <1>1, <1>2, <2>3, <2>4
       DEF IInv, Unanswered, RangeIsNamed, Answered, ParseRange, Respond
<1>3. CASE ~Satisfiable(request)
  <2>1. Named(request)' = {}
    BY <1>1, <1>3, ParseRangeRefuses DEF Named
  <2> QED
    BY <1>1, <1>3, <2>1
       DEF IInv, Unanswered, RangeIsNamed, Answered, ParseRange, Respond
<1> QED  BY <1>2, <1>3

\* The steps that announce nothing: they refuse or go on before an answer, or
\* leave the answer as it is.
LEMMA RefusalKeepsIInv ==
  ASSUME IInv, status = 0, request' = request,
         status' = 0 \/ (gate' = "ended" /\ status' \in {401, 404}),
         gate' \in {"file", "parse", "recv", "ended"},
         request.kind # "read" \/ gate' \in {"recv", "ended"}
  PROVE  IInv'
  BY DEF IInv, Unanswered, RangeIsNamed, Answered

LEMMA ReceivingKeepsIInv ==
  ASSUME IInv, gate' \in {gate, "recv", "ended"},
         UNCHANGED <<request, status, start, end>>
  PROVE  IInv'
<1>1. Named(request)' = Named(request)  BY DEF Named
<1> QED  BY <1>1 DEF IInv, Unanswered, RangeIsNamed, Answered

LEMMA NextKeepsIInv == IInv /\ [Next]_vars => IInv'
<1> SUFFICES ASSUME IInv, [Next]_vars  PROVE IInv'
  OBVIOUS
<1> USE DEF gateVars
<1>1. CASE Verify
  <2>1. status = 0 /\ request.kind # "read"
    BY <1>1 DEF Verify, IInv, Unanswered
  <2>2. /\ request' = request
        /\ gate' \in {"file", "parse", "ended"}
        /\ status' = 0 \/ (gate' = "ended" /\ status' \in {401, 404})
    BY <1>1, <2>1 DEF Verify, Respond
  <2> QED  BY <2>1, <2>2, RefusalKeepsIInv
<1>2. CASE GetFile
  <2>1. status = 0 /\ request.kind # "read"
    BY <1>2 DEF GetFile, IInv, Unanswered
  <2>2. /\ request' = request
        /\ gate' \in {"file", "parse", "ended"}
        /\ status' = 0 \/ (gate' = "ended" /\ status' \in {401, 404})
    BY <1>2, <2>1 DEF GetFile, Respond
  <2> QED  BY <2>1, <2>2, RefusalKeepsIInv
<1>3. CASE ParseRange  BY <1>3, ParseKeepsIInv
<1>4. CASE ReadRange
  <2>1. status = 0  BY <1>4 DEF ReadRange, IInv, Unanswered
  <2>2. request' = request /\ gate' = "recv" /\ status' = 0
    BY <1>4, <2>1 DEF ReadRange
  <2> QED  BY <2>1, <2>2, RefusalKeepsIInv
<1>5. CASE RecvChunk   BY <1>5, ReceivingKeepsIInv DEF RecvChunk
<1>6. CASE RecvEnd     BY <1>6, ReceivingKeepsIInv DEF RecvEnd
<1>7. CASE Handler
  BY <1>7, ReceivingKeepsIInv
     DEF Handler, Resolve, ReadChunk, Send, ReadEOF, ReadFails
<1>8. CASE BrowserLeaves    BY <1>8, ReceivingKeepsIInv DEF BrowserLeaves
<1>9. CASE GatewayDies      BY <1>9, ReceivingKeepsIInv DEF GatewayDies
<1>10. CASE UNCHANGED vars  BY <1>10, ReceivingKeepsIInv DEF vars
<1> QED
  BY <1>1, <1>2, <1>3, <1>4, <1>5, <1>6, <1>7, <1>8, <1>9, <1>10
     DEF Next, Gateway

\* ParseRange and Download of the gateway: what is announced to the browser is
\* the bytes its header names, and only a header that names none is refused.
THEOREM RangeIsNamedAlways == Spec => []RangeIsNamed
<1>1. IInv => RangeIsNamed  BY DEF IInv
<1> QED  BY <1>1, InitIInv, NextKeepsIInv, PTL DEF Spec

-----------------------------------------------------------------------------
(* What reaches the reader.                                                *)

\* The place in the object that follows the bytes of a chunk.
After(s) == s[1] + Len(s)

\* A chunk of the range: bytes of it in order.
Run(s) ==
  /\ s \in Seq(Int) /\ Len(s) > 0
  /\ \A j \in 1 .. Len(s) : s[j] = s[1] + j - 1
  /\ start <= s[1] /\ After(s) <= LastRead + 1

\* The place of the byte that is to go on the stream next.
Pending == IF handler = "send" THEN chunk[1] ELSE next

\* What storage_srv reads from the first byte on is what was asked for.
RangeKnown ==
  /\ start \in Nat /\ end \in Nat /\ start <= end
  /\ start .. LastRead = Named(request)

\* Nothing moves before storage_srv has been called.
Called ==
  /\ handler \in {"idle", "resolve"} => body = <<>> /\ wire = <<>> /\ outcome = "none"
  /\ handler = "idle" \/ RangeKnown
  /\ gate \notin {"recv", "ended"} => handler = "idle"

\* Each chunk on the stream begins where the one before it ended, the first of
\* them where the body ends, and the handler's next byte follows the last.
Linked ==
  /\ \A i \in 1 .. Len(wire) : Run(wire[i])
  /\ \A i \in 1 .. Len(wire) - 1 : wire[i + 1][1] = After(wire[i])
  /\ browser = "there" /\ wire # <<>> => wire[1][1] = start + Len(body)
  /\ handler \in {"read", "send"} \/ outcome = "ok" =>
       /\ wire # <<>> => Pending = After(wire[Len(wire)])
       /\ wire = <<>> /\ browser = "there" => Pending = start + Len(body)

\* The handler's own chunk, and its place in the object.
Reading ==
  /\ handler \in {"read", "send"} \/ outcome = "ok" => next \in Int
  /\ handler = "read" => next >= start
  /\ handler = "send" => Run(chunk) /\ After(chunk) = next
  /\ outcome # "none" => handler = "ended"
  /\ outcome = "ok" => next > LastRead

Received ==
  /\ body \in Seq(Int)
  /\ \A i \in 1 .. Len(body) : body[i] = start + i - 1
  /\ body # <<>> => start + Len(body) <= LastRead + 1
  /\ gate = "ended" /\ ~broken => handler = "idle" \/ wire = <<>>
  /\ gate = "ended" /\ ~broken /\ handler # "idle" => outcome # "none"

BInv == wire \in Seq(Seq(Int)) /\ Called /\ Linked /\ Reading /\ Received

LEMMA InitBInv == Init => BInv
  BY DEF Init, BInv, Called, Linked, Reading, Received

\* Bytes are asked for only in the file's bounds, so LastRead cuts nothing that
\* a header names; and for a reader it cuts what is not in the file.
LEMMA ParseKeepsBInv == IInv /\ BInv /\ ParseRange => BInv'
<1> SUFFICES ASSUME IInv, BInv, ParseRange  PROVE BInv'
  OBVIOUS
<1>1. handler = "idle" /\ body = <<>> /\ wire = <<>> /\ outcome = "none"
  BY DEF ParseRange, BInv, Called
<1>2. /\ body' = <<>> /\ wire' = <<>> /\ outcome' = "none"
      /\ handler' \in {"idle", "resolve"} /\ gate' \in {"recv", "ended"}
      /\ handler' = "resolve" => Satisfiable(request) /\ gate' = "recv"
  BY <1>1 DEF ParseRange, Respond, clientVars
<1>3. ASSUME Satisfiable(request)  PROVE RangeKnown'
  <2>1. RequestOK(request) /\ request.kind # "read"
    BY DownloadAssumption DEF IInv, Unanswered, ParseRange
  <2>2. /\ ParsedStart(request) .. ParsedEnd(request) = Named(request)
        /\ Named(request) # {}
    BY <1>3, <2>1, ParseRangeNames, ParseRangeRefuses
  <2>3. /\ start' = ParsedStart(request) /\ end' = ParsedEnd(request)
        /\ request' = request
    BY <1>3 DEF ParseRange
  <2>4. ParsedStart(request) \in Int /\ ParsedEnd(request) \in Int
    BY <1>3, <2>1, ParsedNumbers
  <2>5. Named(request) \subseteq Bytes
    BY <2>1 DEF RequestOK, Named
  <2>6. start' <= end' /\ start' \in Bytes /\ end' \in Bytes
    BY <2>2, <2>3, <2>4, <2>5
  <2>7. LastRead' = end'
    BY <2>6, DownloadAssumption DEF LastRead, Ranged, Smaller, Bytes
  <2>8. Named(request)' = Named(request)
    BY <2>3 DEF Named
  <2> QED BY <2>2, <2>3, <2>6, <2>7, <2>8 DEF RangeKnown, Bytes
<1>4. Called'
  BY <1>2, <1>3 DEF Called
<1> QED
  BY <1>2, <1>4 DEF BInv, Linked, Reading, Received

LEMMA ReadRangeKeepsBInv == IInv /\ BInv /\ ReadRange => BInv'
<1> SUFFICES ASSUME IInv, BInv, ReadRange  PROVE BInv'
  OBVIOUS
<1>1. handler = "idle" /\ body = <<>> /\ wire = <<>> /\ outcome = "none"
  BY DEF ReadRange, BInv, Called
<1>2. /\ body' = <<>> /\ wire' = <<>> /\ outcome' = "none"
      /\ handler' = "resolve" /\ gate' = "recv"
  BY <1>1 DEF ReadRange, clientVars
<1>3. RangeKnown'
  <2>1. request.kind = "read" /\ RequestOK(request)
    BY DownloadAssumption DEF IInv, Unanswered, ReadRange
  <2>2. request.first \in Nat /\ request.last \in Nat \ {0}
    BY <2>1 DEF RequestOK
  <2>3. /\ start' = request.first /\ end' = request.first + request.last - 1
        /\ request' = request
    BY DEF ReadRange
  <2>4. start' \in Nat /\ end' \in Nat /\ start' <= end'
    BY <2>2, <2>3
  <2>5. LastRead' = Smaller(end', Size - 1)
    BY <2>4 DEF LastRead, Ranged
  <2>6. Named(request)' = {o \in Bytes : start' <= o /\ o <= end'}
    BY <2>1, <2>2, <2>3 DEF Named, Bytes
  <2>7. start' .. LastRead' = {o \in Bytes : start' <= o /\ o <= end'}
    BY <2>4, <2>5, DownloadAssumption DEF Smaller, Bytes
  <2> QED BY <2>4, <2>6, <2>7 DEF RangeKnown
<1> QED
  BY <1>2, <1>3 DEF BInv, Called, Linked, Reading, Received

\* Steps that leave the range as it is leave what is measured by it.
LEMMA RangeStands ==
  ASSUME UNCHANGED <<request, start, end>>
  PROVE  /\ LastRead' = LastRead /\ FirstRead' = FirstRead
         /\ Named(request)' = Named(request)
         /\ RangeKnown => RangeKnown'
         /\ \A s : Run(s)' <=> Run(s)
<1>1. /\ LastRead' = LastRead /\ FirstRead' = FirstRead
      /\ Named(request)' = Named(request)
  BY DEF LastRead, FirstRead, Ranged, Named
<1>2. RangeKnown => RangeKnown'
  BY <1>1 DEF RangeKnown
<1>3. \A s : Run(s)' <=> Run(s)
  BY <1>1 DEF Run, After
<1> QED BY <1>1, <1>2, <1>3

\* What the handler reads from is a range with a first byte.
LEMMA RangeNumbers ==
  ASSUME RangeKnown
  PROVE  LastRead \in Int /\ start \in Nat /\ FirstRead = start
  BY DownloadAssumption DEF RangeKnown, LastRead, FirstRead, Ranged, Smaller

\* RecvChunk takes the first chunk off the stream and writes it if it can.
LEMMA RecvKeepsBInv == BInv /\ RecvChunk => BInv'
<1> SUFFICES ASSUME BInv, RecvChunk  PROVE BInv'
  OBVIOUS
<1>1. /\ wire # <<>> /\ gate = "recv" /\ gate' = "recv" /\ wire' = Tail(wire)
      /\ body' = IF browser = "there" THEN body \o Head(wire) ELSE body
      /\ UNCHANGED <<request, start, end, browser, broken, handler, chunk, next, outcome>>
  BY DEF RecvChunk, ReadsOn, storageVars
<1> DEFINE s == wire[1]
<1>2. /\ wire \in Seq(Seq(Int)) /\ Len(wire) > 0 /\ Head(wire) = s
      /\ wire' \in Seq(Seq(Int)) /\ Len(wire') = Len(wire) - 1
      /\ \A i \in 1 .. Len(wire') : wire'[i] = wire[i + 1]
  BY <1>1 DEF BInv
<1>3. Run(s) /\ (browser = "there" => s[1] = start + Len(body))
  BY <1>1, <1>2 DEF BInv, Linked
<1>4. handler \notin {"idle", "resolve"} /\ RangeKnown
  BY <1>1 DEF BInv, Called
<1>5. Called'
  BY <1>1, <1>4, RangeStands DEF Called
<1>6. Linked'
  <2>1. (\A i \in 1 .. Len(wire) : Run(wire[i]))'
    <3>1. \A i \in 1 .. Len(wire') : Run(wire[i + 1])
      BY <1>2 DEF BInv, Linked
    <3>2. LastRead' = LastRead /\ start' = start
      BY <1>1, RangeStands
    <3> QED BY <1>2, <3>1, <3>2 DEF Run, After
  <2>2. \A i \in 1 .. Len(wire') - 1 : wire'[i + 1][1] = After(wire'[i])
    <3>1. ASSUME NEW i \in 1 .. Len(wire') - 1
          PROVE  i + 1 \in 1 .. Len(wire) - 1 /\ wire'[i] = wire[i + 1]
                 /\ wire'[i + 1] = wire[(i + 1) + 1]
      <4>1. /\ Len(wire) \in Nat /\ i \in Int /\ 1 <= i /\ i <= Len(wire) - 2
        BY <1>2, <3>1
      <4>2. i \in 1 .. Len(wire') /\ i + 1 \in 1 .. Len(wire')
        BY <1>2, <4>1
      <4>3. i + 1 \in 1 .. Len(wire) - 1
        BY <4>1
      <4> QED BY <1>2, <4>2, <4>3
    <3>2. \A i \in 1 .. Len(wire) - 1 : wire[i + 1][1] = After(wire[i])
      BY DEF BInv, Linked
    <3> QED BY <3>1, <3>2
  <2>3. browser = "there" => body' = body \o s
    BY <1>1, <1>2
  <2>4. browser = "there" => start + Len(body') = After(s)
    <3>1. body \in Seq(Int) /\ s \in Seq(Int) /\ start \in Nat
      BY <1>3, <1>4, RangeNumbers DEF BInv, Received, Run
    <3>2. browser = "there" => Len(body') = Len(body) + Len(s)
      BY <2>3, <3>1
    <3>3. Len(body) \in Int /\ Len(s) \in Int
      BY <3>1
    <3>4. browser = "there" => start + (Len(body) + Len(s)) = s[1] + Len(s)
      BY <1>3, <3>1, <3>3
    <3> QED BY <3>2, <3>4 DEF After
  <2>5. wire' # <<>> => wire'[1] = wire[2] /\ wire[2][1] = After(s)
                       /\ wire'[Len(wire')] = wire[Len(wire)]
    BY <1>2 DEF BInv, Linked
  <2>6. wire' = <<>> => Len(wire) = 1
    BY <1>2
  <2>7. Pending' = Pending
    BY <1>1 DEF Pending
  <2>8. handler \in {"read", "send"} \/ outcome = "ok" => Pending = After(wire[Len(wire)])
    BY <1>1 DEF BInv, Linked
  <2>9. browser' = "there" /\ wire' # <<>> => wire'[1][1] = start' + Len(body')
    BY <1>1, <2>4, <2>5
  <2>10. (handler \in {"read", "send"} \/ outcome = "ok")' =>
           /\ wire' # <<>> => Pending' = After(wire'[Len(wire')])
           /\ wire' = <<>> /\ browser' = "there" => Pending' = start' + Len(body')
    BY <1>1, <2>4, <2>5, <2>6, <2>7, <2>8
  <2> QED BY <2>1, <2>2, <2>9, <2>10 DEF Linked, After
<1>7. Reading'
  BY <1>1, RangeStands DEF BInv, Reading
<1>8. Received'
  <2>1. CASE browser = "there"
    <3>1. body' = body \o s /\ body \in Seq(Int) /\ s \in Seq(Int)
      BY <1>1, <1>2, <1>3, <2>1 DEF BInv, Received, Run
    <3>2. /\ body' \in Seq(Int) /\ Len(body') = Len(body) + Len(s)
          /\ \A i \in 1 .. Len(body') :
               body'[i] = IF i <= Len(body) THEN body[i] ELSE s[i - Len(body)]
      BY <3>1
    <3>3. ASSUME NEW i \in 1 .. Len(body')  PROVE body'[i] = start + i - 1
      <4>1. CASE i <= Len(body)
        BY <3>1, <3>2, <3>3, <4>1 DEF BInv, Received
      <4>2. CASE i > Len(body)
        <5>1. i - Len(body) \in 1 .. Len(s)
          BY <3>1, <3>2, <3>3, <4>2
        <5>2. s[i - Len(body)] = s[1] + (i - Len(body)) - 1
          BY <1>3, <5>1 DEF Run
        <5> QED BY <1>3, <1>4, <2>1, <3>1, <3>2, <4>2, <5>2, RangeNumbers
      <4> QED BY <3>1, <4>1, <4>2
    <3>4. start + Len(body') <= LastRead + 1
      BY <1>3, <1>4, <2>1, <3>1, <3>2, RangeNumbers DEF Run, After
    <3> QED BY <1>1, <3>2, <3>3, <3>4, RangeStands DEF Received
  <2>2. CASE browser # "there"
    BY <1>1, <2>2, RangeStands DEF BInv, Received
  <2> QED BY <2>1, <2>2
<1> QED BY <1>2, <1>5, <1>6, <1>7, <1>8 DEF BInv

\* Send puts the handler's chunk behind the others.
LEMMA SendKeepsBInv == BInv /\ Send => BInv'
<1> SUFFICES ASSUME BInv, Send  PROVE BInv'
  OBVIOUS
<1>1. /\ handler = "send" /\ outcome = "none"
      /\ UNCHANGED <<request, gate, start, end, body, browser, broken, chunk, next>>
  BY DEF Send, BInv, Reading, gateVars, clientVars
<1>2. RangeKnown /\ RangeKnown' /\ LastRead' = LastRead
  BY <1>1, RangeStands DEF BInv, Called
<1>3. Run(chunk) /\ After(chunk) = next /\ next \in Int
  BY <1>1 DEF BInv, Reading
<1>4. wire \in Seq(Seq(Int)) /\ body \in Seq(Int)
  BY DEF BInv, Received
<1>5. CASE /\ wire' = Append(wire, chunk) /\ ~broken
           /\ handler' = "read" /\ outcome' = "none"
  <2>1. /\ wire' \in Seq(Seq(Int)) /\ Len(wire') = Len(wire) + 1
        /\ wire'[Len(wire')] = chunk
        /\ \A i \in 1 .. Len(wire) : wire'[i] = wire[i]
        /\ wire' # <<>>
    BY <1>3, <1>4, <1>5 DEF Run
  <2>2. (\A i \in 1 .. Len(wire) : Run(wire[i]))'
    <3>1. ASSUME NEW i \in 1 .. Len(wire')  PROVE Run(wire'[i])
      <4>1. CASE i = Len(wire')
        BY <1>3, <2>1, <4>1
      <4>2. CASE i # Len(wire')
        <5>1. i \in 1 .. Len(wire) /\ wire'[i] = wire[i]
          BY <1>4, <2>1, <4>2
        <5> QED BY <5>1 DEF BInv, Linked
      <4> QED BY <4>1, <4>2
    <3> QED BY <1>1, <1>2, <3>1 DEF Run, After
  <2>3. \A i \in 1 .. Len(wire') - 1 : wire'[i + 1][1] = After(wire'[i])
    <3> SUFFICES ASSUME NEW i \in 1 .. Len(wire)
                 PROVE  wire'[i + 1][1] = After(wire[i])
      BY <1>4, <2>1
    <3>1. CASE i = Len(wire)
      <4>1. wire # <<>> /\ wire'[i + 1] = chunk
        BY <1>4, <2>1, <3>1
      <4>2. chunk[1] = After(wire[Len(wire)])
        BY <1>1, <4>1 DEF BInv, Linked, Pending
      <4> QED BY <3>1, <4>1, <4>2
    <3>2. CASE i # Len(wire)
      <4>1. i \in 1 .. Len(wire) - 1 /\ wire'[i + 1] = wire[i + 1]
        <5>1. Len(wire) \in Nat
          BY <1>4
        <5>2. i \in 1 .. Len(wire) - 1 /\ i + 1 \in 1 .. Len(wire)
          BY <3>2, <5>1
        <5> QED BY <2>1, <5>2
      <4>2. \A k \in 1 .. Len(wire) - 1 : wire[k + 1][1] = After(wire[k])
        BY DEF BInv, Linked
      <4> QED BY <4>1, <4>2
    <3> QED BY <3>1, <3>2
  <2>4. browser' = "there" => wire'[1][1] = start' + Len(body')
    <3>1. CASE wire = <<>>
      <4>1. wire'[1] = chunk
        BY <1>4, <2>1, <3>1
      <4>2. browser = "there" => chunk[1] = start + Len(body)
        BY <1>1, <3>1 DEF BInv, Linked, Pending
      <4> QED BY <1>1, <4>1, <4>2
    <3>2. CASE wire # <<>>
      <4>1. wire'[1] = wire[1]
        BY <1>4, <2>1, <3>2
      <4>2. browser = "there" => wire[1][1] = start + Len(body)
        BY <3>2 DEF BInv, Linked
      <4> QED BY <1>1, <4>1, <4>2
    <3> QED BY <3>1, <3>2
  <2>5. Pending' = After(wire'[Len(wire')])
    BY <1>1, <1>3, <1>5, <2>1 DEF Pending
  <2>6. Linked'
    BY <2>1, <2>2, <2>3, <2>4, <2>5 DEF Linked, After
  <2>7. Reading'
    <3>1. next >= start
      BY <1>2, <1>3, RangeNumbers DEF Run, After
    <3> QED BY <1>1, <1>3, <1>5, <3>1 DEF Reading
  <2>8. Called' /\ Received'
    BY <1>1, <1>2, <1>5 DEF BInv, Called, Received
  <2> QED BY <2>1, <2>6, <2>7, <2>8 DEF BInv
<1>6. CASE wire' = wire /\ handler' = "ended" /\ outcome' = "error"
  <2>1. Linked'
    BY <1>1, <1>2, <1>6 DEF BInv, Linked, Run, After
  <2> QED BY <1>1, <1>2, <1>6, <2>1 DEF BInv, Called, Reading, Received
<1>7. \/ /\ wire' = Append(wire, chunk) /\ ~broken
         /\ handler' = "read" /\ outcome' = "none"
      \/ wire' = wire /\ handler' = "ended" /\ outcome' = "error"
  <2>1. wire \o <<chunk>> = Append(wire, chunk)
    BY <1>3, <1>4 DEF Run
  <2> QED BY <1>1, <2>1 DEF Send, Sent, End
<1> QED BY <1>5, <1>6, <1>7

\* Steps at which no byte moves and the handler stands still.
LEMMA QuietKeepsBInv ==
  ASSUME BInv,
         UNCHANGED <<request, start, end, body, wire, handler, chunk, next, outcome>>,
         browser' \in {browser, "left"},
         gate' \in {"recv", "ended"} \/ handler = "idle",
         gate' = "ended" /\ ~broken' =>
           handler = "idle" \/ (wire = <<>> /\ outcome # "none")
  PROVE  BInv'
<1>1. LastRead' = LastRead /\ (RangeKnown => RangeKnown')
  BY RangeStands
<1>2. Called' /\ Reading' /\ Received'
  BY <1>1 DEF BInv, Called, Reading, Received, Run, After
<1>3. Pending' = Pending /\ (browser' = "there" => browser = "there")
  BY DEF Pending
<1>4. Linked'
  BY <1>1, <1>3 DEF BInv, Linked, Run, After
<1> QED BY <1>2, <1>4 DEF BInv

\* Steps that end the handler with an error: what is on the stream stays.
LEMMA ErrorKeepsBInv ==
  ASSUME BInv, End("error"), handler \in {"resolve", "read"},
         UNCHANGED <<request, start, end, body, wire, gate, browser, broken, chunk, next>>
  PROVE  BInv'
<1>1. LastRead' = LastRead /\ RangeKnown /\ RangeKnown'
  BY RangeStands DEF BInv, Called
<1>2. handler' = "ended" /\ outcome' = "error" /\ outcome = "none"
  BY DEF End, BInv, Called, Reading
<1>3. Called' /\ Reading' /\ Received'
  BY <1>1, <1>2 DEF BInv, Called, Reading, Received
<1>4. Linked'
  BY <1>1, <1>2 DEF BInv, Linked, Run, After
<1> QED BY <1>3, <1>4 DEF BInv

\* The handler begins at the first byte asked for.
LEMMA ResolveKeepsBInv == BInv /\ Resolve => BInv'
<1> SUFFICES ASSUME BInv, Resolve  PROVE BInv'
  OBVIOUS
<1>1. /\ handler = "resolve" /\ RangeKnown
      /\ body = <<>> /\ wire = <<>> /\ outcome = "none"
      /\ UNCHANGED <<request, start, end, body, wire, gate, browser, broken, chunk>>
  BY DEF Resolve, BInv, Called, gateVars, clientVars
<1>2. CASE handler' = "read" /\ next' = FirstRead /\ outcome' = outcome
  <2>1. next' = start /\ start \in Nat
    BY <1>1, <1>2, RangeNumbers
  <2>2. Called' /\ Reading' /\ Received'
    BY <1>1, <1>2, <2>1, RangeStands DEF BInv, Called, Reading, Received
  <2>3. Linked'
    BY <1>1, <1>2, <2>1 DEF Linked, Pending
  <2> QED BY <1>1, <2>2, <2>3 DEF BInv
<1>3. CASE End("error") /\ next' = next
  BY <1>1, <1>3, ErrorKeepsBInv
<1> QED BY <1>2, <1>3 DEF Resolve

\* A Read takes the bytes that follow, up to the last one asked for.
LEMMA ReadKeepsBInv == BInv /\ ReadChunk => BInv'
<1> SUFFICES ASSUME BInv, ReadChunk  PROVE BInv'
  OBVIOUS
<1>1. /\ handler = "read" /\ handler' = "send" /\ outcome = "none" /\ RangeKnown
      /\ next \in Int /\ start <= next /\ next <= LastRead
      /\ UNCHANGED <<request, start, end, body, wire, gate, browser, broken, outcome>>
  BY DEF ReadChunk, BInv, Called, Reading, gateVars, clientVars
<1>2. RangeKnown' /\ LastRead' = LastRead /\ LastRead \in Int /\ start \in Nat
  BY <1>1, RangeStands, RangeNumbers
<1>3. PICK n \in 1 .. Smaller(Buffer, LastRead - next + 1) :
        chunk' = [i \in 1 .. n |-> next + i - 1] /\ next' = next + n
  BY DEF ReadChunk
<1>4. n \in Nat \ {0} /\ n <= LastRead - next + 1
  BY <1>1, <1>2, DownloadAssumption DEF Smaller
<1>5. /\ chunk' \in Seq(Int) /\ Len(chunk') = n /\ chunk'[1] = next
      /\ \A j \in 1 .. n : chunk'[j] = next + j - 1
  BY <1>1, <1>3, <1>4
<1>6. next' = chunk'[1] + Len(chunk') /\ next' <= LastRead + 1 /\ next' \in Int
  BY <1>1, <1>2, <1>3, <1>4, <1>5
<1>7. Run(chunk)' /\ After(chunk)' = next'
  BY <1>1, <1>2, <1>4, <1>5, <1>6 DEF Run, After
<1>8. Pending' = Pending
  BY <1>1, <1>5 DEF Pending
<1>9. Linked'
  BY <1>1, <1>2, <1>8 DEF BInv, Linked, Run, After
<1>10. Called' /\ Reading' /\ Received'
  BY <1>1, <1>2, <1>6, <1>7 DEF BInv, Called, Reading, Received
<1> QED BY <1>1, <1>9, <1>10 DEF BInv

LEMMA EOFKeepsBInv == BInv /\ ReadEOF => BInv'
<1> SUFFICES ASSUME BInv, ReadEOF  PROVE BInv'
  OBVIOUS
<1>1. /\ handler = "read" /\ handler' = "ended" /\ outcome' = "ok" /\ outcome = "none"
      /\ next > LastRead /\ RangeKnown
      /\ UNCHANGED <<request, start, end, body, wire, gate, browser, broken, chunk, next>>
  BY DEF ReadEOF, End, BInv, Called, Reading, gateVars, clientVars
<1>2. LastRead' = LastRead /\ RangeKnown' /\ Pending' = Pending
  BY <1>1, RangeStands DEF Pending
<1>3. Linked'
  BY <1>1, <1>2 DEF BInv, Linked, Run, After
<1>4. Called' /\ Reading' /\ Received'
  BY <1>1, <1>2 DEF BInv, Called, Reading, Received
<1> QED BY <1>1, <1>3, <1>4 DEF BInv

LEMMA NextKeepsBInv == IInv /\ BInv /\ [Next]_vars => BInv'
<1> SUFFICES ASSUME IInv, BInv, [Next]_vars  PROVE BInv'
  OBVIOUS
<1> USE DEF gateVars, clientVars, storageVars
<1>1. CASE Verify \/ GetFile
  <2>1. handler = "idle"
    BY <1>1 DEF Verify, GetFile, BInv, Called
  <2> QED BY <1>1, <2>1, QuietKeepsBInv DEF Verify, GetFile, Respond
<1>2. CASE ParseRange     BY <1>2, ParseKeepsBInv
<1>3. CASE ReadRange      BY <1>3, ReadRangeKeepsBInv
<1>4. CASE RecvChunk      BY <1>4, RecvKeepsBInv
<1>5. CASE RecvEnd        BY <1>5, QuietKeepsBInv DEF RecvEnd
<1>6. CASE Resolve        BY <1>6, ResolveKeepsBInv
<1>7. CASE ReadChunk      BY <1>7, ReadKeepsBInv
<1>8. CASE Send           BY <1>8, SendKeepsBInv
<1>9. CASE ReadEOF        BY <1>9, EOFKeepsBInv
<1>10. CASE ReadFails     BY <1>10, ErrorKeepsBInv DEF ReadFails
<1>11. CASE BrowserLeaves
  BY <1>11, QuietKeepsBInv DEF BrowserLeaves, BInv, Called, Received
<1>12. CASE GatewayDies   BY <1>12, QuietKeepsBInv DEF GatewayDies
<1>13. CASE UNCHANGED vars
  BY <1>13, QuietKeepsBInv DEF vars, BInv, Called, Received
<1> QED
  BY <1>1, <1>2, <1>3, <1>4, <1>5, <1>6, <1>7, <1>8, <1>9, <1>10, <1>11, <1>12, <1>13
     DEF Next, Gateway, Handler

LEMMA BInvGivesBody == BInv => BodyIsNamed
<1> SUFFICES ASSUME BInv  PROVE BodyIsNamed
  OBVIOUS
<1>1. CASE handler = "idle"
  <2>1. body = <<>> /\ outcome = "none"
    BY <1>1 DEF BInv, Called
  <2> QED BY <2>1 DEF BodyIsNamed
<1>2. CASE handler # "idle"
  <2>1. /\ RangeKnown /\ body \in Seq(Int) /\ start \in Nat /\ LastRead \in Int
        /\ start .. LastRead = Named(request)
    BY <1>2, RangeNumbers DEF BInv, Called, Received, RangeKnown
  <2>2. ASSUME NEW i \in 1 .. Len(body)
        PROVE  body[i] = start + i - 1 /\ body[i] \in Named(request)
    <3>1. body[i] = start + i - 1 /\ start + Len(body) <= LastRead + 1
      BY <2>1 DEF BInv, Received
    <3>2. body[i] \in start .. LastRead
      BY <2>1, <3>1
    <3> QED BY <2>1, <3>1, <3>2
  <2>3. ASSUME gate = "ended", outcome = "ok", browser = "there", ~broken,
               NEW o \in Named(request)
        PROVE  \E i \in 1 .. Len(body) : body[i] = o
    <3>1. wire = <<>> /\ handler = "ended" /\ next > LastRead /\ next \in Int
      BY <1>2, <2>3 DEF BInv, Received, Reading
    <3>2. next = start + Len(body)
      BY <2>3, <3>1 DEF BInv, Linked, Pending
    <3>3. o \in Int /\ start <= o /\ o <= LastRead
      BY <2>1
    <3>4. o - start + 1 \in 1 .. Len(body)
      BY <2>1, <3>1, <3>2, <3>3
    <3>5. body[o - start + 1] = start + (o - start + 1) - 1
      BY <3>4 DEF BInv, Received
    <3> QED BY <2>1, <3>3, <3>4, <3>5
  <2> QED BY <2>2, <2>3 DEF BodyIsNamed
<1> QED BY <1>1, <1>2

\* streamObject, and the loops of Download and of ReadRange's callers: what the
\* reader is given is the bytes named, in order and without a gap, and all of
\* them where nothing failed; for every size of file, buffer and window, and
\* wherever the browser, the gateway, Ceph or the service fails.
THEOREM BodyIsNamedAlways == Spec => []BodyIsNamed
<1>1. Init => IInv /\ BInv
  BY InitIInv, InitBInv
<1>2. IInv /\ BInv /\ [Next]_vars => (IInv /\ BInv)'
  BY NextKeepsIInv, NextKeepsBInv
<1> QED BY <1>1, <1>2, BInvGivesBody, PTL DEF Spec
=============================================================================
