------------------------------ MODULE Download ------------------------------
(***************************************************************************)
(* One read of a stored file: a browser's GET with a ticket and perhaps a  *)
(* Range header (gin_web's Download and ParseRange), or a ReadRange call   *)
(* of the analysis service, and storage_srv's streamObject, which reads    *)
(* the object from Ceph and sends it in chunks.                            *)
(*                                                                         *)
(* The byte at offset o of the object is o.  Verification of the ticket    *)
(* and the text of the header are left out: a header is the numbers it     *)
(* names, or "bad".  gin.Context is never done, so the stream of a gateway *)
(* handler ends with the storage handler or with the gateway.              *)
(***************************************************************************)
EXTENDS Integers, Sequences

CONSTANTS
  Size,      \* FileSize, and the length of the object
  Buffer,    \* the most one Read of the object returns
  Window,    \* chunks gRPC lets be on the way
  Requests,  \* headers of browsers, ranges of ReadRange
  Faults     \* "ticket" (expired), "browser" (leaves), "gateway" (dies),
             \* "ceph" (a Read fails), "service" (refuses a call)

Bytes == 0 .. Size - 1
Open  == -1   \* no number after the dash

\* "none": no header. "bad": not one range of bytes. "range": first-last.
\* "suffix": the final `last' bytes. "read": ReadRange(first, last) of a caller
\* that asks for a byte at least, `last' being its length.
RequestOK(q) ==
  \/ q.kind \in {"none", "bad"}
  \/ q.kind = "range"  /\ q.first \in Nat /\ q.last \in Nat \cup {Open}
  \/ q.kind = "suffix" /\ q.last \in Nat
  \/ q.kind = "read"   /\ q.first \in Nat /\ q.last \in Nat \ {0}

ASSUME DownloadAssumption ==
  /\ Size \in Nat \ {0} /\ Buffer \in Nat \ {0} /\ Window \in Nat \ {0}
  /\ \A q \in Requests : RequestOK(q)
  /\ Faults \subseteq {"ticket", "browser", "gateway", "ceph", "service"}

VARIABLES
  request,                     \* what was asked
  gate, status, start, end,    \* the gateway's handler, or ReadRange's caller
  body, browser,               \* bytes written to the browser; is it there
  wire, broken,                \* the stream: chunks on it, is it cut
  handler, chunk, next,        \* storage_srv's handler, the bytes it sends, its
  outcome                      \* place in the object, its status

gateVars    == <<request, gate, status, start, end>>
clientVars  == <<body, browser>>
storageVars == <<handler, chunk, next, outcome>>
vars        == <<gateVars, clientVars, wire, broken, storageVars>>

Init ==
  /\ request \in Requests /\ status = 0 /\ start = 0 /\ end = 0
  /\ gate = IF request.kind = "read" THEN "read" ELSE "verify"
  /\ body = <<>> /\ browser = "there"
  /\ wire = <<>> /\ broken = FALSE
  /\ handler = "idle" /\ chunk = <<>> /\ next = 0 /\ outcome = "none"

Fails(fault) == fault \in Faults

-----------------------------------------------------------------------------
(* ParseRange, by the kind of the header.                                  *)

Smaller(a, b) == IF a < b THEN a ELSE b

\* Mutant: the end of a range is taken as it is.
LastAsked(q) == IF q.last = Open THEN Size - 1 ELSE q.last

LastByte(q) == IF q.last = Open THEN Size - 1 ELSE Smaller(q.last, Size - 1)

Satisfiable(q) ==
  CASE q.kind = "none"   -> TRUE
    [] q.kind = "bad"    -> FALSE
    [] q.kind = "suffix" -> q.last > 0
    [] q.kind = "range"  -> q.first < Size /\ (q.last = Open \/ q.last >= q.first)

ParsedStart(q) ==
  CASE q.kind = "none"   -> 0
    [] q.kind = "suffix" -> Size - Smaller(q.last, Size)
    [] q.kind = "range"  -> q.first

ParsedEnd(q) == IF q.kind = "range" THEN LastByte(q) ELSE Size - 1

-----------------------------------------------------------------------------
(* The gateway: Download.                                                  *)

Respond(code) == gate' = "ended" /\ status' = code

Verify ==
  /\ gate = "verify"
  /\ \/ gate' = "file" /\ UNCHANGED status
     \/ Fails("ticket") /\ Respond(401)
  /\ UNCHANGED <<request, start, end, clientVars, wire, broken, storageVars>>

GetFile ==
  /\ gate = "file"
  /\ \/ gate' = "parse" /\ UNCHANGED status
     \/ Fails("service") /\ Respond(404)
  /\ UNCHANGED <<request, start, end, clientVars, wire, broken, storageVars>>

\* The status is set before the first byte is known to be there.
ParseRange ==
  /\ gate = "parse"
  /\ IF Satisfiable(request)
     THEN /\ start' = ParsedStart(request) /\ end' = ParsedEnd(request)
          /\ \/ /\ gate' = "recv" /\ handler' = "resolve"
                /\ status' = IF request.kind = "none" THEN 200 ELSE 206
             \/ Fails("service") /\ Respond(503) /\ UNCHANGED handler
     ELSE Respond(416) /\ UNCHANGED <<start, end, handler>>
  /\ UNCHANGED <<request, clientVars, wire, broken, chunk, next, outcome>>

\* ReadRange's caller takes the chunks as the gateway does.
ReadRange ==
  /\ gate = "read"
  /\ start' = request.first /\ end' = request.first + request.last - 1
  /\ gate' = "recv" /\ handler' = "resolve"
  /\ UNCHANGED <<request, status, clientVars, wire, broken, chunk, next, outcome>>

\* Mutant: the handler returns when the browser cannot be written to.
ReturnsIfLeft == browser = "there"

\* The error of Writer.Write is dropped, and the rest of the stream read.
ReadsOn == TRUE

RecvChunk ==
  /\ gate = "recv" /\ wire # <<>> /\ ~broken
  /\ wire' = Tail(wire)
  /\ body' = IF browser = "there" THEN body \o Head(wire) ELSE body
  /\ gate' = IF ReadsOn THEN "recv" ELSE "ended"
  /\ UNCHANGED <<request, status, start, end, browser, broken, storageVars>>

\* io.EOF and an error end the loop alike.
RecvEnd ==
  /\ gate = "recv" /\ wire = <<>> /\ outcome # "none"
  /\ gate' = "ended"
  /\ UNCHANGED <<request, status, start, end, clientVars, wire, broken, storageVars>>

BrowserLeaves ==
  /\ Fails("browser") /\ browser = "there"
  /\ gate # "ended" /\ request.kind # "read"
  /\ browser' = "left"
  /\ UNCHANGED <<gateVars, body, wire, broken, storageVars>>

\* Or ReadRange's caller, or its context is done.
GatewayDies ==
  /\ Fails("gateway") /\ gate = "recv"
  /\ gate' = "ended" /\ broken' = TRUE
  /\ UNCHANGED <<request, status, start, end, clientVars, wire, storageVars>>

-----------------------------------------------------------------------------
(* storage_srv: streamObject.                                              *)

End(result) == handler' = "ended" /\ outcome' = result

\* SetRange is called for a range that has a byte, else all is read.
Ranged    == start >= 0 /\ end >= start
FirstRead == IF Ranged THEN start ELSE 0
LastRead  == IF Ranged THEN Smaller(end, Size - 1) ELSE Size - 1

Resolve ==
  /\ handler = "resolve"
  /\ \/ handler' = "read" /\ next' = FirstRead /\ UNCHANGED outcome
     \/ /\ Fails("service") \/ broken
        /\ End("error") /\ UNCHANGED next
  /\ UNCHANGED <<gateVars, clientVars, wire, broken, chunk>>

\* A Read of some bytes; the last come with io.EOF or before it.
ReadChunk ==
  /\ handler = "read" /\ next <= LastRead
  /\ \E n \in 1 .. Smaller(Buffer, LastRead - next + 1) :
       chunk' = [i \in 1 .. n |-> next + i - 1] /\ next' = next + n
  /\ handler' = "send"
  /\ UNCHANGED <<gateVars, clientVars, wire, broken, outcome>>

\* Mutant: bytes that come with io.EOF are not sent.
SentUnlessLast == IF next > LastRead THEN <<>> ELSE <<chunk>>

Sent == <<chunk>>

Send ==
  /\ handler = "send"
  /\ \/ /\ Len(wire) < Window /\ ~broken
        /\ wire' = wire \o Sent
        /\ handler' = "read" /\ UNCHANGED outcome
     \/ broken /\ End("error") /\ UNCHANGED wire
  /\ UNCHANGED <<gateVars, clientVars, broken, chunk, next>>

ReadEOF ==
  /\ handler = "read" /\ next > LastRead /\ FirstRead < Size
  /\ End("ok")
  /\ UNCHANGED <<gateVars, clientVars, wire, broken, chunk, next>>

\* Ceph has nothing at the offset or fails in the middle; or the context,
\* which is the stream's, is done.
ReadFails ==
  /\ handler = "read"
  /\ FirstRead >= Size \/ Fails("ceph") \/ broken
  /\ End("error")
  /\ UNCHANGED <<gateVars, clientVars, wire, broken, chunk, next>>

-----------------------------------------------------------------------------

Gateway == Verify \/ GetFile \/ ParseRange \/ ReadRange \/ RecvChunk \/ RecvEnd
Handler == Resolve \/ ReadChunk \/ Send \/ ReadEOF \/ ReadFails

Next == Gateway \/ Handler \/ BrowserLeaves \/ GatewayDies

Spec == Init /\ [][Next]_vars

\* Goroutines run on, gRPC delivers, Ceph answers, and a browser reads or
\* leaves.
FairSpec == Spec /\ WF_vars(Gateway) /\ WF_vars(Handler)

-----------------------------------------------------------------------------
(* Properties.                                                             *)

\* The bytes of the file a request names.
Named(q) ==
  CASE q.kind = "none"   -> Bytes
    [] q.kind = "bad"    -> {}
    [] q.kind = "suffix" -> {o \in Bytes : o >= Size - q.last}
    [] q.kind = "range"  -> {o \in Bytes : q.first <= o /\ (q.last = Open \/ o <= q.last)}
    [] q.kind = "read"   -> {o \in Bytes : q.first <= o /\ o < q.first + q.last}

Answered == status \in {200, 206}

\* The range in Content-Range and Content-Length is the bytes of the file the
\* header names, and a header that names none gets 416: at every boundary of
\* the file, for every form of the header.
RangeIsNamed ==
  /\ Answered => start .. end = Named(request) /\ Named(request) # {}
  /\ status = 416 => Named(request) = {}

\* What reaches the browser or the reader is those bytes, in order and without
\* a gap, and all of them unless the stream failed or the browser left: the
\* answer's length was promised before the first byte was read.
BodyIsNamed ==
  /\ \A i \in 1 .. Len(body) : body[i] = start + i - 1 /\ body[i] \in Named(request)
  /\ gate = "ended" /\ outcome = "ok" /\ browser = "there" /\ ~broken =>
       \A o \in Named(request) : \E i \in 1 .. Len(body) : body[i] = o

\* A request ends at the gateway and in the storage service, also when the
\* browser has left or the gateway died: neither is left waiting in Send or
\* Recv.
ReadEnds == <>(gate = "ended" /\ handler \in {"idle", "ended"})
=============================================================================
