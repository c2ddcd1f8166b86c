----------------------------- MODULE PartStream -----------------------------
(***************************************************************************)
(* One PUT of a part: gin_web's UploadPart, which reads the browser's body *)
(* and sends it in frames, storage_srv's UploadPart, which receives them   *)
(* and writes them into a pipe, and the goroutine in which PutObject or    *)
(* PutObjectPart reads the pipe and sends the bytes to Ceph.               *)
(*                                                                         *)
(* Bytes are counted in frames.  A write into the pipe and the read that   *)
(* takes it are one step, as io.Pipe has no buffer: a handler at "write"   *)
(* waits for a reader, and for nothing else.  gin.Context is never done    *)
(* (router.New sets no fallback), so a gateway handler that returns leaves *)
(* its stream as it is; the death of the gateway breaks it.                *)
(***************************************************************************)
EXTENDS Integers

CONSTANTS
  Size,      \* meta.Size
  Lengths,   \* what clients of the stream send: the gateway sends Size
  Window,    \* frames gRPC lets be on the way
  Faults     \* "browser" (leaves in the middle), "gateway" (dies), "ceph"
             \* (refuses at any moment), "service" (refuses a call), "damage"

ASSUME StreamAssumption ==
  /\ Size \in Nat \ {0} /\ Lengths \subseteq Nat \ {0} /\ Window \in Nat \ {0}
  /\ Faults \subseteq {"browser", "gateway", "ceph", "service", "damage"}

VARIABLES
  client, length, sent, answer,  \* the gateway's handler, its body, its answer
  wire, halfClosed, broken,      \* the stream: frames on it, how it ended
  handler, written, outcome,     \* storage_srv's handler, its status
  pipe,                          \* "open", or how its writer closed it
  uploader, taken, result,       \* the goroutine, what it read, resultCh
  stored, damaged, recorded      \* the part in Ceph, its checksum, RecordPart

gateway == <<client, length, sent, answer>>
stream  == <<wire, halfClosed, broken>>
storage == <<handler, written, outcome, pipe>>
ceph    == <<uploader, taken, result, stored>>
vars    == <<gateway, stream, storage, ceph, damaged, recorded>>

Init ==
  /\ client = "sending" /\ length \in Lengths /\ sent = 0 /\ answer = "none"
  /\ wire = 0 /\ halfClosed = FALSE /\ broken = FALSE
  /\ handler = "first" /\ written = 0 /\ outcome = "none" /\ pipe = "open"
  /\ uploader = "off" /\ taken = 0 /\ result = "none" /\ stored = FALSE
  /\ damaged \in {FALSE, "damage" \in Faults} /\ recorded = FALSE

Fails(fault) == fault \in Faults

-----------------------------------------------------------------------------
(* The gateway.                                                            *)

\* A Send on a stream that has its status fails.
SendFrame ==
  /\ client = "sending" /\ sent < length
  /\ \/ /\ outcome = "none" /\ wire < Window
        /\ sent' = sent + 1 /\ wire' = wire + 1
        /\ UNCHANGED <<client, answer>>
     \/ /\ outcome # "none"
        /\ client' = "ended" /\ answer' = "error"
        /\ UNCHANGED <<sent, wire>>
  /\ UNCHANGED <<length, halfClosed, broken, storage, ceph, damaged, recorded>>

\* The body cannot be read: the handler answers and returns.
BodyFails ==
  /\ Fails("browser") /\ client = "sending" /\ sent < length
  /\ client' = "ended" /\ answer' = "error"
  /\ UNCHANGED <<length, sent, stream, storage, ceph, damaged, recorded>>

CloseSend ==
  /\ client = "sending" /\ sent = length
  /\ client' = "closing" /\ halfClosed' = TRUE
  /\ UNCHANGED <<length, sent, answer, wire, broken, storage, ceph, damaged, recorded>>

Respond ==
  /\ client = "closing" /\ outcome # "none"
  /\ client' = "ended" /\ answer' = outcome
  /\ UNCHANGED <<length, sent, stream, storage, ceph, damaged, recorded>>

GatewayDies ==
  /\ Fails("gateway") /\ client \in {"sending", "closing"}
  /\ client' = "ended" /\ broken' = TRUE
  /\ UNCHANGED <<length, sent, answer, wire, halfClosed, storage, ceph, damaged, recorded>>

-----------------------------------------------------------------------------
(* storage_srv: the handler.                                               *)

Goto(call) == handler' = call /\ UNCHANGED outcome

End(status) == handler' = "ended" /\ outcome' = status

Arrives == wire > 0 /\ ~broken /\ wire' = wire - 1 /\ UNCHANGED <<halfClosed, broken>>

RecvFirst ==
  /\ handler = "first"
  /\ \/ Arrives /\ Goto("authorize")
     \/ broken /\ End("error") /\ UNCHANGED stream
  /\ UNCHANGED <<gateway, written, pipe, ceph, damaged, recorded>>

Authorize ==
  /\ handler = "authorize"
  /\ \/ Goto("write") /\ uploader' = "reading"
     \/ /\ Fails("service") \/ broken
        /\ End("error") /\ UNCHANGED uploader
  /\ UNCHANGED <<gateway, stream, written, pipe, taken, result, stored, damaged, recorded>>

\* Mutant: the check of the size is off by one.
OneTooMany == written <= Size

Fits == written < Size

\* The frame goes through the pipe.
Write ==
  /\ handler = "write" /\ Fits
  /\ uploader = "reading" /\ taken < Size
  /\ written' = written + 1 /\ taken' = taken + 1
  /\ Goto("recv")
  /\ UNCHANGED <<gateway, stream, pipe, uploader, result, stored, damaged, recorded>>

BreakPipe == pipe' = "failed" /\ End("error")

WriteRefused ==
  /\ handler = "write" /\ ~Fits
  /\ BreakPipe
  /\ UNCHANGED <<gateway, stream, written, ceph, damaged, recorded>>

Recv ==
  /\ handler = "recv"
  /\ \/ Arrives /\ Goto("write") /\ UNCHANGED pipe
     \/ broken /\ BreakPipe /\ UNCHANGED stream
  /\ UNCHANGED <<gateway, written, ceph, damaged, recorded>>

RecvEOF ==
  /\ handler = "recv" /\ ~broken /\ wire = 0 /\ halfClosed
  /\ IF written = Size THEN pipe' = "closed" /\ Goto("result") ELSE BreakPipe
  /\ UNCHANGED <<gateway, stream, written, ceph, damaged, recorded>>

\* Mutant: the error in the result is not looked at.
AnyResult == result # "none"

GoodResult == result = "ok"

AwaitResult ==
  /\ handler = "result" /\ result # "none"
  /\ IF GoodResult /\ ~damaged THEN Goto("record") ELSE End("error")
  /\ UNCHANGED <<gateway, stream, written, pipe, ceph, damaged, recorded>>

RecordPart ==
  /\ handler = "record"
  /\ \/ recorded' = TRUE /\ End("ok")
     \/ Fails("service") /\ recorded' \in BOOLEAN /\ End("error")
     \/ broken /\ End("error") /\ UNCHANGED recorded
  /\ UNCHANGED <<gateway, stream, written, pipe, ceph, damaged>>

-----------------------------------------------------------------------------
(* The goroutine: the S3 client reads Size bytes, and on its way out does  *)
(* not close the reader it was given.                                      *)

Put(res, whole) ==
  /\ uploader' = res /\ stored' = whole
  /\ UNCHANGED <<gateway, stream, storage, taken, result, damaged, recorded>>

\* stream.Context() ends with the handler or the stream.
ContextDone == handler = "ended" \/ broken

PutFails ==
  /\ uploader = "reading"
  /\ \/ Fails("ceph") \/ ContextDone
     \/ taken < Size /\ pipe # "open"
  /\ \E whole \in {FALSE, taken = Size} : Put("error", whole)

PutSucceeds == uploader = "reading" /\ taken = Size /\ Put("ok", TRUE)

\* Mutant: make(chan result).
ReceiverReady == handler = "result"

ChannelReady == result = "none"

SendResult ==
  /\ uploader \in {"ok", "error"} /\ ChannelReady
  /\ result' = uploader /\ uploader' = "ended"
  /\ UNCHANGED <<gateway, stream, storage, taken, stored, damaged, recorded>>

-----------------------------------------------------------------------------

Gateway == SendFrame \/ CloseSend \/ Respond
Handler ==
  \/ RecvFirst \/ Authorize \/ Write \/ WriteRefused \/ Recv \/ RecvEOF
  \/ AwaitResult \/ RecordPart
Uploader == PutFails \/ PutSucceeds \/ SendResult

Next == Gateway \/ Handler \/ Uploader \/ BodyFails \/ GatewayDies

Spec == Init /\ [][Next]_vars

\* Goroutines run on, gRPC delivers and Ceph answers.
FairSpec == Spec /\ WF_vars(Gateway) /\ WF_vars(Handler) /\ WF_vars(Uploader)

-----------------------------------------------------------------------------
(* Properties.                                                             *)

\* A part is recorded only when Ceph has the whole of it and its checksum
\* agrees, and the browser is told so only of a part that is recorded.
RecordedIsStored ==
  /\ recorded => stored /\ written = Size /\ ~damaged
  /\ answer = "ok" => recorded

\* The two ways in which the code does leave its handler waiting: for a reader
\* of the pipe that is gone, and for frames of a gateway that has returned.
ReaderGone == uploader \in {"error", "ended"} /\ taken < Size
StreamLeft == client = "ended" /\ ~halfClosed /\ ~broken

\* But for these, the storage handler returns: whatever the length of the
\* body, with refused calls, damaged parts or a dead gateway, it does not wait
\* for ever in Recv, in the pipe or for the result.
HandlerEnds == handler # "first" ~> handler = "ended" \/ ReaderGone \/ StreamLeft

\* Once the handler has returned, on whatever path, its goroutine ends too:
\* it is not left with a reader nobody closes or a result nobody takes.
UploaderEnds == handler = "ended" ~> uploader \in {"off", "ended"}

\* The browser's PUT is answered, so that it can be tried again.
PutIsAnswered == <>(client = "ended")
=============================================================================
