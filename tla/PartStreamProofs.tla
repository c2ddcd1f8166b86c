-------------------------- MODULE PartStreamProofs --------------------------
(* A recorded part is in Ceph: for every size, length of the body, window   *)
(* and fault of PartStream.                                                 *)
EXTENDS PartStream, TLAPS

\* The result in the channel, and before it the goroutine's, tells what is
\* in Ceph.
ResultTrue ==
  /\ uploader = "ok" => stored
  /\ result = "ok" => stored
  /\ result # "none" => uploader = "ended"

\* The handler comes to RecordPart by way of the right size, a good result
\* and a checksum that agrees, and none of them changes afterwards.
Verified == result = "ok" /\ written = Size /\ ~damaged

HandlerTrue ==
  /\ handler \in {"first", "authorize"} => uploader = "off"
  /\ handler = "result" => written = Size
  /\ handler = "record" => Verified
  /\ recorded => Verified /\ handler = "ended"
  /\ outcome = "ok" => recorded
  /\ answer = "ok" => outcome = "ok"
  /\ outcome # "none" => handler = "ended"

IInv == ResultTrue /\ HandlerTrue

LEMMA InitIInv == Init => IInv
  BY DEF Init, IInv, ResultTrue, HandlerTrue, Verified

LEMMA GatewayKeepsIInv ==
  IInv /\ (Gateway \/ BodyFails \/ GatewayDies) => IInv'
<1> USE DEF IInv, ResultTrue, HandlerTrue, Verified, stream, storage, ceph
<1>1. IInv /\ SendFrame => IInv'     BY DEF SendFrame
<1>2. IInv /\ CloseSend => IInv'     BY DEF CloseSend
<1>3. IInv /\ Respond => IInv'       BY DEF Respond
<1>4. IInv /\ BodyFails => IInv'     BY DEF BodyFails
<1>5. IInv /\ GatewayDies => IInv'   BY DEF GatewayDies
<1> QED  BY <1>1, <1>2, <1>3, <1>4, <1>5 DEF Gateway

LEMMA HandlerKeepsIInv == IInv /\ Handler => IInv'
<1> USE DEF IInv, ResultTrue, HandlerTrue, Verified, gateway, stream, ceph,
            Goto, End, BreakPipe
<1>1. IInv /\ RecvFirst => IInv'     BY DEF RecvFirst
<1>2. IInv /\ Authorize => IInv'     BY DEF Authorize
<1>3. IInv /\ Write => IInv'         BY DEF Write
<1>4. IInv /\ WriteRefused => IInv'  BY DEF WriteRefused
<1>5. IInv /\ Recv => IInv'          BY DEF Recv
<1>6. IInv /\ RecvEOF => IInv'       BY DEF RecvEOF
<1>7. IInv /\ AwaitResult => IInv'   BY DEF AwaitResult, GoodResult
<1>8. IInv /\ RecordPart => IInv'    BY DEF RecordPart
<1> QED
  BY <1>1, <1>2, <1>3, <1>4, <1>5, <1>6, <1>7, <1>8 DEF Handler

LEMMA UploaderKeepsIInv == IInv /\ Uploader => IInv'
<1> USE DEF IInv, ResultTrue, HandlerTrue, Verified, gateway, stream, storage, Put
<1>1. IInv /\ PutFails => IInv'      BY DEF PutFails
<1>2. IInv /\ PutSucceeds => IInv'   BY DEF PutSucceeds
<1>3. IInv /\ SendResult => IInv'    BY DEF SendResult, ChannelReady
<1> QED  BY <1>1, <1>2, <1>3 DEF Uploader

\* A part is recorded only when Ceph has the whole of it, and the browser is
\* told so only of a part that is recorded: UploadPart of gateway and storage.
THEOREM OnlyStoredIsRecorded == Spec => []RecordedIsStored
<1>1. IInv /\ [Next]_vars => IInv'
  <2>1. IInv /\ UNCHANGED vars => IInv'
    BY DEF IInv, ResultTrue, HandlerTrue, Verified, vars, gateway, storage, ceph
  <2> QED
    BY <2>1, GatewayKeepsIInv, HandlerKeepsIInv, UploaderKeepsIInv DEF Next
<1>2. IInv => RecordedIsStored
  BY DEF IInv, ResultTrue, HandlerTrue, Verified, RecordedIsStored
<1> QED  BY InitIInv, <1>1, <1>2, PTL DEF Spec
=============================================================================
