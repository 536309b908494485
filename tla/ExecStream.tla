----------------------------- MODULE ExecStream -----------------------------
(***************************************************************************)
(* The output of one command on its way to the client: captured by the     *)
(* guest agent's limitedBuffer, cut into frames by streamResult            *)
(* (cmd/guest-agent/main.go), checked by ExecStream or Exec on the host    *)
(* (internal/core/vsock/client.go) and passed on by BridgeExecStream       *)
(* (internal/core/websocket/bridge.go).                                    *)
(*                                                                         *)
(* A byte is "a" (a character of one byte), "l" or "c" (the first and the  *)
(* second byte of a character of two).  Encoding a message as JSON turns   *)
(* every byte that is not part of a whole character into the replacement   *)
(* character, "r", which takes three bytes.                                *)
(***************************************************************************)
EXTENDS Naturals, Sequences, FiniteSets

CONSTANTS
  Chunks,               \* what a command writes at once
  MaxWritten,           \* bound: bytes one command writes
  MaxOutputBytes,       \* limit of a limitedBuffer
  MaxStreamFrameBytes,  \* largest Data of an ExecFrame
  Notice                \* the text appended to truncated output

ASSUME LimitsAssumption ==
  MaxOutputBytes \in Nat \ {0} /\ MaxStreamFrameBytes \in Nat \ {0} /\ MaxWritten \in Nat

Bytes == {"a", "l", "c"}

ASSUME TextAssumption == Chunks \subseteq Seq(Bytes) /\ Notice \in Seq(Bytes)

VARIABLES
  stream,     \* ExecRequest.Stream: ExecStream and the bridge, else Exec
  written,    \* everything the command wrote to each output
  buf, truncated,  \* limitedBuffer of each output
  guest,      \* "run", "send" or "closed"
  rest,       \* output that streamResult has still to send
  wire,       \* messages on their way to the host
  host,       \* "read", "result" or "failed"
  client,     \* client's end of the websocket: TRUE while it is there
  got,        \* output messages the client received
  lost        \* the connection to the guest broke

captureVars == <<written, buf, truncated>>
vars == <<stream, captureVars, guest, rest, wire, host, client, got, lost>>

Outputs == {"stdout", "stderr"}

Init ==
  /\ stream \in BOOLEAN
  /\ written = [o \in Outputs |-> << >>]
  /\ buf = [o \in Outputs |-> << >>]
  /\ truncated = [o \in Outputs |-> FALSE]
  /\ guest = "run"
  /\ rest = [o \in Outputs |-> << >>]
  /\ wire = << >> /\ host = "read" /\ client = TRUE /\ got = << >> /\ lost = FALSE

AtMost(n, limit) == IF n > limit THEN limit ELSE n
Take(s, n) == SubSeq(s, 1, AtMost(n, Len(s)))
Drop(s, n) == SubSeq(s, n + 1, Len(s))

(* A message after it was encoded and decoded.                             *)
Whole(s, k) ==
  \/ s[k] = "a"
  \/ s[k] = "l" /\ k < Len(s) /\ s[k + 1] = "c"
  \/ s[k] = "c" /\ k > 1 /\ s[k - 1] = "l"

Transmitted(s) == [k \in 1..Len(s) |-> IF Whole(s, k) THEN s[k] ELSE "r"]

Size(s) == Len(s) + 2 * Cardinality({k \in 1..Len(s) : s[k] = "r"})

-----------------------------------------------------------------------------
(* Faulty variant of Write: the chunk that reaches the limit is dropped as *)
(* a whole.                                                                *)
WriteDropsChunk(o, p) ==
  /\ guest = "run" /\ Len(written["stdout"]) + Len(written["stderr"]) + Len(p) <= MaxWritten
  /\ written' = [written EXCEPT ![o] = @ \o p]
  /\ LET remaining == MaxOutputBytes - Len(buf[o]) IN
       IF truncated[o] \/ Len(p) > remaining
       THEN truncated' = [truncated EXCEPT ![o] = TRUE] /\ UNCHANGED buf
       ELSE buf' = [buf EXCEPT ![o] = @ \o p] /\ UNCHANGED truncated
  /\ UNCHANGED <<stream, guest, rest, wire, host, client, got, lost>>

(* limitedBuffer.Write keeps what fits and claims to have written all.     *)
Write(o, p) ==
  /\ guest = "run" /\ Len(written["stdout"]) + Len(written["stderr"]) + Len(p) <= MaxWritten
  /\ written' = [written EXCEPT ![o] = @ \o p]
  /\ LET remaining == MaxOutputBytes - Len(buf[o]) IN
       IF truncated[o] THEN UNCHANGED <<buf, truncated>>
       ELSE /\ buf' = [buf EXCEPT ![o] = @ \o Take(p, remaining)]
            /\ truncated' = [truncated EXCEPT ![o] = Len(p) > remaining]
  /\ UNCHANGED <<stream, guest, rest, wire, host, client, got, lost>>

Captured(o) == IF truncated[o] THEN buf[o] \o Notice ELSE buf[o]

(* sendError: a result without the request's id, sent when the request     *)
(* does not decode (it has more than MaxRequestBytes, for one).            *)
Refuse ==
  /\ guest = "run" /\ written = [o \in Outputs |-> << >>]
  /\ wire' = Append(wire, [kind |-> "refused"]) /\ guest' = "closed"
  /\ UNCHANGED <<stream, captureVars, rest, host, client, got, lost>>

(* execute returns.                                                        *)
Finish ==
  /\ guest = "run" /\ guest' = "send"
  /\ rest' = [o \in Outputs |-> Captured(o)]
  /\ UNCHANGED <<stream, captureVars, wire, host, client, got, lost>>

Output(o, data) == [kind |-> "output", name |-> o, data |-> data]

(* Faulty variant of SendFrame: both outputs are sent as they come.        *)
SendFrameUnordered(o) ==
  /\ guest = "send" /\ stream /\ host = "read" /\ rest[o] # << >>
  /\ wire' = Append(wire, Output(o, Transmitted(Take(rest[o], MaxStreamFrameBytes))))
  /\ rest' = [rest EXCEPT ![o] = Drop(@, MaxStreamFrameBytes)]
  /\ UNCHANGED <<stream, captureVars, guest, host, client, got, lost>>

(* streamResult: stdout, then stderr, in frames of at most                 *)
(* MaxStreamFrameBytes; it gives up when the host is gone.                 *)
SendFrame(o) ==
  /\ guest = "send" /\ stream /\ host = "read" /\ rest[o] # << >>
  /\ o = "stderr" => rest["stdout"] = << >>
  /\ wire' = Append(wire, Output(o, Transmitted(Take(rest[o], MaxStreamFrameBytes))))
  /\ rest' = [rest EXCEPT ![o] = Drop(@, MaxStreamFrameBytes)]
  /\ UNCHANGED <<stream, captureVars, guest, host, client, got, lost>>

(* The terminal frame, or for Exec the one message with everything in it.  *)
SendResult ==
  /\ guest = "send" /\ host = "read"
  /\ stream => rest = [o \in Outputs |-> << >>]
  /\ wire' = (IF stream THEN wire
              ELSE << Output("stdout", Transmitted(rest["stdout"])),
                      Output("stderr", Transmitted(rest["stderr"])) >>)
             \o << [kind |-> "result"] >>
  /\ guest' = "closed"
  /\ UNCHANGED <<stream, captureVars, rest, host, client, got, lost>>

GiveUp ==
  /\ guest = "send" /\ host # "read" /\ guest' = "closed"
  /\ UNCHANGED <<stream, captureVars, rest, wire, host, client, got, lost>>

-----------------------------------------------------------------------------
(* The connection breaks: the VM was stopped, or a deadline passed.        *)
Lose ==
  /\ host = "read" /\ lost' = TRUE /\ host' = "failed"
  /\ UNCHANGED <<stream, captureVars, guest, rest, wire, client, got>>

ClientLeaves ==
  /\ client /\ client' = FALSE
  /\ UNCHANGED <<stream, captureVars, guest, rest, wire, host, got, lost>>

(* Faulty variant of Accepts: the length of a frame is not checked.        *)
AcceptsAnySize(m) == m.kind = "output"

(* The checks that ExecStream makes of an output frame.                    *)
Accepts(m) == m.kind = "output" /\ Size(m.data) <= MaxStreamFrameBytes

(* The bridge writes the frame to the websocket, unless the client left.   *)
receive(m) == client /\ got' = Append(got, m)

Receives ==
  /\ host = "read" /\ wire # << >> /\ wire' = Tail(wire)
  /\ UNCHANGED <<stream, captureVars, guest, rest, client, lost>>

(* One message: handed to the client, the end, or a reason to give up.     *)
ExecStreamReads ==
  /\ stream /\ Receives
  /\ LET m == Head(wire) IN
       \/ m.kind = "result" /\ host' = "result" /\ UNCHANGED got
       \/ Accepts(m) /\ receive(m) /\ UNCHANGED host
       \/ m.kind # "result" /\ ~(Accepts(m) /\ client) /\ host' = "failed" /\ UNCHANGED got

(* Exec has the one message, and no limit on it.                           *)
ExecReads ==
  /\ ~stream /\ Receives
  /\ LET m == Head(wire) IN
       \/ m.kind = "result" /\ host' = "result" /\ UNCHANGED got
       \/ m.kind = "output" /\ got' = Append(got, m) /\ UNCHANGED host
       \/ m.kind = "refused" /\ host' = "failed" /\ UNCHANGED got

-----------------------------------------------------------------------------
Next ==
  \/ \E o \in Outputs, p \in Chunks : Write(o, p)
  \/ Refuse \/ Finish \/ (\E o \in Outputs : SendFrame(o)) \/ SendResult \/ GiveUp
  \/ Lose \/ ClientLeaves \/ ExecStreamReads \/ ExecReads

Spec == Init /\ [][Next]_vars

-----------------------------------------------------------------------------
(* The buffer holds the first MaxOutputBytes that were written, whatever   *)
(* the sizes of the writes, and is marked truncated when there were more.  *)
CaptureExact ==
  \A o \in Outputs :
    /\ buf[o] = Take(written[o], MaxOutputBytes)
    /\ truncated[o] <=> Len(written[o]) > MaxOutputBytes

Pending(o) == {k \in 1..Len(wire) : wire[k].kind = "output" /\ wire[k].name = o}

(* Output reaches the client in protocol order: never stdout after stderr, *)
(* and no result while output is still under way or was never sent.        *)
ProtocolOrder ==
  /\ \A j, k \in 1..Len(got) : j < k /\ got[j].name = "stderr" => got[k].name = "stderr"
  /\ host = "result" => /\ \A o \in Outputs : Pending(o) = {}
                        /\ stream => \A o \in Outputs : rest[o] = << >>

(* The data of output o in a sequence of messages, put together.           *)
Joined(messages, o) ==
  LET upTo[k \in 0..Len(messages)] ==
        IF k = 0 THEN << >>
        ELSE upTo[k - 1] \o (IF messages[k].name = o THEN messages[k].data ELSE << >>)
  IN  upTo[Len(messages)]

Received(o) == Joined(got, o)

WholeText(s) == \A k \in 1..Len(s) : Whole(s, k)

(* The result of a whole execution is exact: when the client has the       *)
(* result, what it has of a text is the text as it was captured, although  *)
(* frames are cut without regard to characters.                            *)
TextExact ==
  host = "result" => \A o \in Outputs :
    WholeText(Captured(o)) => Received(o) = Captured(o)

(* Frames are capped ("Streaming frames capped at **64 KiB**."), on the    *)
(* host's side as well as on the guest's.                                  *)
FrameCap ==
  stream => \A k \in 1..Len(wire) :
              wire[k].kind = "output" => Size(wire[k].data) <= MaxStreamFrameBytes
=============================================================================
