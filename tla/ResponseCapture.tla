-------------------------- MODULE ResponseCapture ---------------------------
(***************************************************************************)
(* The response body the middleware keeps beside the one it sends, and the *)
(* amount it takes from it (src/pkg/middleware/response_capture.go).       *)
(***************************************************************************)
EXTENDS Integers, Sequences, ValuePaths

CONSTANTS
    MaxCaptured,    \* maxCapturedResponseBytes
    MaxText,        \* the longest text that is kept, 500 in the code
    MaxWrites,      \* bound: writes of a handler
    Responses,      \* what a JSON body may hold
    TrackedFields   \* responseTrackingField of the policy, <<>> if there is none

VARIABLES
    writes,     \* the calls of Write so far
    written,    \* bytes the client was sent
    captured,   \* w.buf.Len()
    truncated,  \* w.truncated
    emptyWrite, \* a write of no bytes came when the buffer was full
    content,    \* what json.Unmarshal makes of the bytes sent, Text if it fails
    body,       \* metadata["body"], Nil if there is none
    field,      \* the tracked field
    amount,     \* the amount to fulfil
    phase       \* of the response

vars == <<writes, written, captured, truncated, emptyWrite, content, body, field, amount, phase>>

Init ==
    /\ writes = 0 /\ written = 0 /\ captured = 0
    /\ truncated = FALSE /\ emptyWrite = FALSE
    /\ content = Text /\ body = Nil
    /\ field = <<>> /\ amount = 1
    /\ phase = "routed"

(* Before the handler runs the writer is replaced by one that keeps a copy *)
(* (attachBodyCapture), and the policies say which field is tracked.       *)
Attach(f) ==
    /\ phase = "routed"
    /\ field' = f
    /\ phase' = "writing"
    /\ UNCHANGED <<writes, written, captured, truncated, emptyWrite, content, body, amount>>

-----------------------------------------------------------------------------
Smaller(m, n) == IF m < n THEN m ELSE n

\* Mutant: a body that fills the buffer exactly hides what follows.
WriteUntilFull(n) ==
    /\ phase = "writing" /\ writes < MaxWrites
    /\ writes' = writes + 1
    /\ written' = written + n
    /\ captured' = Smaller(captured + n, MaxCaptured)
    /\ truncated' = (truncated \/ (captured < MaxCaptured /\ captured + n > MaxCaptured))
    /\ emptyWrite' = (emptyWrite \/ (n = 0 /\ captured = MaxCaptured))
    /\ UNCHANGED <<content, body, field, amount, phase>>

(* Write, and WriteString: the client gets all of it, the buffer what      *)
(* fits.  A write to a full buffer counts as truncation even if it brings  *)
(* nothing.                                                                *)
Write(n) ==
    /\ phase = "writing" /\ writes < MaxWrites
    /\ writes' = writes + 1
    /\ written' = written + n
    /\ captured' = Smaller(captured + n, MaxCaptured)
    /\ truncated' = (truncated \/ captured = MaxCaptured \/ captured + n > MaxCaptured)
    /\ emptyWrite' = (emptyWrite \/ (n = 0 /\ captured = MaxCaptured))
    /\ UNCHANGED <<content, body, field, amount, phase>>

\* What stands for a body that is not kept; _truncated is a Boolean.
Placeholder(length) == Map({Key(<<"_truncated">>, Text), Key(<<"length">>, Num(length))})

\* parseCapturedResponseBody.
Parsed(c) ==
    IF captured = 0 THEN Nil
    ELSE IF truncated THEN Placeholder(captured)
    ELSE IF c # Text THEN c
    ELSE IF captured > MaxText THEN Placeholder(captured)
    ELSE Text

(* enrichFulfillMetadataWithResponse, after the handler.  A body in JSON   *)
(* has at least one byte.                                                  *)
Fulfil(c) ==
    /\ phase = "writing"
    /\ content' = c
    /\ body' = Parsed(c)
    /\ amount' = Amount(Parsed(c), field)
    /\ phase' = "fulfilled"
    /\ UNCHANGED <<writes, written, captured, truncated, emptyWrite, field>>

Next ==
    \/ \E f \in TrackedFields : Attach(f)
    \/ \E n \in 0 .. MaxCaptured + 1 : Write(n)
    \/ \E c \in Responses \cup {Text} : (written > 0 \/ c = Text) /\ Fulfil(c)

Spec == Init /\ [][Next]_vars

-----------------------------------------------------------------------------
(* Properties *)

(* A body that is kept is the body that was sent: one that lost bytes is   *)
(* replaced by a placeholder.  The other way round, a complete JSON body   *)
(* is only replaced when the handler wrote nothing to a buffer it had      *)
(* filled to the byte (response_capture.go:27-42, 58-75).                  *)
KeptIsComplete ==
    phase = "fulfilled" =>
        /\ body \in Responses \cup {Text} => body = content /\ captured = written
        /\ content # Text /\ captured = written /\ body # content => emptyWrite

(* What a response is charged: the number at the tracked path of the very  *)
(* body the client got, or one unit.  Numbers inside arrays and under keys *)
(* with dots may be tracked, but are charged as one unit; a                *)
(* placeholder is charged its length if a field of that name is tracked    *)
(* (response_capture.go:112-119).                                          *)
ChargedAsSent ==
    LET numbers == {l.value.n : l \in {m \in Numbers(content, Len(field)) :
                                         m.at = field /\ m.via \cap {"array", "dot"} = {}}}
        kept    == body \in {content, Nil}
    IN  phase = "fulfilled" =>
          \/ kept /\ amount \in IF numbers = {} THEN {1} ELSE numbers
          \/ ~kept /\ amount = IF field = <<"length">> THEN captured ELSE 1
=============================================================================
