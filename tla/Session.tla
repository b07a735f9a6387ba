------------------------------- MODULE Session -------------------------------
(***************************************************************************)
(* One run of an operation, seen from the serial line: the guest sends     *)
(* length-prefixed messages byte by byte, the host's SerialDecoder picks   *)
(* them out of the bytes until the guest halts or the machine fails.       *)
(*                                                                         *)
(* The vCPU exits to the host on every byte, so a byte is sent and decoded *)
(* in one step.  A CPU exception may strike between any two bytes; the     *)
(* handler then sends its own message behind the part already sent.  What  *)
(* the decoder makes of such a mixture is left open: it may fail, or yield *)
(* any message.                                                            *)
(***************************************************************************)
EXTENDS Naturals, Sequences, FiniteSets

CONSTANTS
    Reports,    \* messages of an operation other than its result
    Size,       \* the encoded size of each message
    Base,       \* values of a byte; a length has two bytes, low one first
    Pay,        \* the bytes of each message's encoding
    MaxMessage, \* guest_protocol::MAX_MESSAGE_SIZE
    Margin,     \* what the host's buffer allows above it
    MaxSends    \* bound on the reports of a run

Messages == Reports \cup {"result", "complete", "panic", "exception"}
Header == 2

ASSUME SessionAssumption ==
    /\ Base \in Nat \ {0} /\ MaxMessage \in Nat /\ Margin \in Nat /\ MaxSends \in Nat
    /\ MaxMessage + Header <= Base * Base
    /\ "none" \notin Reports
    /\ Size \in [Messages -> Nat]
    /\ Pay \in [Messages -> [1..MaxMessage -> 0..(Base - 1)]]

VARIABLES
    guest,      \* boot, run, sending, spin, halted or shutdown
    cur,        \* the message being sent
    pos,        \* bytes of it sent
    after,      \* what the guest does when it is sent
    inHandler,  \* IN_HANDLER: the exception handler has been entered
    sends,      \* reports so far
    buf,        \* SerialDecoder.buffer
    heard,      \* the messages the decoder returned
    sent,       \* the messages sent to their last byte
    cut,        \* the guest has left a message in the middle
    verdict     \* how the run loop ended

guestVars == <<guest, cur, pos, after, inHandler, sends, sent, cut>>
vars == <<guest, cur, pos, after, inHandler, sends, buf, heard, sent, cut, verdict>>

(***************************************************************************)
(* encode_framed.  A byte is its value and, for the decoder's verdict on a *)
(* whole encoding, the message and the place it comes from.                *)
(***************************************************************************)
Byte(m, i) ==
    [v |-> CASE i = 1 -> Size[m] % Base
             [] i = 2 -> Size[m] \div Base
             [] OTHER -> Pay[m][i - Header],
     of |-> m, at |-> i]

FrameLen(m) == Header + Size[m]
Encodable(m) == Size[m] <= MaxMessage

(***************************************************************************)
(* SerialDecoder::add_byte: what it returns and the buffer it leaves.      *)
(***************************************************************************)
None == "none"
Claimed(b) == Header + b[1].v + Base * b[2].v
MaxBuffer == Header + MaxMessage + Margin

\* decode_framed on a buffer that holds all the bytes it claims.
Decoded(b) ==
    LET whole == {m \in Messages : Claimed(b) = FrameLen(m)
                                     /\ \A i \in 1..FrameLen(m) : b[i] = Byte(m, i)}
    IN  IF whole # {} THEN whole ELSE Messages \cup {None}

\* Mutant of AddByte: the decoded bytes stay in the buffer.
AddByteKeeps(b) ==
    IF Len(b) < Header THEN {[buf |-> b, msg |-> None]}
    ELSE IF Claimed(b) > MaxBuffer THEN {[buf |-> Tail(b), msg |-> None]}
    ELSE IF Len(b) < Claimed(b) THEN {[buf |-> b, msg |-> None]}
    ELSE {[buf |-> Tail(b), msg |-> m] : m \in Decoded(b)}

AddByte(b) ==
    IF Len(b) < Header THEN {[buf |-> b, msg |-> None]}
    ELSE IF Claimed(b) > MaxBuffer THEN {[buf |-> Tail(b), msg |-> None]}
    ELSE IF Len(b) < Claimed(b) THEN {[buf |-> b, msg |-> None]}
    ELSE {[buf |-> IF m = None THEN Tail(b) ELSE SubSeq(b, Claimed(b) + 1, Len(b)),
           msg |-> m] : m \in Decoded(b)}

(***************************************************************************)
(* The guest.                                                              *)
(***************************************************************************)
Init ==
    /\ guest = "boot" /\ cur = "complete" /\ pos = 0 /\ after = "run"
    /\ inHandler = FALSE /\ sends = 0
    /\ buf = <<>> /\ heard = <<>> /\ sent = <<>>
    /\ cut = FALSE /\ verdict = None

\* send_message: a message that does not encode is dropped.
Send(m, then) ==
    IF Encodable(m)
    THEN guest' = "sending" /\ cur' = m /\ pos' = 0 /\ after' = then
    ELSE guest' = then /\ UNCHANGED <<cur, pos, after>>

Install ==
    /\ guest = "boot"
    /\ guest' = "run"
    /\ UNCHANGED <<cur, pos, after, inHandler, sends, buf, heard, sent, cut, verdict>>

Report(m) ==
    /\ guest = "run" /\ sends < MaxSends
    /\ sends' = sends + 1
    /\ Send(m, "run")
    /\ UNCHANGED <<inHandler, buf, heard, sent, cut, verdict>>

\* The operation sends its result and returns; the core completes and halts.
Answer ==
    /\ guest = "run" /\ "result" \notin {sent[k] : k \in DOMAIN sent}
    /\ Send("result", "run")
    /\ UNCHANGED <<inHandler, sends, buf, heard, sent, cut, verdict>>

Complete ==
    /\ guest = "run"
    /\ Send("complete", "halted")
    /\ UNCHANGED <<inHandler, sends, buf, heard, sent, cut, verdict>>

\* A panic in the core reports and halts; one in an operation spins.
Panic ==
    /\ guest = "run"
    /\ \/ Send("panic", "halted")
       \/ guest' = "spin" /\ UNCHANGED <<cur, pos, after>>
    /\ UNCHANGED <<inHandler, sends, buf, heard, sent, cut, verdict>>

SendByte ==
    /\ guest = "sending"
    /\ pos' = pos + 1
    /\ LET last == pos + 1 = FrameLen(cur)
       IN  /\ guest' = IF last THEN after ELSE guest
           /\ sent' = IF last THEN Append(sent, cur) ELSE sent
    /\ \E r \in AddByte(Append(buf, Byte(cur, pos + 1))) :
          /\ buf' = r.buf
          /\ heard' = IF r.msg = None THEN heard ELSE Append(heard, r.msg)
    /\ UNCHANGED <<cur, after, inHandler, sends, cut, verdict>>

MidMessage == guest = "sending" /\ pos > 0

\* isr_handler: reports and halts; an exception inside it halts at once.
Exception ==
    /\ guest \in {"run", "sending"}
    /\ cut' = (cut \/ MidMessage)
    /\ IF inHandler
       THEN guest' = "halted" /\ UNCHANGED <<cur, pos, after, inHandler>>
       ELSE inHandler' = TRUE /\ Send("exception", "halted")
    /\ UNCHANGED <<sends, buf, heard, sent, verdict>>

\* No handler is installed yet, or the handler's stub cannot run.
TripleFault ==
    /\ guest \in {"boot", "run", "sending"}
    /\ guest' = "shutdown"
    /\ cut' = (cut \/ MidMessage)
    /\ UNCHANGED <<cur, pos, after, inHandler, sends, buf, heard, sent, verdict>>

\* KVM refuses to go on, a device cannot be served, or the host gives up.
VmFails ==
    /\ guest \notin {"halted", "shutdown"}
    /\ guest' = "shutdown"
    /\ cut' = (cut \/ MidMessage)
    /\ UNCHANGED <<cur, pos, after, inHandler, sends, buf, heard, sent, verdict>>

(***************************************************************************)
(* The host leaves its run loop on Hlt, or on an exit it cannot serve.     *)
(* What it then makes of the run depends on the command.                   *)
(***************************************************************************)
End ==
    /\ guest \in {"halted", "shutdown"} /\ verdict = None
    /\ UNCHANGED <<guestVars, buf, heard>>

Next ==
    \/ Install \/ Answer \/ Complete \/ Panic \/ SendByte \/ Exception \/ TripleFault
    \/ VmFails \/ End
    \/ \E m \in Reports : Report(m)

Spec == Init /\ [][Next]_vars

(***************************************************************************)
(* Properties.                                                             *)
(***************************************************************************)
\* Unless the guest is struck inside a message, the host has heard exactly
\* the messages sent so far, in order, and holds no byte of them back: the
\* decoder finds every boundary although it looks once per arriving byte.
Delivered ==
    ~cut => /\ heard = sent
            /\ guest # "sending" => buf = <<>>

\* The buffer of the decoder stays within its limit on any sequence of bytes,
\* also where it has lost the boundaries.
Bounded == Len(buf) < MaxBuffer
=============================================================================
