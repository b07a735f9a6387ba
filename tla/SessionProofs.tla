---------------------------- MODULE SessionProofs ----------------------------
(***************************************************************************)
(* The decoder's buffer is bounded on any bytes, and every message the     *)
(* guest sends whole is heard, for every set of messages and every size,   *)
(* under every command; and what each command tells the user of a run is   *)
(* what its guest sent.                                                    *)
(***************************************************************************)
EXTENDS HostRun, TLAPS

ByteType == [v : Nat, of : Messages, at : Nat]

\* What a guest in the middle of a send is sending.
TypeInv ==
    /\ cur \in Messages
    /\ pos \in Nat
    /\ after \in {"run", "halted"}
    /\ buf \in Seq(ByteType)
    /\ heard \in Seq(Messages)
    /\ sent \in Seq(Messages)
    /\ cut \in BOOLEAN
    /\ guest = "sending" => Encodable(cur) /\ pos < FrameLen(cur)

\* The buffer holds what has been sent of the current message, and no more.
Aligned ==
    ~cut => /\ heard = sent
            /\ guest # "sending" => buf = <<>>
            /\ guest = "sending" => /\ Len(buf) = pos
                                    /\ \A i \in 1..pos : buf[i] = Byte(cur, i)

\* A two-byte length is read back as it was written.
LEMMA DivMod ==
    ASSUME NEW x \in Nat, NEW b \in Nat \ {0}
    PROVE  /\ x % b \in Nat
           /\ x \div b \in Nat
           /\ 2 + (x % b) + b * (x \div b) = 2 + x
  BY SMT

\* Every byte of an encodable message is a byte.
LEMMA ByteTyped ==
    ASSUME NEW m \in Messages, Encodable(m), NEW i \in 1..FrameLen(m)
    PROVE  Byte(m, i) \in ByteType
  <1>1. Size[m] \in Nat /\ Base \in Nat \ {0}
    BY SessionAssumption DEF SessionAssumption
  <1>2. CASE i = 1
    <2>1. Size[m] % Base \in Nat
      BY <1>1, DivMod
    <2> QED BY <1>2, <2>1 DEF Byte, ByteType
  <1>3. CASE i = 2
    <2>1. Size[m] \div Base \in Nat
      BY <1>1, DivMod
    <2> QED BY <1>3, <2>1 DEF Byte, ByteType
  <1>4. CASE i # 1 /\ i # 2
    <2>1. i - Header \in 1..MaxMessage
      BY <1>1, <1>4, SessionAssumption DEF SessionAssumption, FrameLen, Header, Encodable
    <2>2. Pay[m][i - Header] \in Nat
      BY <2>1, SessionAssumption DEF SessionAssumption
    <2>3. i \in Nat
      BY <1>1 DEF FrameLen, Header
    <2> QED BY <1>4, <2>2, <2>3 DEF Byte, ByteType
  <1> QED BY <1>2, <1>3, <1>4

\* What a step of the decoder can do to the buffer.
LEMMA AddByteShrinks ==
    ASSUME NEW b \in Seq(ByteType), Len(b) > 0, Len(b) <= MaxBuffer,
           NEW r \in AddByte(b)
    PROVE  /\ r.buf \in Seq(ByteType)
           /\ Len(r.buf) < MaxBuffer
           /\ r.msg \in Messages \cup {None}
  <1>1. /\ MaxBuffer \in Nat /\ Header < MaxBuffer + 1 /\ Base \in Nat
    BY SessionAssumption DEF SessionAssumption, MaxBuffer, Header
  <1>2. CASE Len(b) < Header
    <2>1. r = [buf |-> b, msg |-> None]
      BY <1>2 DEF AddByte
    <2> QED BY <1>1, <1>2, <2>1 DEF Header
  <1>3. CASE Len(b) >= Header
    <2>1. b[1] \in ByteType /\ b[2] \in ByteType
      BY <1>3 DEF Header
    <2>2. Claimed(b) \in Nat /\ Claimed(b) >= Header
      <3>1. b[1].v \in Nat /\ b[2].v \in Nat
        BY <2>1 DEF ByteType
      <3>2. ASSUME NEW x \in Nat, NEW y \in Nat
            PROVE  Header + x + Base * y \in Nat /\ Header + x + Base * y >= Header
        <4>1. Base * y \in Nat
          BY <1>1
        <4> HIDE <1>1
        <4> QED BY <4>1 DEF Header
      <3> QED BY <3>1, <3>2 DEF Claimed
    <2>3. Tail(b) \in Seq(ByteType) /\ Len(Tail(b)) = Len(b) - 1
      OBVIOUS
    <2>4. CASE Claimed(b) > MaxBuffer
      <3>1. r = [buf |-> Tail(b), msg |-> None]
        BY <1>3, <2>4 DEF AddByte, Header
      <3> QED BY <1>1, <2>3, <3>1
    <2>5. CASE ~(Claimed(b) > MaxBuffer) /\ Len(b) < Claimed(b)
      <3>1. r = [buf |-> b, msg |-> None]
        BY <1>3, <2>5 DEF AddByte, Header
      <3> QED BY <1>1, <2>2, <2>5, <3>1
    <2>6. CASE ~(Claimed(b) > MaxBuffer) /\ ~(Len(b) < Claimed(b))
      <3>1. PICK m \in Decoded(b) :
              r = [buf |-> IF m = None THEN Tail(b)
                           ELSE SubSeq(b, Claimed(b) + 1, Len(b)), msg |-> m]
        BY <1>3, <2>6 DEF AddByte, Header
      <3>2. m \in Messages \cup {None}
        BY <3>1 DEF Decoded
      <3>3. /\ SubSeq(b, Claimed(b) + 1, Len(b)) \in Seq(ByteType)
            /\ Len(SubSeq(b, Claimed(b) + 1, Len(b))) = Len(b) - Claimed(b)
        BY <2>2, <2>6
      <3> QED BY <1>1, <2>2, <2>3, <3>1, <3>2, <3>3 DEF Header
    <2> QED BY <2>4, <2>5, <2>6
  <1> QED BY <1>2, <1>3 DEF Header

\* The decoder on the first n bytes of a message and nothing else.
LEMMA AddByteAligned ==
    ASSUME NEW b \in Seq(ByteType), NEW m \in Messages, Encodable(m),
           Len(b) \in 1..FrameLen(m), \A i \in 1..Len(b) : b[i] = Byte(m, i),
           NEW r \in AddByte(b)
    PROVE  IF Len(b) = FrameLen(m) THEN r.buf = <<>> /\ r.msg = m
                                   ELSE r.buf = b /\ r.msg = None
  <1>1. /\ Size[m] \in Nat /\ Base \in Nat \ {0} /\ MaxMessage \in Nat /\ Margin \in Nat
        /\ None \notin Messages
    BY SessionAssumption DEF SessionAssumption, None, Messages
  <1>2. CASE Len(b) < Header
    <2>1. r = [buf |-> b, msg |-> None]
      BY <1>2 DEF AddByte
    <2>2. Len(b) # FrameLen(m)
      BY <1>1, <1>2 DEF FrameLen, Header
    <2> QED BY <2>1, <2>2
  <1>3. CASE Len(b) >= Header
    <2>1. b[1] = Byte(m, 1) /\ b[2] = Byte(m, 2)
      BY <1>3 DEF Header
    <2>2. b[1].v = Size[m] % Base /\ b[2].v = Size[m] \div Base
      BY <2>1 DEF Byte
    <2>3. Claimed(b) = FrameLen(m)
      <3>1. 2 + (Size[m] % Base) + Base * (Size[m] \div Base) = 2 + Size[m]
        BY <1>1, DivMod
      <3> QED BY <2>2, <3>1, Zenon DEF Claimed, FrameLen, Header
    <2>4. ~(Claimed(b) > MaxBuffer)
      BY <1>1, <2>3 DEF MaxBuffer, FrameLen, Encodable, Header
    <2>5. CASE Len(b) < FrameLen(m)
      <3>1. r = [buf |-> b, msg |-> None]
        BY <1>3, <2>3, <2>4, <2>5 DEF AddByte, Header
      <3> QED BY <2>5, <3>1
    <2>6. CASE Len(b) = FrameLen(m)
      <3>1. Decoded(b) = {m}
        <4> DEFINE whole == {n \in Messages : Claimed(b) = FrameLen(n)
                                     /\ \A i \in 1..FrameLen(n) : b[i] = Byte(n, i)}
        <4>1. m \in whole
          BY <2>3, <2>6
        <4>2. ASSUME NEW n \in whole PROVE n = m
          <5>1. 1 \in 1..FrameLen(n)
            BY <1>1, <2>3 DEF FrameLen, Header
          <5>2. b[1] = Byte(n, 1)
            BY <5>1
          <5> QED BY <2>1, <5>2 DEF Byte
        <4>3. whole = {m}
          BY <4>1, <4>2
        <4> QED BY <4>3 DEF Decoded
      <3>2. r = [buf |-> SubSeq(b, Claimed(b) + 1, Len(b)), msg |-> m]
        BY <1>1, <1>3, <2>3, <2>4, <2>6, <3>1 DEF AddByte, Header
      <3>3. SubSeq(b, Claimed(b) + 1, Len(b)) = <<>>
        BY <2>3, <2>6
      <3> QED BY <2>6, <3>2, <3>3
    <2> QED BY <1>1, <2>5, <2>6 DEF FrameLen, Header
  <1> QED BY <1>2, <1>3 DEF Header

\* A send that begins keeps what TypeInv says of the message being sent.
LEMMA SendTyped ==
    ASSUME TypeInv, NEW m \in Messages, NEW then \in {"run", "halted"}, Send(m, then),
           UNCHANGED <<buf, heard, sent>>, cut' \in BOOLEAN
    PROVE  TypeInv'
  <1>1. Size[m] \in Nat
    BY SessionAssumption DEF SessionAssumption
  <1>2. CASE Encodable(m)
    <2>1. guest' = "sending" /\ cur' = m /\ pos' = 0 /\ after' = then
      BY <1>2 DEF Send
    <2>2. Encodable(cur)' /\ (pos < FrameLen(cur))'
      BY <1>1, <1>2, <2>1 DEF Encodable, FrameLen, Header
    <2> QED BY <2>1, <2>2 DEF TypeInv
  <1>3. CASE ~Encodable(m)
    <2>1. guest' = then /\ UNCHANGED <<cur, pos, after>>
      BY <1>3 DEF Send
    <2> QED BY <2>1 DEF TypeInv
  <1> QED BY <1>2, <1>3

\* And leaves the empty buffer aligned with it.
LEMMA SendAligned ==
    ASSUME TypeInv, Aligned, ~cut' => ~cut /\ buf = <<>>,
           NEW m \in Messages, NEW then \in {"run", "halted"}, Send(m, then),
           UNCHANGED <<buf, heard, sent>>
    PROVE  Aligned'
  BY DEF Aligned, Send, TypeInv

\* Outside a message the aligned buffer is empty.
LEMMA NothingHeld ==
    ASSUME TypeInv, Aligned, ~cut, ~MidMessage
    PROVE  buf = <<>>
  <1>1. CASE guest # "sending"
    BY <1>1 DEF Aligned
  <1>2. CASE guest = "sending"
    <2>1. pos = 0 /\ pos \in Nat /\ buf \in Seq(ByteType)
      BY <1>2 DEF MidMessage, TypeInv
    <2>2. Len(buf) = 0
      BY <1>2, <2>1 DEF Aligned
    <2> QED BY <2>1, <2>2
  <1> QED BY <1>1, <1>2

\* One byte: the decoder's lemmas carried to the state.
LEMMA SendByteStep ==
    ASSUME TypeInv, Bounded, SendByte
    PROVE  /\ TypeInv' /\ Bounded'
           /\ Aligned => Aligned'
  <1> DEFINE b == Append(buf, Byte(cur, pos + 1))
             last == pos + 1 = FrameLen(cur)
  <1>1. /\ cur \in Messages /\ pos \in Nat /\ buf \in Seq(ByteType)
        /\ Encodable(cur) /\ pos < FrameLen(cur) /\ FrameLen(cur) \in Nat
        /\ Size[cur] \in Nat /\ MaxBuffer \in Nat
    BY SessionAssumption DEF SessionAssumption, TypeInv, SendByte, FrameLen, Header, MaxBuffer
  <1>2. pos + 1 \in 1..FrameLen(cur)
    BY <1>1
  <1>3. Byte(cur, pos + 1) \in ByteType
    BY <1>1, <1>2, ByteTyped
  <1>4. /\ b \in Seq(ByteType) /\ Len(b) = Len(buf) + 1
        /\ \A i \in 1..Len(buf) : b[i] = buf[i]
        /\ b[Len(buf) + 1] = Byte(cur, pos + 1)
    BY <1>1, <1>3
  <1>5. Len(b) > 0 /\ Len(b) <= MaxBuffer
    BY <1>1, <1>4 DEF Bounded
  <1>6. PICK r \in AddByte(b) :
          /\ buf' = r.buf
          /\ heard' = IF r.msg = None THEN heard ELSE Append(heard, r.msg)
    BY DEF SendByte
  <1>7. /\ pos' = pos + 1 /\ guest' = (IF last THEN after ELSE guest)
        /\ sent' = (IF last THEN Append(sent, cur) ELSE sent)
        /\ UNCHANGED <<cur, after, cut>> /\ guest = "sending"
    BY DEF SendByte
  <1> HIDE DEF b, last
  <1>8. /\ r.buf \in Seq(ByteType) /\ Len(r.buf) < MaxBuffer
        /\ r.msg \in Messages \cup {None}
    BY <1>4, <1>5, AddByteShrinks
  <1>9. heard' \in Seq(Messages) /\ sent' \in Seq(Messages)
    BY <1>1, <1>6, <1>7, <1>8 DEF TypeInv
  <1>10. TypeInv'
    <2>1. pos' \in Nat /\ cur' \in Messages /\ after' \in {"run", "halted"}
          /\ cut' \in BOOLEAN /\ buf' \in Seq(ByteType)
      BY <1>1, <1>6, <1>7, <1>8 DEF TypeInv
    <2>2. guest' = "sending" => Encodable(cur)' /\ (pos < FrameLen(cur))'
      BY <1>1, <1>2, <1>7 DEF TypeInv, last, Encodable, FrameLen
    <2> QED BY <1>9, <2>1, <2>2 DEF TypeInv
  <1>11. Bounded'
    BY <1>6, <1>8 DEF Bounded, MaxBuffer
  <1>12. ASSUME Aligned PROVE Aligned'
    <2>1. SUFFICES ASSUME ~cut' PROVE Aligned'
      BY DEF Aligned
    <2>2. heard = sent /\ Len(buf) = pos /\ \A i \in 1..pos : buf[i] = Byte(cur, i)
      BY <1>7, <1>12, <2>1 DEF Aligned
    <2>3. Len(b) = pos + 1 /\ \A i \in 1..(pos + 1) : b[i] = Byte(cur, i)
      BY <1>1, <1>4, <2>2
    <2>4. IF Len(b) = FrameLen(cur) THEN r.buf = <<>> /\ r.msg = cur
                                    ELSE r.buf = b /\ r.msg = None
      BY <1>1, <1>2, <1>4, <2>3, AddByteAligned
    <2>5. CASE last
      <3>1. buf' = <<>> /\ heard' = Append(heard, cur) /\ sent' = Append(sent, cur)
        BY <1>1, <1>6, <1>7, <2>3, <2>4, <2>5, SessionAssumption
        DEF last, None, SessionAssumption, Messages
      <3>2. guest' # "sending"
        BY <1>7, <2>5 DEF TypeInv
      <3> QED BY <2>2, <3>1, <3>2 DEF Aligned
    <2>6. CASE ~last
      <3>1. buf' = b /\ heard' = heard /\ sent' = sent /\ guest' = "sending"
        BY <1>6, <1>7, <2>3, <2>4, <2>6 DEF last
      <3>2. (\A i \in 1..pos : buf[i] = Byte(cur, i))'
        BY <1>7, <2>3, <3>1 DEF Byte
      <3> QED BY <1>7, <2>2, <2>3, <3>1, <3>2 DEF Aligned
    <2> QED BY <2>5, <2>6
  <1> QED BY <1>10, <1>11, <1>12

\* Every step of the session preserves the type and the bound, and keeps
\* the buffer aligned while it is.
LEMMA Inductive ==
    ASSUME TypeInv, Bounded, [Next]_vars
    PROVE  /\ TypeInv' /\ Bounded'
           /\ Aligned => Aligned'
  <1>1. CASE SendByte
    BY <1>1, SendByteStep
  <1>2. ASSUME ~SendByte, Next PROVE UNCHANGED buf
    BY <1>2 DEF Next, Install, Report, Answer, Complete, Panic, Exception, TripleFault, VmFails,
                End, guestVars
  <1>3. CASE Install
    BY <1>3 DEF Install, TypeInv, Bounded, Aligned, MaxBuffer
  <1>4. ASSUME NEW m \in Reports, Report(m)
        PROVE  TypeInv' /\ Bounded' /\ (Aligned => Aligned')
    <2>1. m \in Messages
      BY DEF Messages
    <2>2. TypeInv'
      BY <1>4, <2>1, SendTyped DEF Report, TypeInv
    <2>3. ASSUME Aligned PROVE Aligned'
      BY <1>4, <2>1, <2>3, SendAligned DEF Report, Aligned
    <2> QED BY <1>4, <2>2, <2>3 DEF Report, Bounded, MaxBuffer
  <1>5. CASE Answer
    <2>1. TypeInv'
      BY <1>5, SendTyped DEF Answer, TypeInv, Messages
    <2>2. ASSUME Aligned PROVE Aligned'
      BY <1>5, <2>2, SendAligned DEF Answer, Aligned, Messages
    <2> QED BY <1>5, <2>1, <2>2 DEF Answer, Bounded, MaxBuffer
  <1>6. CASE Complete
    <2>1. TypeInv'
      BY <1>6, SendTyped DEF Complete, TypeInv, Messages
    <2>2. ASSUME Aligned PROVE Aligned'
      BY <1>6, <2>2, SendAligned DEF Complete, Aligned, Messages
    <2> QED BY <1>6, <2>1, <2>2 DEF Complete, Bounded, MaxBuffer
  <1>7. CASE Panic
    <2>1. CASE Send("panic", "halted")
      <3>1. TypeInv'
        BY <1>7, <2>1, SendTyped DEF Panic, TypeInv, Messages
      <3>2. ASSUME Aligned PROVE Aligned'
        BY <1>7, <2>1, <3>2, SendAligned DEF Panic, Aligned, Messages
      <3> QED BY <1>7, <3>1, <3>2 DEF Panic, Bounded, MaxBuffer
    <2>2. CASE guest' = "spin" /\ UNCHANGED <<cur, pos, after>>
      BY <1>7, <2>2 DEF Panic, TypeInv, Bounded, Aligned, MaxBuffer
    <2> QED BY <1>7, <2>1, <2>2 DEF Panic
  <1>8. CASE Exception
    <2>1. CASE inHandler
      <3>1. /\ guest' = "halted" /\ UNCHANGED <<cur, pos, after, buf, heard, sent>>
            /\ cut' = (cut \/ MidMessage)
        BY <1>8, <2>1 DEF Exception
      <3>2. TypeInv' /\ Bounded'
        BY <3>1 DEF TypeInv, Bounded, MaxBuffer
      <3>3. ASSUME Aligned, ~cut' PROVE Aligned'
        BY <3>1, <3>3, NothingHeld DEF Aligned
      <3>4. Aligned => Aligned'
        BY <3>3 DEF Aligned
      <3> QED BY <3>2, <3>4
    <2>2. CASE ~inHandler
      <3>1. Send("exception", "halted") /\ UNCHANGED <<buf, heard, sent>>
            /\ cut' = (cut \/ MidMessage)
        BY <1>8, <2>2 DEF Exception
      <3>2. TypeInv'
        BY <3>1, SendTyped DEF TypeInv, Messages
      <3>3. ASSUME Aligned PROVE Aligned'
        <4>1. ~cut' => ~cut /\ buf = <<>>
          BY <3>1, <3>3, NothingHeld
        <4> QED BY <3>1, <3>3, <4>1, SendAligned DEF Messages
      <3> QED BY <3>1, <3>2, <3>3 DEF Bounded, MaxBuffer
    <2> QED BY <2>1, <2>2
  <1>9. CASE TripleFault
    <2>1. ASSUME Aligned, ~cut' PROVE Aligned'
      BY <1>9, <2>1, NothingHeld DEF TripleFault, Aligned
    <2>2. Aligned => Aligned'
      BY <2>1 DEF Aligned
    <2>3. TypeInv'
      BY <1>9 DEF TripleFault, TypeInv
    <2> QED BY <1>9, <2>2, <2>3 DEF TripleFault, Bounded, MaxBuffer
  <1>10. CASE End
    BY <1>10 DEF End, guestVars, TypeInv, Bounded, Aligned, MaxBuffer
  <1>11. CASE VmFails
    <2>1. ASSUME Aligned, ~cut' PROVE Aligned'
      BY <1>11, <2>1, NothingHeld DEF VmFails, Aligned
    <2>2. Aligned => Aligned'
      BY <2>1 DEF Aligned
    <2>3. TypeInv'
      BY <1>11 DEF VmFails, TypeInv
    <2> QED BY <1>11, <2>2, <2>3 DEF VmFails, Bounded, MaxBuffer
  <1>12. CASE UNCHANGED vars
    BY <1>12 DEF vars, TypeInv, Bounded, Aligned, MaxBuffer
  <1> QED BY <1>1, <1>3, <1>4, <1>5, <1>6, <1>7, <1>8, <1>9, <1>10, <1>11, <1>12 DEF Next

\* Nothing is sent, heard or held at the start.
LEMMA Initial ==
    ASSUME Init
    PROVE  TypeInv /\ Bounded /\ Aligned
  <1>1. TypeInv
    <2>1. buf \in Seq(ByteType) /\ heard \in Seq(Messages) /\ sent \in Seq(Messages)
      BY DEF Init
    <2>2. cur \in Messages
      BY DEF Init, Messages
    <2>3. pos \in Nat /\ after \in {"run", "halted"} /\ guest # "sending"
      BY DEF Init
    <2>4. cut \in BOOLEAN
      BY Zenon DEF Init
    <2> QED BY <2>1, <2>2, <2>3, <2>4 DEF TypeInv
  <1>2. Bounded
    BY SessionAssumption DEF Init, Bounded, MaxBuffer, Header, SessionAssumption
  <1>3. Aligned
    BY DEF Init, Aligned
  <1> QED BY <1>1, <1>2, <1>3

\* The decoder's buffer never reaches its limit, whatever the bytes: for
\* every message set, sizes, margin and byte alphabet.
THEOREM BufferBounded == Spec => []Bounded
  <1>1. Init => TypeInv /\ Bounded
    BY Initial
  <1>2. TypeInv /\ Bounded /\ [Next]_vars => (TypeInv /\ Bounded)'
    BY Inductive
  <1> QED BY <1>1, <1>2, PTL DEF Spec

\* While no message is left in the middle, the host has heard exactly what
\* the guest has sent, in order, and keeps no byte back between messages.
THEOREM AllDelivered == Spec => []Delivered
  <1>1. Init => TypeInv /\ Bounded /\ Aligned
    BY Initial
  <1>2. TypeInv /\ Bounded /\ Aligned /\ [Next]_vars => (TypeInv /\ Bounded /\ Aligned)'
    BY Inductive
  <1>3. Aligned => Delivered
    BY DEF Aligned, Delivered
  <1> QED BY <1>1, <1>2, <1>3, PTL DEF Spec

-----------------------------------------------------------------------------
(***************************************************************************)
(* Every command's run is a session on the serial line, so that what is    *)
(* proved of the line holds for each of them.                              *)
(***************************************************************************)

\* What a guest reports under a command is a report of the session.
LEMMA ReportsKnown ==
    ASSUME NEW c PROVE ReportsOf(c) \subseteq Reports
  <1>1. RefusalsOf(c) \subseteq Refusals
    BY DEF RefusalsOf, Refusals
  <1>2. Refusals \subseteq Reports /\ "start" \in Reports
    BY HostAssumption DEF HostAssumption
  <1> QED BY <1>1, <1>2 DEF ReportsOf

\* Whatever the command does with a run, its steps on the line are the
\* session's own.
LEMMA HostSteps ==
    ASSUME [HostNext]_<<vars, hostVars>>
    PROVE  [Next]_vars
  <1>1. CASE GuestStep /\ UNCHANGED hostVars
    BY <1>1 DEF GuestStep, Next
  <1>2. CASE HostReport
    <2>1. PICK m \in ReportsOf(command) : Report(m)
      BY <1>2 DEF HostReport
    <2>2. m \in Reports
      BY <2>1, ReportsKnown
    <2> QED BY <2>1, <2>2 DEF Next
  <1>3. CASE HostAnswer
    BY <1>3 DEF HostAnswer, Next
  <1>4. CASE HostByte
    BY <1>4 DEF HostByte, Next
  <1>5. CASE HostEnd
    BY <1>5 DEF HostEnd, Next
  <1>6. CASE UNCHANGED <<vars, hostVars>>
    BY <1>6
  <1> QED BY <1>1, <1>2, <1>3, <1>4, <1>5, <1>6 DEF HostNext

\* The run of every command, with what the host harvests, prints and
\* concludes, implements the session on the serial line.
THEOREM HostIsSession == HostSpec => Spec
  <1>1. HostInit => Init
    BY DEF HostInit
  <1>2. [HostNext]_<<vars, hostVars>> => [Next]_vars
    BY HostSteps
  <1> QED BY <1>1, <1>2, PTL DEF HostSpec, Spec

\* Under every command the host hears exactly the messages its guest sends,
\* in order, and holds nothing back between them.
THEOREM HostDelivers == HostSpec => []Delivered
  BY HostIsSession, AllDelivered, PTL

-----------------------------------------------------------------------------
(***************************************************************************)
(* What a command makes of a run.  A verdict is the first of its rules that*)
(* holds; the lemmas below read each command's rules as a chain of         *)
(* questions, and the invariants relate what the questions ask about to    *)
(* what the guest sent.                                                    *)
(***************************************************************************)

\* FirstOf finds the first rule that holds.
LEMMA FirstIs ==
    ASSUME NEW n \in Nat, NEW rules, DOMAIN rules = 1..n, NEW i \in 1..n, rules[i][1],
           \A j \in 1..(i - 1) : ~rules[j][1]
    PROVE  FirstOf(rules) = rules[i][2]
<1> DEFINE hit == {k \in DOMAIN rules : rules[k][1]}
<1>1. i \in hit /\ \A j \in hit : i <= j
  OBVIOUS
<1>2. \A k \in hit : (\A j \in hit : k <= j) => k = i
  BY <1>1
<1>3. (CHOOSE k \in hit : \A j \in hit : k <= j) = i
  <2> HIDE DEF hit
  <2> QED BY <1>1, <1>2
<1> QED BY <1>3 DEF FirstOf

\* The commands of the front end.
Known == {"probe", "bench", "resize", "amend", "bitmap", "rebase", "commit", "create", "info",
          "copy", "check", "compare", "convert", "measure", "map", "list", "snapshot"}

\* Only "ok" is exit code zero.
LEMMA ExitZero == ASSUME NEW v PROVE ExitCode(v) = 0 <=> v = "ok"
<1>1. v = "ok" => ExitCode(v) = 0
  BY DEF ExitCode
<1>2. v # "ok" => ExitCode(v) \in {1, 2, 3, 63}
  BY DEF ExitCode
<1> QED BY <1>1, <1>2

\* What the guests answer.
LEMMA AnswersAre ==
    /\ Answers("check") \subseteq {"ok", "leaks", "errors", "unsupported"}
    /\ \A c \in Known : c # "check" => Answers(c) \subseteq {"ok", "error"}
    /\ Answers("probe") = {"ok"}
    /\ ~Whole("start") => Answers("bench") = {"error"}
<1>1. ASSUME NEW c \in Known, c # "check" PROVE Answers(c) \subseteq {"ok", "error"}
  BY <1>1 DEF Answers
<1>2. Answers("check") \subseteq {"ok", "leaks", "errors", "unsupported"}
  BY DEF Answers
<1>3. Answers("probe") = {"ok"}
  BY DEF Answers
<1>4. ~Whole("start") => Answers("bench") = {"error"}
  BY DEF Answers
<1> QED BY <1>1, <1>2, <1>3, <1>4

\* And what they refuse.
LEMMA RefusalsAre ==
    /\ RefusalsOf("check") = {"differencing"} /\ RefusalsOf("map") = {"l2 entry"}
    /\ \A c \in Known \ {"bench", "rebase", "compare", "convert", "measure", "check", "map"} :
          RefusalsOf(c) = {}
BY DEF RefusalsOf, Refusals, Readers

\* Of two rules, the last of which always holds.
LEMMA First2 ==
    ASSUME NEW R, DOMAIN R = 1..2, R[2][1]
    PROVE  FirstOf(R) = IF R[1][1] THEN R[1][2] ELSE R[2][2]
<1>1. \A i \in 1..2 : R[i][1] /\ (\A j \in 1..(i - 1) : ~R[j][1]) => FirstOf(R) = R[i][2]
  BY FirstIs
<1>2. R[1][1] => FirstOf(R) = R[1][2]
  BY <1>1
<1>3. R[2][1] /\ ~R[1][1] => FirstOf(R) = R[2][2]
  BY <1>1
<1> QED BY <1>2, <1>3

\* Of three rules, the last of which always holds.
LEMMA First3 ==
    ASSUME NEW R, DOMAIN R = 1..3, R[3][1]
    PROVE  FirstOf(R) = IF R[1][1] THEN R[1][2] ELSE IF R[2][1] THEN R[2][2] ELSE
                        R[3][2]
<1>1. \A i \in 1..3 : R[i][1] /\ (\A j \in 1..(i - 1) : ~R[j][1]) => FirstOf(R) = R[i][2]
  BY FirstIs
<1>2. R[1][1] => FirstOf(R) = R[1][2]
  BY <1>1
<1>3. R[2][1] /\ ~R[1][1] => FirstOf(R) = R[2][2]
  BY <1>1
<1>4. R[3][1] /\ ~R[1][1] /\ ~R[2][1] => FirstOf(R) = R[3][2]
  BY <1>1
<1> QED BY <1>2, <1>3, <1>4

\* Of four rules, the last of which always holds.
LEMMA First4 ==
    ASSUME NEW R, DOMAIN R = 1..4, R[4][1]
    PROVE  FirstOf(R) = IF R[1][1] THEN R[1][2] ELSE IF R[2][1] THEN R[2][2] ELSE
                        IF R[3][1] THEN R[3][2] ELSE R[4][2]
<1>1. \A i \in 1..4 : R[i][1] /\ (\A j \in 1..(i - 1) : ~R[j][1]) => FirstOf(R) = R[i][2]
  BY FirstIs
<1>2. R[1][1] => FirstOf(R) = R[1][2]
  BY <1>1
<1>3. R[2][1] /\ ~R[1][1] => FirstOf(R) = R[2][2]
  BY <1>1
<1>4. R[3][1] /\ ~R[1][1] /\ ~R[2][1] => FirstOf(R) = R[3][2]
  BY <1>1
<1>5. R[4][1] /\ ~R[1][1] /\ ~R[2][1] /\ ~R[3][1] => FirstOf(R) = R[4][2]
  BY <1>1
<1> QED BY <1>2, <1>3, <1>4, <1>5

\* Of five rules, the last of which always holds.
LEMMA First5 ==
    ASSUME NEW R, DOMAIN R = 1..5, R[5][1]
    PROVE  FirstOf(R) = IF R[1][1] THEN R[1][2] ELSE IF R[2][1] THEN R[2][2] ELSE
                        IF R[3][1] THEN R[3][2] ELSE IF R[4][1] THEN R[4][2] ELSE
                        R[5][2]
<1>1. \A i \in 1..5 : R[i][1] /\ (\A j \in 1..(i - 1) : ~R[j][1]) => FirstOf(R) = R[i][2]
  BY FirstIs
<1>2. R[1][1] => FirstOf(R) = R[1][2]
  BY <1>1
<1>3. R[2][1] /\ ~R[1][1] => FirstOf(R) = R[2][2]
  BY <1>1
<1>4. R[3][1] /\ ~R[1][1] /\ ~R[2][1] => FirstOf(R) = R[3][2]
  BY <1>1
<1>5. R[4][1] /\ ~R[1][1] /\ ~R[2][1] /\ ~R[3][1] => FirstOf(R) = R[4][2]
  BY <1>1
<1>6. R[5][1] /\ ~R[1][1] /\ ~R[2][1] /\ ~R[3][1] /\ ~R[4][1] => FirstOf(R) = R[5][2]
  BY <1>1
<1> QED BY <1>2, <1>3, <1>4, <1>5, <1>6

\* Of six rules, the last of which always holds.
LEMMA First6 ==
    ASSUME NEW R, DOMAIN R = 1..6, R[6][1]
    PROVE  FirstOf(R) = IF R[1][1] THEN R[1][2] ELSE IF R[2][1] THEN R[2][2] ELSE
                        IF R[3][1] THEN R[3][2] ELSE IF R[4][1] THEN R[4][2] ELSE
                        IF R[5][1] THEN R[5][2] ELSE R[6][2]
<1>1. \A i \in 1..6 : R[i][1] /\ (\A j \in 1..(i - 1) : ~R[j][1]) => FirstOf(R) = R[i][2]
  BY FirstIs
<1>2. R[1][1] => FirstOf(R) = R[1][2]
  BY <1>1
<1>3. R[2][1] /\ ~R[1][1] => FirstOf(R) = R[2][2]
  BY <1>1
<1>4. R[3][1] /\ ~R[1][1] /\ ~R[2][1] => FirstOf(R) = R[3][2]
  BY <1>1
<1>5. R[4][1] /\ ~R[1][1] /\ ~R[2][1] /\ ~R[3][1] => FirstOf(R) = R[4][2]
  BY <1>1
<1>6. R[5][1] /\ ~R[1][1] /\ ~R[2][1] /\ ~R[3][1] /\ ~R[4][1] => FirstOf(R) = R[5][2]
  BY <1>1
<1>7. R[6][1] /\ ~R[1][1] /\ ~R[2][1] /\ ~R[3][1] /\ ~R[4][1] /\ ~R[5][1] => FirstOf(R) = R[6][2]
  BY <1>1
<1> QED BY <1>2, <1>3, <1>4, <1>5, <1>6, <1>7

\* Of seven rules, the last of which always holds.
LEMMA First7 ==
    ASSUME NEW R, DOMAIN R = 1..7, R[7][1]
    PROVE  FirstOf(R) = IF R[1][1] THEN R[1][2] ELSE IF R[2][1] THEN R[2][2] ELSE
                        IF R[3][1] THEN R[3][2] ELSE IF R[4][1] THEN R[4][2] ELSE
                        IF R[5][1] THEN R[5][2] ELSE IF R[6][1] THEN R[6][2] ELSE
                        R[7][2]
<1>1. \A i \in 1..7 : R[i][1] /\ (\A j \in 1..(i - 1) : ~R[j][1]) => FirstOf(R) = R[i][2]
  BY FirstIs
<1>2. R[1][1] => FirstOf(R) = R[1][2]
  BY <1>1
<1>3. R[2][1] /\ ~R[1][1] => FirstOf(R) = R[2][2]
  BY <1>1
<1>4. R[3][1] /\ ~R[1][1] /\ ~R[2][1] => FirstOf(R) = R[3][2]
  BY <1>1
<1>5. R[4][1] /\ ~R[1][1] /\ ~R[2][1] /\ ~R[3][1] => FirstOf(R) = R[4][2]
  BY <1>1
<1>6. R[5][1] /\ ~R[1][1] /\ ~R[2][1] /\ ~R[3][1] /\ ~R[4][1] => FirstOf(R) = R[5][2]
  BY <1>1
<1>7. R[6][1] /\ ~R[1][1] /\ ~R[2][1] /\ ~R[3][1] /\ ~R[4][1] /\ ~R[5][1] => FirstOf(R) = R[6][2]
  BY <1>1
<1>8. R[7][1] /\ ~R[1][1] /\ ~R[2][1] /\ ~R[3][1] /\ ~R[4][1] /\ ~R[5][1] /\ ~R[6][1]
        => FirstOf(R) = R[7][2]
  BY <1>1
<1> QED BY <1>2, <1>3, <1>4, <1>5, <1>6, <1>7, <1>8

\* Of eight rules, the last of which always holds.
LEMMA First8 ==
    ASSUME NEW R, DOMAIN R = 1..8, R[8][1]
    PROVE  FirstOf(R) = IF R[1][1] THEN R[1][2] ELSE IF R[2][1] THEN R[2][2] ELSE
                        IF R[3][1] THEN R[3][2] ELSE IF R[4][1] THEN R[4][2] ELSE
                        IF R[5][1] THEN R[5][2] ELSE IF R[6][1] THEN R[6][2] ELSE
                        IF R[7][1] THEN R[7][2] ELSE R[8][2]
<1>1. \A i \in 1..8 : R[i][1] /\ (\A j \in 1..(i - 1) : ~R[j][1]) => FirstOf(R) = R[i][2]
  BY FirstIs
<1>2. R[1][1] => FirstOf(R) = R[1][2]
  BY <1>1
<1>3. R[2][1] /\ ~R[1][1] => FirstOf(R) = R[2][2]
  BY <1>1
<1>4. R[3][1] /\ ~R[1][1] /\ ~R[2][1] => FirstOf(R) = R[3][2]
  BY <1>1
<1>5. R[4][1] /\ ~R[1][1] /\ ~R[2][1] /\ ~R[3][1] => FirstOf(R) = R[4][2]
  BY <1>1
<1>6. R[5][1] /\ ~R[1][1] /\ ~R[2][1] /\ ~R[3][1] /\ ~R[4][1] => FirstOf(R) = R[5][2]
  BY <1>1
<1>7. R[6][1] /\ ~R[1][1] /\ ~R[2][1] /\ ~R[3][1] /\ ~R[4][1] /\ ~R[5][1] => FirstOf(R) = R[6][2]
  BY <1>1
<1>8. R[7][1] /\ ~R[1][1] /\ ~R[2][1] /\ ~R[3][1] /\ ~R[4][1] /\ ~R[5][1] /\ ~R[6][1]
        => FirstOf(R) = R[7][2]
  BY <1>1
<1>9. R[8][1] /\ ~R[1][1] /\ ~R[2][1] /\ ~R[3][1] /\ ~R[4][1] /\ ~R[5][1] /\ ~R[6][1] /\ ~R[7][1]
        => FirstOf(R) = R[8][2]
  BY <1>1
<1> QED BY <1>2, <1>3, <1>4, <1>5, <1>6, <1>7, <1>8, <1>9

\* What probe makes of a run.
LEMMA ProbeIs ==
    Verdict("probe") =
      IF guest = "shutdown" THEN "vm error"
      ELSE IF ~Heard("result") THEN "no result"
      ELSE "ok"
<1> DEFINE R == <<VmError, NoAnswer, Success>>
<1>1. Verdict("probe") = FirstOf(R)
  BY DEF Verdict, ProbeVerdict
<1>2. DOMAIN R = 1..3 /\ R[3][1]
  BY DEF Success
<1>3. /\ (R[1][1] <=> guest = "shutdown") /\ (R[2][1] <=> ~Heard("result"))
  BY DEF VmError, NoAnswer, Success
<1>4. /\ R[1][2] = "vm error" /\ R[2][2] = "no result" /\ R[3][2] = "ok"
  BY DEF VmError, NoAnswer, Success
<1> HIDE DEF R
<1>5. FirstOf(R) = IF R[1][1] THEN R[1][2] ELSE IF R[2][1] THEN R[2][2] ELSE
                  R[3][2]
  BY <1>2, First3
<1> QED BY <1>1, <1>3, <1>4, <1>5

\* What info, copy make of a run.
LEMMA InfoIs ==
    \A c \in {"info", "copy"} : Verdict(c) =
      IF guest = "shutdown" THEN "vm error"
      ELSE "ok"
<1> DEFINE R == <<VmError, Success>>
<1>1. \A c \in {"info", "copy"} : Verdict(c) = FirstOf(R)
  BY DEF Verdict, InfoVerdict, CopyVerdict
<1>2. DOMAIN R = 1..2 /\ R[2][1]
  BY DEF Success
<1>3. /\ (R[1][1] <=> guest = "shutdown")
  BY DEF VmError, Success
<1>4. /\ R[1][2] = "vm error" /\ R[2][2] = "ok"
  BY DEF VmError, Success
<1> HIDE DEF R
<1>5. FirstOf(R) = IF R[1][1] THEN R[1][2] ELSE R[2][2]
  BY <1>2, First2
<1> QED BY <1>1, <1>3, <1>4, <1>5

\* What resize, amend, bitmap, commit, create make of a run.
LEMMA ResizeIs ==
    \A c \in {"resize", "amend", "bitmap", "commit", "create"} : Verdict(c) =
      IF guest = "shutdown" THEN "vm error"
      ELSE IF ~Heard("result") /\ Heard("exception") THEN "cpu exception"
      ELSE IF ~Heard("result") THEN "no result"
      ELSE IF reply = "error" THEN "guest error"
      ELSE "ok"
<1> DEFINE R == <<VmError, Struck, NoAnswer, GuestError, Success>>
<1>1. \A c \in {"resize", "amend", "bitmap", "commit", "create"} : Verdict(c) = FirstOf(R)
  BY DEF Verdict, ResizeVerdict, AmendVerdict, BitmapVerdict, CommitVerdict, CreateVerdict
<1>2. DOMAIN R = 1..5 /\ R[5][1]
  BY DEF Success
<1>3. /\ (R[1][1] <=> guest = "shutdown")
      /\ (R[2][1] <=> ~Heard("result") /\ Heard("exception"))
      /\ (R[3][1] <=> ~Heard("result")) /\ (R[4][1] <=> reply = "error")
  BY DEF VmError, Struck, NoAnswer, GuestError, Success
<1>4. /\ R[1][2] = "vm error" /\ R[2][2] = "cpu exception" /\ R[3][2] = "no result"
      /\ R[4][2] = "guest error" /\ R[5][2] = "ok"
  BY DEF VmError, Struck, NoAnswer, GuestError, Success
<1> HIDE DEF R
<1>5. FirstOf(R) = IF R[1][1] THEN R[1][2] ELSE IF R[2][1] THEN R[2][2] ELSE
                  IF R[3][1] THEN R[3][2] ELSE IF R[4][1] THEN R[4][2] ELSE
                  R[5][2]
  BY <1>2, First5
<1> QED BY <1>1, <1>3, <1>4, <1>5

\* What rebase, measure make of a run.
LEMMA RebaseIs ==
    \A c \in {"rebase", "measure"} : Verdict(c) =
      IF guest = "shutdown" THEN "vm error"
      ELSE IF Heard("differencing") THEN "differencing"
      ELSE IF Heard("l2 entry") THEN "l2 entry"
      ELSE IF ~Heard("result") /\ Heard("exception") THEN "cpu exception"
      ELSE IF ~Heard("result") THEN "no result"
      ELSE IF reply = "error" THEN "guest error"
      ELSE "ok"
<1> DEFINE R == <<VmError, Differencing, L2Entry, Struck, NoAnswer, GuestError, Success>>
<1>1. \A c \in {"rebase", "measure"} : Verdict(c) = FirstOf(R)
  BY DEF Verdict, RebaseVerdict, MeasureVerdict
<1>2. DOMAIN R = 1..7 /\ R[7][1]
  BY DEF Success
<1>3. /\ (R[1][1] <=> guest = "shutdown") /\ (R[2][1] <=> Heard("differencing"))
      /\ (R[3][1] <=> Heard("l2 entry"))
      /\ (R[4][1] <=> ~Heard("result") /\ Heard("exception"))
      /\ (R[5][1] <=> ~Heard("result")) /\ (R[6][1] <=> reply = "error")
  BY DEF VmError, Differencing, L2Entry, Struck, NoAnswer, GuestError, Success
<1>4. /\ R[1][2] = "vm error" /\ R[2][2] = "differencing" /\ R[3][2] = "l2 entry"
      /\ R[4][2] = "cpu exception" /\ R[5][2] = "no result" /\ R[6][2] = "guest error"
      /\ R[7][2] = "ok"
  BY DEF VmError, Differencing, L2Entry, Struck, NoAnswer, GuestError, Success
<1> HIDE DEF R
<1>5. FirstOf(R) = IF R[1][1] THEN R[1][2] ELSE IF R[2][1] THEN R[2][2] ELSE
                  IF R[3][1] THEN R[3][2] ELSE IF R[4][1] THEN R[4][2] ELSE
                  IF R[5][1] THEN R[5][2] ELSE IF R[6][1] THEN R[6][2] ELSE
                  R[7][2]
  BY <1>2, First7
<1> QED BY <1>1, <1>3, <1>4, <1>5

\* What bench makes of a run.
LEMMA BenchIs ==
    Verdict("bench") =
      IF guest = "shutdown" THEN "vm error"
      ELSE IF Heard("differencing") THEN "differencing"
      ELSE IF Heard("l2 entry") THEN "l2 entry"
      ELSE IF ~Heard("result") /\ Heard("exception") THEN "cpu exception"
      ELSE IF ~Heard("result") THEN "no result"
      ELSE IF reply = "error" THEN "guest error"
      ELSE IF ~Before("start", "result") THEN "no start"
      ELSE "ok"
<1> DEFINE R == <<VmError, Differencing, L2Entry, Struck, NoAnswer, GuestError,
                   <<~Before("start", "result"), "no start">>, Success>>
<1>1. Verdict("bench") = FirstOf(R)
  BY DEF Verdict, BenchVerdict
<1>2. DOMAIN R = 1..8 /\ R[8][1]
  BY DEF Success
<1>3. /\ (R[1][1] <=> guest = "shutdown") /\ (R[2][1] <=> Heard("differencing"))
      /\ (R[3][1] <=> Heard("l2 entry"))
      /\ (R[4][1] <=> ~Heard("result") /\ Heard("exception"))
      /\ (R[5][1] <=> ~Heard("result")) /\ (R[6][1] <=> reply = "error")
      /\ (R[7][1] <=> ~Before("start", "result"))
  BY DEF VmError, Differencing, L2Entry, Struck, NoAnswer, GuestError, Success
<1>4. /\ R[1][2] = "vm error" /\ R[2][2] = "differencing" /\ R[3][2] = "l2 entry"
      /\ R[4][2] = "cpu exception" /\ R[5][2] = "no result" /\ R[6][2] = "guest error"
      /\ R[7][2] = "no start" /\ R[8][2] = "ok"
  BY DEF VmError, Differencing, L2Entry, Struck, NoAnswer, GuestError, Success
<1> HIDE DEF R
<1>5. FirstOf(R) = IF R[1][1] THEN R[1][2] ELSE IF R[2][1] THEN R[2][2] ELSE
                  IF R[3][1] THEN R[3][2] ELSE IF R[4][1] THEN R[4][2] ELSE
                  IF R[5][1] THEN R[5][2] ELSE IF R[6][1] THEN R[6][2] ELSE
                  IF R[7][1] THEN R[7][2] ELSE R[8][2]
  BY <1>2, First8
<1> QED BY <1>1, <1>3, <1>4, <1>5

\* What check makes of a run.
LEMMA CheckIs ==
    Verdict("check") =
      IF guest = "shutdown" THEN "vm error"
      ELSE IF Heard("differencing") THEN "differencing"
      ELSE IF ~Heard("result") THEN "no result"
      ELSE IF reply = "unsupported" THEN "unsupported"
      ELSE IF reply = "errors" THEN "errors"
      ELSE IF reply = "leaks" THEN "leaks"
      ELSE "ok"
<1> DEFINE R == <<VmError, Differencing, NoAnswer,
                   <<reply = "unsupported", "unsupported">>,
                   <<reply = "errors", "errors">>, <<reply = "leaks", "leaks">>, Success>>
<1>1. Verdict("check") = FirstOf(R)
  BY DEF Verdict, CheckVerdict
<1>2. DOMAIN R = 1..7 /\ R[7][1]
  BY DEF Success
<1>3. /\ (R[1][1] <=> guest = "shutdown") /\ (R[2][1] <=> Heard("differencing"))
      /\ (R[3][1] <=> ~Heard("result")) /\ (R[4][1] <=> reply = "unsupported")
      /\ (R[5][1] <=> reply = "errors") /\ (R[6][1] <=> reply = "leaks")
  BY DEF VmError, Differencing, NoAnswer, Success
<1>4. /\ R[1][2] = "vm error" /\ R[2][2] = "differencing" /\ R[3][2] = "no result"
      /\ R[4][2] = "unsupported" /\ R[5][2] = "errors" /\ R[6][2] = "leaks"
      /\ R[7][2] = "ok"
  BY DEF VmError, Differencing, NoAnswer, Success
<1> HIDE DEF R
<1>5. FirstOf(R) = IF R[1][1] THEN R[1][2] ELSE IF R[2][1] THEN R[2][2] ELSE
                  IF R[3][1] THEN R[3][2] ELSE IF R[4][1] THEN R[4][2] ELSE
                  IF R[5][1] THEN R[5][2] ELSE IF R[6][1] THEN R[6][2] ELSE
                  R[7][2]
  BY <1>2, First7
<1> QED BY <1>1, <1>3, <1>4, <1>5

\* What compare makes of a run.
LEMMA CompareIs ==
    Verdict("compare") =
      IF guest = "shutdown" THEN "vm error"
      ELSE IF Heard("differencing") THEN "differencing"
      ELSE IF Heard("l2 entry") THEN "l2 entry"
      ELSE IF ~Heard("result") THEN "no result"
      ELSE IF reply = "error" THEN "differs"
      ELSE "ok"
<1> DEFINE R == <<VmError, Differencing, L2Entry, NoAnswer,
                   <<reply = "error", "differs">>, Success>>
<1>1. Verdict("compare") = FirstOf(R)
  BY DEF Verdict, CompareVerdict
<1>2. DOMAIN R = 1..6 /\ R[6][1]
  BY DEF Success
<1>3. /\ (R[1][1] <=> guest = "shutdown") /\ (R[2][1] <=> Heard("differencing"))
      /\ (R[3][1] <=> Heard("l2 entry")) /\ (R[4][1] <=> ~Heard("result"))
      /\ (R[5][1] <=> reply = "error")
  BY DEF VmError, Differencing, L2Entry, NoAnswer, Success
<1>4. /\ R[1][2] = "vm error" /\ R[2][2] = "differencing" /\ R[3][2] = "l2 entry"
      /\ R[4][2] = "no result" /\ R[5][2] = "differs" /\ R[6][2] = "ok"
  BY DEF VmError, Differencing, L2Entry, NoAnswer, Success
<1> HIDE DEF R
<1>5. FirstOf(R) = IF R[1][1] THEN R[1][2] ELSE IF R[2][1] THEN R[2][2] ELSE
                  IF R[3][1] THEN R[3][2] ELSE IF R[4][1] THEN R[4][2] ELSE
                  IF R[5][1] THEN R[5][2] ELSE R[6][2]
  BY <1>2, First6
<1> QED BY <1>1, <1>3, <1>4, <1>5

\* What map makes of a run.
LEMMA MapIs ==
    Verdict("map") =
      IF guest = "shutdown" THEN "vm error"
      ELSE IF pipe THEN "ok"
      ELSE IF Heard("l2 entry") THEN "l2 entry"
      ELSE IF ~Heard("result") THEN "no result"
      ELSE IF reply = "error" THEN "guest error"
      ELSE "ok"
<1> DEFINE R == <<VmError, <<pipe, "ok">>, L2Entry, NoAnswer, GuestError, Success>>
<1>1. Verdict("map") = FirstOf(R)
  BY DEF Verdict, MapVerdict
<1>2. DOMAIN R = 1..6 /\ R[6][1]
  BY DEF Success
<1>3. /\ (R[1][1] <=> guest = "shutdown") /\ (R[2][1] <=> pipe)
      /\ (R[3][1] <=> Heard("l2 entry")) /\ (R[4][1] <=> ~Heard("result"))
      /\ (R[5][1] <=> reply = "error")
  BY DEF VmError, L2Entry, NoAnswer, GuestError, Success
<1>4. /\ R[1][2] = "vm error" /\ R[2][2] = "ok" /\ R[3][2] = "l2 entry"
      /\ R[4][2] = "no result" /\ R[5][2] = "guest error" /\ R[6][2] = "ok"
  BY DEF VmError, L2Entry, NoAnswer, GuestError, Success
<1> HIDE DEF R
<1>5. FirstOf(R) = IF R[1][1] THEN R[1][2] ELSE IF R[2][1] THEN R[2][2] ELSE
                  IF R[3][1] THEN R[3][2] ELSE IF R[4][1] THEN R[4][2] ELSE
                  IF R[5][1] THEN R[5][2] ELSE R[6][2]
  BY <1>2, First6
<1> QED BY <1>1, <1>3, <1>4, <1>5

\* What list makes of a run.
LEMMA ListIs ==
    Verdict("list") =
      IF guest = "shutdown" THEN "vm error"
      ELSE IF pipe THEN "ok"
      ELSE IF ~Heard("result") THEN "no result"
      ELSE IF reply = "error" THEN "guest error"
      ELSE "ok"
<1> DEFINE R == <<VmError, <<pipe, "ok">>, NoAnswer, GuestError, Success>>
<1>1. Verdict("list") = FirstOf(R)
  BY DEF Verdict, ListVerdict
<1>2. DOMAIN R = 1..5 /\ R[5][1]
  BY DEF Success
<1>3. /\ (R[1][1] <=> guest = "shutdown") /\ (R[2][1] <=> pipe)
      /\ (R[3][1] <=> ~Heard("result")) /\ (R[4][1] <=> reply = "error")
  BY DEF VmError, NoAnswer, GuestError, Success
<1>4. /\ R[1][2] = "vm error" /\ R[2][2] = "ok" /\ R[3][2] = "no result"
      /\ R[4][2] = "guest error" /\ R[5][2] = "ok"
  BY DEF VmError, NoAnswer, GuestError, Success
<1> HIDE DEF R
<1>5. FirstOf(R) = IF R[1][1] THEN R[1][2] ELSE IF R[2][1] THEN R[2][2] ELSE
                  IF R[3][1] THEN R[3][2] ELSE IF R[4][1] THEN R[4][2] ELSE
                  R[5][2]
  BY <1>2, First5
<1> QED BY <1>1, <1>3, <1>4, <1>5

\* What snapshot makes of a run.
LEMMA SnapshotIs ==
    Verdict("snapshot") =
      IF guest = "shutdown" THEN "vm error"
      ELSE IF ~Heard("result") THEN "no result"
      ELSE IF reply = "error" THEN "guest error"
      ELSE "ok"
<1> DEFINE R == <<VmError, NoAnswer, GuestError, Success>>
<1>1. Verdict("snapshot") = FirstOf(R)
  BY DEF Verdict, SnapshotVerdict
<1>2. DOMAIN R = 1..4 /\ R[4][1]
  BY DEF Success
<1>3. /\ (R[1][1] <=> guest = "shutdown") /\ (R[2][1] <=> ~Heard("result"))
      /\ (R[3][1] <=> reply = "error")
  BY DEF VmError, NoAnswer, GuestError, Success
<1>4. /\ R[1][2] = "vm error" /\ R[2][2] = "no result" /\ R[3][2] = "guest error"
      /\ R[4][2] = "ok"
  BY DEF VmError, NoAnswer, GuestError, Success
<1> HIDE DEF R
<1>5. FirstOf(R) = IF R[1][1] THEN R[1][2] ELSE IF R[2][1] THEN R[2][2] ELSE
                  IF R[3][1] THEN R[3][2] ELSE R[4][2]
  BY <1>2, First4
<1> QED BY <1>1, <1>3, <1>4, <1>5

\* What convert makes of a run: it asks only where the guest or the machine failed.
LEMMA ConvertIs ==
    /\ guest # "shutdown" /\ reply # "error" => Verdict("convert") = "ok"
    /\ guest = "shutdown" => Verdict("convert") = "vm error"
    /\ guest # "shutdown" /\ reply = "error" =>
         Verdict("convert") = IF Heard("differencing") THEN "differencing"
                              ELSE IF Heard("l2 entry") THEN "l2 entry"
                              ELSE "guest error"
<1> DEFINE R == <<VmError, Differencing, L2Entry, GuestError>>
<1>1. Verdict("convert") = IF guest # "shutdown" /\ reply # "error" THEN "ok" ELSE FirstOf(R)
  BY DEF Verdict, ConvertVerdict
<1>2. DOMAIN R = 1..4
  OBVIOUS
<1>3. /\ (R[1][1] <=> guest = "shutdown") /\ (R[2][1] <=> Heard("differencing"))
      /\ (R[3][1] <=> Heard("l2 entry")) /\ (R[4][1] <=> reply = "error")
  BY DEF VmError, Differencing, L2Entry, GuestError
<1>4. /\ R[1][2] = "vm error" /\ R[2][2] = "differencing" /\ R[3][2] = "l2 entry"
      /\ R[4][2] = "guest error"
  BY DEF VmError, Differencing, L2Entry, GuestError
<1> HIDE DEF R
<1>5. R[1][1] => FirstOf(R) = R[1][2]
  <2>1. \A i \in 1..4 : R[i][1] /\ (\A j \in 1..(i - 1) : ~R[j][1]) => FirstOf(R) = R[i][2]
    BY <1>2, FirstIs
  <2> QED BY <2>1
<1>6. R[4][1] => FirstOf(R) = IF R[1][1] THEN R[1][2] ELSE IF R[2][1] THEN R[2][2]
                              ELSE IF R[3][1] THEN R[3][2] ELSE R[4][2]
  BY <1>2, First4
<1> QED BY <1>1, <1>3, <1>4, <1>5, <1>6

\* The guest is sending m.
Sending(m) == guest = "sending" /\ cur = m

\* What the guest has sent and said: it refuses only what its command
\* refuses, sends one result, the last of its operation's messages, and puts
\* into it an answer that agrees with what it has sent.
GuestInv ==
    /\ \A m \in Refusals : Whole(m) \/ Sending(m) => m \in RefusalsOf(command)
    /\ Sending("result") => ~Whole("result")
    /\ Sending("result") \/ Whole("result") => said \in Answers(command)
    /\ Whole("result") => \A m \in Reports : ~Sending(m)
    /\ \A i, j \in DOMAIN sent : sent[i] \in Reports /\ sent[j] = "result" => i < j

\* What the host holds of it, while nothing is cut.
HeldInv ==
    /\ command \in Commands /\ (pipe => command \in Streams)
    /\ pipe \in BOOLEAN /\ shown \in BOOLEAN
    /\ ~cut /\ Whole("result") => reply = said
    /\ ~cut /\ shown => Whole("result") /\ \A m \in RefusalsOf(command) : ~Whole(m)

\* The verdict is that of the run as it stands: nothing happens after it.
EndInv ==
    verdict # None => guest \in {"halted", "shutdown"} /\ verdict = Verdict(command)

\* Where the guest refused, no command but check answers with a success.
LEMMA AnswersRefused ==
    /\ \A c \in Known \ {"check", "info", "probe", "copy"} : Refused => Answers(c) = {"error"}
    /\ Refused => Answers("check") = {"ok"}
    /\ \A c \in {"info", "probe", "copy"} : Answers(c) = {"ok"}
<1>1. ASSUME NEW c \in Known \ {"check", "info", "probe", "copy"}, Refused
      PROVE  Answers(c) = {"error"}
  BY <1>1 DEF Answers, Known
<1>2. ASSUME Refused PROVE Answers("check") = {"ok"}
  BY <1>2 DEF Answers
<1>3. ASSUME NEW c \in {"info", "probe", "copy"} PROVE Answers(c) = {"ok"}
  BY DEF Answers
<1> QED BY <1>1, <1>2, <1>3

\* What was sent, in the words of the verdict's rules.
LEMMA EndFacts ==
    ASSUME Aligned, TypeInv, GuestInv, HeldInv, ~cut
    PROVE  /\ \A m : Heard(m) <=> Whole(m)
           /\ command \in Known
           /\ Refused <=> Whole("differencing") \/ Whole("l2 entry")
           /\ \A m \in Refusals : Whole(m) => m \in RefusalsOf(command)
           /\ Whole("result") => said \in Answers(command) /\ reply = said
           /\ Whole("start") /\ Whole("result") => Before("start", "result")
<1>1. heard = sent
  BY DEF Aligned
<1>2. \A m : Heard(m) <=> Whole(m)
  BY <1>1 DEF Heard, Whole
<1>3. command \in Known
  BY HostAssumption DEF HostAssumption, HeldInv, Known
<1>4. \A m \in Refusals : Whole(m) => m \in RefusalsOf(command)
  BY DEF GuestInv
<1>5. Whole("result") => said \in Answers(command) /\ reply = said
  BY DEF GuestInv, HeldInv
<1>6. ASSUME Whole("start"), Whole("result") PROVE Before("start", "result")
  <2>1. PICK i \in DOMAIN sent, j \in DOMAIN sent : sent[i] = "start" /\ sent[j] = "result"
    BY <1>6 DEF Whole
  <2>2. "start" \in Reports
    BY HostAssumption DEF HostAssumption
  <2>3. i < j
    BY <2>1, <2>2 DEF GuestInv
  <2> QED BY <1>1, <2>1, <2>3 DEF Before
<1> QED BY <1>2, <1>3, <1>4, <1>5, <1>6 DEF Refused, Refusals

\* The verdict a command reaches explains the run.
LEMMA VerdictExplains ==
    ASSUME Aligned, TypeInv, GuestInv, HeldInv, EndInv
    PROVE  Explained
<1> SUFFICES ASSUME verdict # None, ~cut PROVE Explained
  BY DEF Explained
<1>1. guest \in {"halted", "shutdown"} /\ verdict = Verdict(command)
  BY DEF EndInv
<1>2. ExitCode(verdict) = 0 <=> verdict = "ok"
  BY ExitZero
<1>3. shown => ~Whole("differencing") /\ ~Whole("l2 entry")
  BY EndFacts DEF HeldInv, Refusals
<1>4. pipe \in BOOLEAN /\ (pipe => command \in {"map", "list"})
  BY DEF HeldInv, Streams
<1>5. /\ command \in Known
      /\ Refused <=> Whole("differencing") \/ Whole("l2 entry")
      /\ \A m \in Refusals : Whole(m) => m \in RefusalsOf(command)
      /\ Whole("result") => said \in Answers(command) /\ reply = said
  BY EndFacts
<1>6. CASE command = "probe"
  <2>1. verdict =
        IF guest = "shutdown" THEN "vm error"
        ELSE IF ~Whole("result") THEN "no result"
        ELSE "ok"
    BY <1>1, <1>6, EndFacts, ProbeIs
  <2>2. Whole("result") => reply = said /\ said = "ok"
    BY <1>5, <1>6, EndFacts, AnswersAre, AnswersRefused DEF Known
  <2>3. ~Refused
    BY <1>5, <1>6, RefusalsAre DEF Known, Refusals
  <2> QED BY <1>1, <1>2, <1>3, <1>4, <1>5, <1>6, <2>1, <2>2, <2>3
         DEF Explained, Refusals, Unasking, Naming
<1>7. CASE command \in {"info", "copy"}
  <2>1. verdict =
        IF guest = "shutdown" THEN "vm error"
        ELSE "ok"
    BY <1>1, <1>7, EndFacts, InfoIs
  <2>2. Whole("result") => reply = said /\ said = "ok"
    BY <1>5, <1>7, EndFacts, AnswersAre, AnswersRefused DEF Known
  <2>3. ~Refused
    BY <1>5, <1>7, RefusalsAre DEF Known, Refusals
  <2> QED BY <1>1, <1>2, <1>3, <1>4, <1>5, <1>7, <2>1, <2>2, <2>3
         DEF Explained, Refusals, Unasking, Naming
<1>8. CASE command \in {"resize", "amend", "bitmap", "commit", "create"}
  <2>1. verdict =
        IF guest = "shutdown" THEN "vm error"
        ELSE IF ~Whole("result") /\ Whole("exception") THEN "cpu exception"
        ELSE IF ~Whole("result") THEN "no result"
        ELSE IF reply = "error" THEN "guest error"
        ELSE "ok"
    BY <1>1, <1>8, EndFacts, ResizeIs
  <2>2. Whole("result") => reply = said /\ said \in {"ok", "error"}
    BY <1>5, <1>8, EndFacts, AnswersAre, AnswersRefused DEF Known
  <2>3. ~Refused
    BY <1>5, <1>8, RefusalsAre DEF Known, Refusals
  <2> QED BY <1>1, <1>2, <1>3, <1>4, <1>5, <1>8, <2>1, <2>2, <2>3
         DEF Explained, Refusals, Unasking, Naming
<1>9. CASE command \in {"rebase", "measure"}
  <2>1. verdict =
        IF guest = "shutdown" THEN "vm error"
        ELSE IF Whole("differencing") THEN "differencing"
        ELSE IF Whole("l2 entry") THEN "l2 entry"
        ELSE IF ~Whole("result") /\ Whole("exception") THEN "cpu exception"
        ELSE IF ~Whole("result") THEN "no result"
        ELSE IF reply = "error" THEN "guest error"
        ELSE "ok"
    BY <1>1, <1>9, EndFacts, RebaseIs
  <2>2. Whole("result") => reply = said /\ said \in {"ok", "error"} /\ (Refused => said = "error")
    BY <1>5, <1>9, EndFacts, AnswersAre, AnswersRefused DEF Known
  <2> QED BY <1>1, <1>2, <1>3, <1>4, <1>5, <1>9, <2>1, <2>2
         DEF Explained, Refusals, Unasking, Naming
<1>10. CASE command = "bench"
  <2>1. verdict =
        IF guest = "shutdown" THEN "vm error"
        ELSE IF Whole("differencing") THEN "differencing"
        ELSE IF Whole("l2 entry") THEN "l2 entry"
        ELSE IF ~Whole("result") /\ Whole("exception") THEN "cpu exception"
        ELSE IF ~Whole("result") THEN "no result"
        ELSE IF reply = "error" THEN "guest error"
        ELSE IF ~Before("start", "result") THEN "no start"
        ELSE "ok"
    BY <1>1, <1>10, EndFacts, BenchIs
  <2>2. Whole("result") => reply = said /\ said \in {"ok", "error"}
          /\ (Refused \/ ~Before("start", "result") => said = "error")
    BY <1>5, <1>10, EndFacts, AnswersAre, AnswersRefused DEF Known
  <2> QED BY <1>1, <1>2, <1>3, <1>4, <1>5, <1>10, <2>1, <2>2
         DEF Explained, Refusals, Unasking, Naming
<1>11. CASE command = "check"
  <2>1. verdict =
        IF guest = "shutdown" THEN "vm error"
        ELSE IF Whole("differencing") THEN "differencing"
        ELSE IF ~Whole("result") THEN "no result"
        ELSE IF reply = "unsupported" THEN "unsupported"
        ELSE IF reply = "errors" THEN "errors"
        ELSE IF reply = "leaks" THEN "leaks"
        ELSE "ok"
    BY <1>1, <1>11, EndFacts, CheckIs
  <2>2. Whole("result") => reply = said /\ said \in {"ok", "leaks", "errors", "unsupported"}
          /\ (Refused => said = "ok")
    BY <1>5, <1>11, EndFacts, AnswersAre, AnswersRefused DEF Known
  <2>3. ~Whole("l2 entry")
    BY <1>5, <1>11, RefusalsAre DEF Known, Refusals
  <2> QED BY <1>1, <1>2, <1>3, <1>4, <1>5, <1>11, <2>1, <2>2, <2>3
         DEF Explained, Refusals, Unasking, Naming
<1>12. CASE command = "compare"
  <2>1. verdict =
        IF guest = "shutdown" THEN "vm error"
        ELSE IF Whole("differencing") THEN "differencing"
        ELSE IF Whole("l2 entry") THEN "l2 entry"
        ELSE IF ~Whole("result") THEN "no result"
        ELSE IF reply = "error" THEN "differs"
        ELSE "ok"
    BY <1>1, <1>12, EndFacts, CompareIs
  <2>2. Whole("result") => reply = said /\ said \in {"ok", "error"} /\ (Refused => said = "error")
    BY <1>5, <1>12, EndFacts, AnswersAre, AnswersRefused DEF Known
  <2> QED BY <1>1, <1>2, <1>3, <1>4, <1>5, <1>12, <2>1, <2>2
         DEF Explained, Refusals, Unasking, Naming
<1>13. CASE command = "map"
  <2>1. verdict =
        IF guest = "shutdown" THEN "vm error"
        ELSE IF pipe THEN "ok"
        ELSE IF Whole("l2 entry") THEN "l2 entry"
        ELSE IF ~Whole("result") THEN "no result"
        ELSE IF reply = "error" THEN "guest error"
        ELSE "ok"
    BY <1>1, <1>13, EndFacts, MapIs
  <2>2. Whole("result") => reply = said /\ said \in {"ok", "error"} /\ (Refused => said = "error")
    BY <1>5, <1>13, EndFacts, AnswersAre, AnswersRefused DEF Known
  <2>3. ~Whole("differencing")
    BY <1>5, <1>13, RefusalsAre DEF Known, Refusals
  <2> QED BY <1>1, <1>2, <1>3, <1>4, <1>5, <1>13, <2>1, <2>2, <2>3
         DEF Explained, Refusals, Unasking, Naming
<1>14. CASE command = "list"
  <2>1. verdict =
        IF guest = "shutdown" THEN "vm error"
        ELSE IF pipe THEN "ok"
        ELSE IF ~Whole("result") THEN "no result"
        ELSE IF reply = "error" THEN "guest error"
        ELSE "ok"
    BY <1>1, <1>14, EndFacts, ListIs
  <2>2. Whole("result") => reply = said /\ said \in {"ok", "error"}
    BY <1>5, <1>14, EndFacts, AnswersAre, AnswersRefused DEF Known
  <2>3. ~Refused
    BY <1>5, <1>14, RefusalsAre DEF Known, Refusals
  <2> QED BY <1>1, <1>2, <1>3, <1>4, <1>5, <1>14, <2>1, <2>2, <2>3
         DEF Explained, Refusals, Unasking, Naming
<1>15. CASE command = "snapshot"
  <2>1. verdict =
        IF guest = "shutdown" THEN "vm error"
        ELSE IF ~Whole("result") THEN "no result"
        ELSE IF reply = "error" THEN "guest error"
        ELSE "ok"
    BY <1>1, <1>15, EndFacts, SnapshotIs
  <2>2. Whole("result") => reply = said /\ said \in {"ok", "error"}
    BY <1>5, <1>15, EndFacts, AnswersAre, AnswersRefused DEF Known
  <2>3. ~Refused
    BY <1>5, <1>15, RefusalsAre DEF Known, Refusals
  <2> QED BY <1>1, <1>2, <1>3, <1>4, <1>5, <1>15, <2>1, <2>2, <2>3
         DEF Explained, Refusals, Unasking, Naming
<1>16. CASE command = "convert"
  <2>1. /\ guest # "shutdown" /\ reply # "error" => verdict = "ok"
        /\ guest = "shutdown" => verdict = "vm error"
        /\ guest # "shutdown" /\ reply = "error" =>
             verdict = IF Whole("differencing") THEN "differencing"
                       ELSE IF Whole("l2 entry") THEN "l2 entry"
                       ELSE "guest error"
    BY <1>1, <1>16, EndFacts, ConvertIs
  <2>2. Whole("result") => reply = said /\ said \in {"ok", "error"} /\ (Refused => said = "error")
    BY <1>5, <1>16, AnswersAre, AnswersRefused DEF Known
  <2>3. \A v \in {"vm error", "differencing", "l2 entry", "guest error"} : ExitCode(v) = 1
    BY DEF ExitCode
  <2> QED BY <1>1, <1>2, <1>3, <1>4, <1>5, <1>16, <2>1, <2>2, <2>3
         DEF Explained, Refusals, Unasking, Naming
<1> QED BY <1>5, <1>6, <1>7, <1>8, <1>9, <1>10, <1>11, <1>12, <1>13, <1>14, <1>15, <1>16 DEF Known

\* None of a run's own reports is the result or comes from the core.
LEMMA Apart ==
    /\ Refusals \subseteq Reports /\ "start" \in Reports
    /\ \A m \in Reports : m \notin {"result", "complete", "panic", "exception"}
  BY HostAssumption DEF HostAssumption

\* What was sent whole depends on nothing else.
LEMMA SameSent ==
    ASSUME UNCHANGED <<sent, command>>
    PROVE  /\ \A m : Whole(m)' <=> Whole(m)
           /\ Refused' <=> Refused
           /\ Answers(command)' = Answers(command)
           /\ RefusalsOf(command)' = RefusalsOf(command)
<1>1. \A m : Whole(m)' <=> Whole(m)
  BY DEF Whole
<1>2. Refused' <=> Refused
  BY <1>1 DEF Refused, Refusals
<1>3. Answers(command)' = Answers(command)
  BY <1>1, <1>2 DEF Answers
<1>4. RefusalsOf(command)' = RefusalsOf(command)
  BY DEF RefusalsOf, Refusals, Readers
<1> QED BY <1>1, <1>2, <1>3, <1>4

\* A step of the core that sends nothing of the operation.
LEMMA CoreStep ==
    ASSUME GuestInv, UNCHANGED <<sent, command, said>>,
           \A m : Sending(m)' => Sending(m) \/ m \in {"complete", "panic", "exception"}
    PROVE  GuestInv'
<1>1. /\ \A m : Whole(m)' <=> Whole(m)
      /\ Answers(command)' = Answers(command)
      /\ RefusalsOf(command)' = RefusalsOf(command)
  BY SameSent
<1>2. (\A m \in Refusals : Whole(m) \/ Sending(m) => m \in RefusalsOf(command))'
  BY <1>1, Apart DEF GuestInv, Refusals
<1>3. (Sending("result") => ~Whole("result"))'
  BY <1>1 DEF GuestInv
<1>4. (Sending("result") \/ Whole("result") => said \in Answers(command))'
  BY <1>1 DEF GuestInv
<1>5. (Whole("result") => \A m \in Reports : ~Sending(m))'
  BY <1>1, Apart DEF GuestInv
<1>6. (\A i, j \in DOMAIN sent : sent[i] \in Reports /\ sent[j] = "result" => i < j)'
  BY DEF GuestInv
<1> QED BY <1>2, <1>3, <1>4, <1>5, <1>6 DEF GuestInv

\* What a guest begins to send.
LEMMA SendBegins ==
    ASSUME NEW m, NEW then \in {"run", "halted"}, Send(m, then)
    PROVE  \A x : Sending(x)' => x = m
  BY DEF Send, Sending

\* The core, the handler and the machine send nothing of the operation.
LEMMA GuestStepKeeps ==
    ASSUME GuestInv, GuestStep, UNCHANGED hostVars
    PROVE  GuestInv'
<1>1. UNCHANGED <<sent, command, said>>
  BY DEF GuestStep, Install, Complete, Panic, Exception, TripleFault, VmFails, hostVars
<1>2. \A m : Sending(m)' => Sending(m) \/ m \in {"complete", "panic", "exception"}
  <2>1. CASE Install \/ TripleFault \/ VmFails
    BY <2>1 DEF Install, TripleFault, VmFails, Sending
  <2>2. CASE Complete
    BY <2>2, SendBegins DEF Complete
  <2>3. CASE Panic
    <3>1. CASE Send("panic", "halted")
      BY <3>1, SendBegins
    <3>2. CASE guest' = "spin"
      BY <3>2 DEF Sending
    <3> QED BY <2>3, <3>1, <3>2 DEF Panic
  <2>4. CASE Exception
    <3>1. CASE Send("exception", "halted")
      BY <3>1, SendBegins
    <3>2. CASE guest' = "halted"
      BY <3>2 DEF Sending
    <3> QED BY <2>4, <3>1, <3>2 DEF Exception
  <2> QED BY <2>1, <2>2, <2>3, <2>4 DEF GuestStep
<1> QED BY <1>1, <1>2, CoreStep

\* A report is one of the command's own, and none follows the result.
LEMMA ReportKeeps ==
    ASSUME GuestInv, HostReport
    PROVE  GuestInv'
<1>1. PICK m \in ReportsOf(command) : Report(m)
  BY DEF HostReport
<1>2. UNCHANGED <<sent, command, said>> /\ ~Whole("result") /\ \A x : Sending(x)' => x = m
  BY <1>1, SendBegins DEF HostReport, Report, hostVars
<1>3. /\ m \in Reports /\ m # "result"
      /\ m \in Refusals => m \in RefusalsOf(command)
  BY <1>1, ReportsKnown, Apart DEF ReportsOf, Refusals
<1>4. /\ \A x : Whole(x)' <=> Whole(x)
      /\ RefusalsOf(command)' = RefusalsOf(command)
  BY <1>2, SameSent
<1>5. (\A x \in Refusals : Whole(x) \/ Sending(x) => x \in RefusalsOf(command))'
  BY <1>2, <1>3, <1>4 DEF GuestInv, Refusals
<1>6. ~Sending("result")' /\ ~Whole("result")'
  BY <1>2, <1>3, <1>4
<1>7. (\A i, j \in DOMAIN sent : sent[i] \in Reports /\ sent[j] = "result" => i < j)'
  BY <1>2 DEF GuestInv
<1> QED BY <1>5, <1>6, <1>7 DEF GuestInv

\* The result that is begun answers for what was sent before it.
LEMMA AnswerKeeps ==
    ASSUME GuestInv, HostAnswer
    PROVE  GuestInv'
<1>1. /\ UNCHANGED <<sent, command>> /\ said' \in Answers(command)
      /\ \A x : Sending(x)' => x = "result"
  BY SendBegins DEF HostAnswer, Answer
<1>2. ~Whole("result")
  BY DEF HostAnswer, Answer, Whole
<1>3. /\ \A x : Whole(x)' <=> Whole(x)
      /\ RefusalsOf(command)' = RefusalsOf(command)
      /\ Answers(command)' = Answers(command)
  BY <1>1, SameSent
<1>4. (\A x \in Refusals : Whole(x) \/ Sending(x) => x \in RefusalsOf(command))'
  BY <1>1, <1>3, Apart DEF GuestInv, Refusals
<1>5. (\A i, j \in DOMAIN sent : sent[i] \in Reports /\ sent[j] = "result" => i < j)'
  BY <1>1 DEF GuestInv
<1> QED BY <1>1, <1>2, <1>3, <1>4, <1>5 DEF GuestInv

\* A byte either completes the message being sent or leaves what was sent.
LEMMA ByteSends ==
    ASSUME TypeInv, SendByte, UNCHANGED command
    PROVE  \/ /\ sent' = Append(sent, cur)
              /\ \A m : Whole(m)' <=> Whole(m) \/ m = cur
              /\ \A m : ~Sending(m)'
           \/ /\ sent' = sent
              /\ \A m : Sending(m)' <=> Sending(m)
<1>1. CASE pos + 1 = FrameLen(cur)
  <2>1. sent' = Append(sent, cur) /\ guest' = after
    BY <1>1 DEF SendByte
  <2>2. \A m : ~Sending(m)'
    BY <2>1 DEF TypeInv, Sending
  <2>3. sent \in Seq(Messages) /\ cur \in Messages
    BY DEF TypeInv
  <2>4. /\ DOMAIN sent' = 1..(Len(sent) + 1) /\ DOMAIN sent = 1..Len(sent) /\ Len(sent) \in Nat
        /\ \A k \in 1..Len(sent) : sent'[k] = sent[k]
        /\ sent'[Len(sent) + 1] = cur
    BY <2>1, <2>3
  <2>5. \A m : Whole(m)' <=> Whole(m) \/ m = cur
    BY <2>4 DEF Whole
  <2> QED BY <2>1, <2>2, <2>5
<1>2. CASE pos + 1 # FrameLen(cur)
  BY <1>2 DEF SendByte, Sending
<1> QED BY <1>1, <1>2

\* A byte completes at most the message being sent.
LEMMA ByteKeeps ==
    ASSUME TypeInv, GuestInv, HostByte
    PROVE  GuestInv'
<1>1. SendByte /\ UNCHANGED <<command, said>> /\ Sending(cur)
  BY DEF HostByte, SendByte, Sending
<1>2. RefusalsOf(command)' = RefusalsOf(command)
  BY <1>1 DEF RefusalsOf, Refusals, Readers
<1>3. CASE /\ sent' = Append(sent, cur)
           /\ \A m : Whole(m)' <=> Whole(m) \/ m = cur
           /\ \A m : ~Sending(m)'
  <2>1. (\A m \in Refusals : Whole(m) \/ Sending(m) => m \in RefusalsOf(command))'
    BY <1>1, <1>2, <1>3 DEF GuestInv, Refusals
  <2>2. ASSUME Whole("result")' PROVE said' \in Answers(command)'
    <3>1. cur \notin Reports
      BY <1>1, <1>3, <2>2, Apart DEF GuestInv
    <3>2. said \in Answers(command)
      BY <1>1, <1>3, <2>2 DEF GuestInv
    <3>3. (Refused' <=> Refused) /\ (Whole("start")' <=> Whole("start"))
      BY <1>3, <3>1, Apart DEF Refused, Refusals
    <3>4. Answers(command)' = Answers(command)
      BY <1>1, <3>3 DEF Answers
    <3> QED BY <1>1, <3>2, <3>4
  <2>3. ASSUME NEW i \in DOMAIN sent', NEW j \in DOMAIN sent',
               sent'[i] \in Reports, sent'[j] = "result"
        PROVE  i < j
    <3>1. sent \in Seq(Messages) /\ cur \in Messages
      BY DEF TypeInv
    <3>2. /\ DOMAIN sent' = 1..(Len(sent) + 1) /\ DOMAIN sent = 1..Len(sent) /\ Len(sent) \in Nat
          /\ \A k \in 1..Len(sent) : sent'[k] = sent[k]
          /\ sent'[Len(sent) + 1] = cur
      BY <1>3, <3>1
    <3>3. CASE i = Len(sent) + 1
      <4>1. cur \in Reports /\ ~Whole("result")
        BY <1>1, <2>3, <3>2, <3>3 DEF GuestInv
      <4>2. j # i
        BY <2>3, Apart
      <4>3. j \in DOMAIN sent /\ sent[j] = "result"
        BY <2>3, <3>2, <3>3, <4>2
      <4> QED BY <4>1, <4>3 DEF Whole
    <3>4. CASE i # Len(sent) + 1 /\ j = Len(sent) + 1
      BY <3>2, <3>4
    <3>5. CASE i # Len(sent) + 1 /\ j # Len(sent) + 1
      <4>1. i \in DOMAIN sent /\ j \in DOMAIN sent /\ sent[i] = sent'[i] /\ sent[j] = sent'[j]
        BY <3>2, <3>5
      <4> QED BY <2>3, <4>1 DEF GuestInv
    <3> QED BY <3>3, <3>4, <3>5
  <2>4. ~Sending("result")' /\ \A m \in Reports : ~Sending(m)'
    BY <1>3
  <2> QED BY <2>1, <2>2, <2>3, <2>4 DEF GuestInv
<1>4. CASE sent' = sent /\ \A m : Sending(m)' <=> Sending(m)
  BY <1>1, <1>4, CoreStep
<1> QED BY <1>1, <1>3, <1>4, ByteSends

\* The message that arrives uncut is the one whose last byte was sent.
LEMMA ByteArrives ==
    ASSUME TypeInv, Aligned, Aligned', SendByte, ~cut, ~cut', NEW m
    PROVE  Arrives(m) <=> sent' = Append(sent, cur) /\ m = cur
<1>1. heard = sent /\ heard' = sent' /\ sent \in Seq(Messages) /\ cur \in Messages
  BY DEF Aligned, TypeInv
<1>2. CASE sent' = Append(sent, cur)
  <2>1. Len(sent') = Len(sent) + 1 /\ sent'[Len(sent) + 1] = cur /\ Len(sent) \in Nat
    BY <1>1, <1>2
  <2> QED BY <1>1, <1>2, <2>1 DEF Arrives
<1>3. CASE sent' # Append(sent, cur)
  <2>1. sent' = sent
    BY <1>3 DEF SendByte
  <2>2. Len(sent) \in Nat
    BY <1>1
  <2> QED BY <1>1, <1>3, <2>1, <2>2 DEF Arrives
<1> QED BY <1>2, <1>3

\* What is harvested and printed on a byte is the result just sent, with
\* nothing refused before it.
LEMMA ByteHolds ==
    ASSUME TypeInv, Aligned, Aligned', GuestInv, HeldInv, HostByte
    PROVE  HeldInv'
<1>1. SendByte /\ UNCHANGED <<command, said, cut>> /\ Sending(cur)
  BY DEF HostByte, SendByte, Sending
<1>2. RefusalsOf(command)' = RefusalsOf(command)
  BY <1>1 DEF RefusalsOf, Refusals, Readers
<1>3. (command \in Commands)' /\ (pipe => command \in Streams)' /\ (pipe \in BOOLEAN)'
  BY <1>1 DEF HeldInv, HostByte, Streams
<1>4. (shown \in BOOLEAN)'
  BY DEF HeldInv, HostByte
<1>5. ASSUME ~cut' PROVE /\ Whole("result")' => reply' = said'
                         /\ shown' => /\ Whole("result")'
                                      /\ \A m \in RefusalsOf(command) : ~Whole(m)'
  <2>1. ~cut /\ heard = sent
    BY <1>1, <1>5 DEF Aligned
  <2>2. Arrives("result") <=> sent' = Append(sent, cur) /\ cur = "result"
    BY <1>1, <1>5, <2>1, ByteArrives
  <2>3. /\ Arrives("result") => reply' = said
        /\ ~Arrives("result") => reply' = reply
    BY <2>1 DEF HostByte
  <2>4. /\ Whole("result") => reply = said
        /\ shown => Whole("result") /\ \A m \in RefusalsOf(command) : ~Whole(m)
    BY <2>1 DEF HeldInv
  <2>5. shown' => \/ shown
                  \/ Arrives("result") /\ \A m \in RefusalsOf(command) : ~Whole(m)
    BY <2>1 DEF HostByte, Heard, Whole
  <2>6. CASE /\ sent' = Append(sent, cur)
             /\ \A m : Whole(m)' <=> Whole(m) \/ m = cur
             /\ \A m : ~Sending(m)'
    <3>1. Whole("result")' => reply' = said'
      BY <1>1, <2>2, <2>3, <2>4, <2>6
    <3>2. ASSUME shown' PROVE Whole("result")' /\ \A m \in RefusalsOf(command) : ~Whole(m)'
      <4>1. Whole("result") \/ cur = "result"
        BY <2>2, <2>4, <2>5, <3>2
      <4>2. cur \notin Reports
        BY <1>1, <4>1, Apart DEF GuestInv
      <4>3. RefusalsOf(command) \subseteq Reports
        BY Apart DEF RefusalsOf, Refusals
      <4> QED BY <2>4, <2>5, <2>6, <3>2, <4>1, <4>2, <4>3
    <3> QED BY <3>1, <3>2
  <2>7. CASE sent' = sent
    <3>1. sent' # Append(sent, cur)
      <4>1. sent \in Seq(Messages) /\ cur \in Messages
        BY DEF TypeInv
      <4>2. Len(Append(sent, cur)) = Len(sent) + 1 /\ Len(sent) \in Nat
        BY <4>1
      <4> QED BY <2>7, <4>2
    <3>2. \A m : Whole(m)' <=> Whole(m)
      BY <2>7 DEF Whole
    <3> QED BY <1>1, <2>2, <2>3, <2>4, <2>5, <3>1, <3>2
  <2> QED BY <1>1, <2>6, <2>7, ByteSends
<1> QED BY <1>2, <1>3, <1>4, <1>5 DEF HeldInv

\* Only bytes change what the host holds.
LEMMA OthersHold ==
    ASSUME HeldInv, UNCHANGED <<sent, command, reply, shown, pipe>>, cut => cut',
           UNCHANGED said \/ ~Whole("result")
    PROVE  HeldInv'
<1>1. /\ \A m : Whole(m)' <=> Whole(m)
      /\ RefusalsOf(command)' = RefusalsOf(command)
  BY SameSent
<1> QED BY <1>1 DEF HeldInv, Streams

\* Every step keeps what the host holds true to what was sent.
LEMMA HeldKept ==
    ASSUME TypeInv, Aligned, Aligned', GuestInv, HeldInv, [HostNext]_<<vars, hostVars>>
    PROVE  HeldInv'
<1>1. CASE HostByte
  BY <1>1, ByteHolds
<1>2. CASE GuestStep /\ UNCHANGED hostVars
  <2>1. UNCHANGED sent
    BY <1>2 DEF GuestStep, Install, Complete, Panic, Exception, TripleFault, VmFails
  <2>2. UNCHANGED cut \/ cut' = (cut \/ MidMessage)
    BY <1>2 DEF GuestStep, Install, Complete, Panic, Exception, TripleFault, VmFails
  <2>3. cut => cut'
    BY <2>2
  <2> QED BY <1>2, <2>1, <2>3, OthersHold DEF hostVars
<1>3. CASE HostReport
  BY <1>3, OthersHold DEF HostReport, Report, hostVars
<1>4. CASE HostAnswer
  <2>1. UNCHANGED <<sent, command, reply, shown, pipe, cut>> /\ ~Whole("result")
    BY <1>4 DEF HostAnswer, Answer, Whole
  <2> QED BY <2>1, OthersHold
<1>5. CASE HostEnd
  BY <1>5, OthersHold DEF HostEnd, End, guestVars, hostVars
<1>6. CASE UNCHANGED <<vars, hostVars>>
  BY <1>6, OthersHold DEF vars, hostVars
<1> QED BY <1>1, <1>2, <1>3, <1>4, <1>5, <1>6 DEF HostNext

\* Every step keeps the guest within its command.
LEMMA GuestKept ==
    ASSUME TypeInv, GuestInv, [HostNext]_<<vars, hostVars>>
    PROVE  GuestInv'
<1>1. CASE HostEnd \/ UNCHANGED <<vars, hostVars>>
  <2>1. UNCHANGED <<sent, command, said, guest, cur>>
    BY <1>1 DEF HostEnd, End, guestVars, vars, hostVars
  <2>2. \A m : Sending(m)' <=> Sending(m)
    BY <2>1 DEF Sending
  <2> QED BY <2>1, <2>2, CoreStep
<1> QED BY <1>1, GuestStepKeeps, ReportKeeps, AnswerKeeps, ByteKeeps DEF HostNext

\* The verdict depends on the run alone.
LEMMA SameVerdict ==
    ASSUME UNCHANGED <<guest, heard, reply, pipe, command>>
    PROVE  Verdict(command)' = Verdict(command)
<1>1. /\ VmError' = VmError /\ Differencing' = Differencing /\ L2Entry' = L2Entry
      /\ NoAnswer' = NoAnswer /\ Struck' = Struck /\ GuestError' = GuestError
      /\ Success' = Success
  BY DEF VmError, Differencing, L2Entry, NoAnswer, Struck, GuestError, Success, Heard
<1>2. /\ ProbeVerdict' = ProbeVerdict /\ ResizeVerdict' = ResizeVerdict
      /\ AmendVerdict' = AmendVerdict /\ BitmapVerdict' = BitmapVerdict
      /\ RebaseVerdict' = RebaseVerdict /\ CommitVerdict' = CommitVerdict
      /\ CreateVerdict' = CreateVerdict /\ InfoVerdict' = InfoVerdict
      /\ CopyVerdict' = CopyVerdict /\ MeasureVerdict' = MeasureVerdict
      /\ SnapshotVerdict' = SnapshotVerdict
  BY <1>1 DEF ProbeVerdict, ResizeVerdict, AmendVerdict, BitmapVerdict, RebaseVerdict,
              CommitVerdict, CreateVerdict, InfoVerdict, CopyVerdict, MeasureVerdict,
              SnapshotVerdict
<1>3. BenchVerdict' = BenchVerdict
  BY <1>1 DEF BenchVerdict, Before
<1>4. CheckVerdict' = CheckVerdict /\ CompareVerdict' = CompareVerdict
  BY <1>1 DEF CheckVerdict, CompareVerdict
<1>5. ConvertVerdict' = ConvertVerdict
  BY <1>1 DEF ConvertVerdict
<1>6. MapVerdict' = MapVerdict /\ ListVerdict' = ListVerdict
  BY <1>1 DEF MapVerdict, ListVerdict
<1> QED BY <1>2, <1>3, <1>4, <1>5, <1>6 DEF Verdict

\* Nothing follows the verdict.
LEMMA EndKept ==
    ASSUME EndInv, [HostNext]_<<vars, hostVars>>
    PROVE  EndInv'
<1>1. CASE HostEnd
  <2>1. UNCHANGED <<guest, heard, reply, pipe, command>> /\ verdict' = Verdict(command)
        /\ guest \in {"halted", "shutdown"}
    BY <1>1 DEF HostEnd, End, guestVars, hostVars
  <2> QED BY <2>1, SameVerdict DEF EndInv
<1>2. CASE UNCHANGED <<vars, hostVars>>
  <2>1. UNCHANGED <<guest, heard, reply, pipe, command, verdict>>
    BY <1>2 DEF vars, hostVars
  <2> QED BY <2>1, SameVerdict DEF EndInv, None
<1>3. ASSUME HostNext, ~HostEnd PROVE verdict' = verdict /\ guest \notin {"halted", "shutdown"}
  BY <1>3 DEF HostNext, GuestStep, Install, Complete, Panic, Exception, TripleFault, VmFails,
              HostReport, Report, HostAnswer, Answer, HostByte, SendByte
<1>4. CASE HostNext /\ ~HostEnd
  BY <1>3, <1>4 DEF EndInv, None
<1> QED BY <1>1, <1>2, <1>4

\* Nothing is sent or held at the start.
LEMMA HostInitial ==
    ASSUME HostInit
    PROVE  GuestInv /\ HeldInv /\ EndInv
<1>1. sent = <<>> /\ guest = "boot" /\ cut = FALSE /\ verdict = None
  BY DEF HostInit, Init
<1>2. \A m : ~Whole(m) /\ ~Sending(m)
  BY <1>1 DEF Whole, Sending
<1>3. GuestInv
  BY <1>1, <1>2 DEF GuestInv
<1>4. command \in Commands /\ shown = FALSE /\ pipe = FALSE
  BY DEF HostInit
<1>5. HeldInv
  BY <1>2, <1>4 DEF HeldInv
<1>6. EndInv
  BY <1>1 DEF EndInv
<1> QED BY <1>3, <1>5, <1>6

\* Whatever the command, a run struck between messages ends as what was sent
\* whole says: success is a success, a refusal is what the user is told and
\* no result is printed beside it, a CPU exception is named where the command
\* asks for it.
THEOREM HostExplains == HostSpec => []Explained
  <1> DEFINE RunInv == TypeInv /\ Bounded /\ Aligned /\ GuestInv /\ HeldInv /\ EndInv
  <1>1. HostInit => RunInv
    BY Initial, HostInitial DEF HostInit
  <1>2. RunInv /\ [HostNext]_<<vars, hostVars>> => RunInv'
    <2> SUFFICES ASSUME RunInv, [HostNext]_<<vars, hostVars>> PROVE RunInv'
      OBVIOUS
    <2>1. TypeInv' /\ Bounded' /\ Aligned'
      BY HostSteps, Inductive
    <2>2. GuestInv' /\ HeldInv' /\ EndInv'
      BY <2>1, GuestKept, HeldKept, EndKept
    <2> QED BY <2>1, <2>2
  <1>3. RunInv => Explained
    BY VerdictExplains
  <1> QED BY <1>1, <1>2, <1>3, PTL DEF HostSpec
=============================================================================
