------------------------ MODULE ControlChannelProofs ------------------------
(***************************************************************************)
(* The control connection's client forwards its signals in order and does  *)
(* not forget a change of the window's size, for every capacity of the     *)
(* channel and of the connection and however many signals arrive.          *)
(*                                                                         *)
(* What is written, what was lost unseen, what is in the handler's hand    *)
(* and what is in the channel make up, in this order, what the channel     *)
(* took: every step moves at most one signal over one of the borders.  For *)
(* the window's size the case to exclude is a size that is written after   *)
(* the window changed back to the size the connection says: LateSize says  *)
(* that another signal is then on its way.                                 *)
(***************************************************************************)
EXTENDS ControlChannel, SequenceTheorems, TLAPS

\* A signal that is pending, or in the channel, will ask for the size.
WinchComes == "winch" \in pending \cup ToSet(ch)

\* The size is asked for when its signal is in the hand; a message is lost
\* unseen once the connection remembers an error; nothing follows the close
\* message.
HandlerInv ==
  /\ accepted \in Seq(Signals)
  /\ conPc = "size" => hand = "winch"
  /\ unsent # <<>> => writeErr
  /\ \A k \in DOMAIN wire : wire[k].about = "close" => conPc = "returned"

\* A size in the handler's hand that the window no longer has is not the last
\* the connection hears, unless a signal was missed.
LateSize ==
  conPc = "write" /\ hand = "winch" /\ size # window => WinchComes \/ missed

ControlInv ==
  ControlTypeOK /\ HandlerInv /\ ForwardedInOrder /\ ResizeNotForgotten /\ LateSize

-----------------------------------------------------------------------------
(* Sequences. *)

(* A channel is what is received next, followed by the rest.                 *)
LEMMA HeadThenTail ==
  ASSUME NEW S, NEW s \in Seq(S), s # <<>>
  PROVE  s = <<Head(s)>> \o Tail(s)
<1>1. Head(s) \in S /\ Tail(s) \in Seq(S) /\ Len(Tail(s)) = Len(s) - 1
      /\ \A i \in 1 .. Len(Tail(s)) : Tail(s)[i] = s[i + 1]
  BY HeadTailProperties
<1>2. <<Head(s)>> \in Seq(S) /\ Len(<<Head(s)>>) = 1 /\ Head(s) = s[1]
  BY <1>1
<1>3. Len(s) \in Nat \ {0}
  BY EmptySeq
<1>4. /\ <<Head(s)>> \o Tail(s) \in Seq(S)
      /\ Len(<<Head(s)>> \o Tail(s)) = Len(s)
      /\ \A i \in 1 .. Len(s) :
           (<<Head(s)>> \o Tail(s))[i] = IF i <= 1 THEN <<Head(s)>>[i] ELSE Tail(s)[i - 1]
  BY <1>1, <1>2, <1>3, ConcatProperties
<1>5. \A i \in 1 .. Len(s) : (<<Head(s)>> \o Tail(s))[i] = s[i]
  BY <1>1, <1>2, <1>3, <1>4
<1> QED BY <1>4, <1>5, SeqEqual

(* What an append adds to the members of a sequence, and a receive removes.  *)
LEMMA MembersOfAppend ==
  ASSUME NEW S, NEW s \in Seq(S), NEW e \in S
  PROVE  ToSet(Append(s, e)) = ToSet(s) \cup {e}
<1>1. DOMAIN s = 1 .. Len(s) /\ Len(s) \in Nat
  BY LenProperties
<1>2. DOMAIN Append(s, e) = 1 .. Len(s) + 1
  BY AppendProperties, LenProperties
<1> QED BY <1>1, <1>2, AppendProperties DEF ToSet

(* Taking the head off a sequence loses no other member.                     *)
LEMMA MembersOfTail ==
  ASSUME NEW S, NEW s \in Seq(S), s # <<>>
  PROVE  ToSet(s) \subseteq {Head(s)} \cup ToSet(Tail(s))
<1>1. DOMAIN s = 1 .. Len(s) /\ Len(s) \in Nat
  BY LenProperties
<1>2. /\ DOMAIN Tail(s) = 1 .. Len(s) - 1 /\ Head(s) = s[1]
      /\ \A i \in 1 .. Len(s) - 1 : Tail(s)[i] = s[i + 1]
  BY HeadTailProperties, LenProperties
<1>3. \A i \in DOMAIN s : i # 1 => i - 1 \in DOMAIN Tail(s) /\ Tail(s)[i - 1] = s[i]
  BY <1>1, <1>2
<1>4. ASSUME NEW i \in DOMAIN s
      PROVE  s[i] \in {Head(s)} \cup ToSet(Tail(s))
  <2>1. CASE i = 1
    BY <1>2, <2>1
  <2>2. CASE i # 1
    BY <1>3, <1>4, <2>2 DEF ToSet
  <2> QED BY <2>1, <2>2
<1> QED BY <1>4 DEF ToSet

(* The close message is split off again.                                     *)
LEMMA LastOfAppend ==
  ASSUME NEW S, NEW s \in Seq(S), NEW e \in S
  PROVE  Append(s, e) # <<>> /\ Last(Append(s, e)) = e /\ Front(Append(s, e)) = s
<1>1. /\ Append(s, e) \in Seq(S) /\ Append(s, e) # <<>> /\ Len(Append(s, e)) = Len(s) + 1
      /\ Append(s, e)[Len(s) + 1] = e /\ \A i \in 1 .. Len(s) : Append(s, e)[i] = s[i]
  BY AppendProperties
<1>2. Len(s) \in Nat
  BY LenProperties
<1>3. \A i \in 1 .. Len(s) : Append(s, e)[i] \in S
  BY <1>1, ElementOfSeq
<1>4. /\ SubSeq(Append(s, e), 1, Len(s)) \in Seq(S)
      /\ Len(SubSeq(Append(s, e), 1, Len(s))) = Len(s)
      /\ \A i \in 1 .. Len(s) : SubSeq(Append(s, e), 1, Len(s))[i] = s[i]
  BY <1>1, <1>2, <1>3, SubSeqProperties
<1>5. SubSeq(Append(s, e), 1, Len(s)) = s
  BY <1>4, SeqEqual
<1> QED BY <1>1, <1>2, <1>5 DEF Last, Front

Subjects == Signals \cup {"close"}
Messages == [about : Subjects, size : 0 .. MaxSize]

(* Sequences of subjects are put together in any grouping.                   *)
LEMMA Regroup ==
  ASSUME NEW s \in Seq(Subjects), NEW t \in Seq(Subjects), NEW u \in Seq(Subjects)
  PROVE  (s \o t) \o u = s \o (t \o u) /\ s \o (t \o u) \in Seq(Subjects)
<1>1. t \o u \in Seq(Subjects)
  BY ConcatProperties
<1>2. s \o (t \o u) \in Seq(Subjects)
  BY <1>1, ConcatProperties
<1>3. (s \o t) \o u = s \o (t \o u)
  BY ConcatAssociative
<1> QED BY <1>2, <1>3

(* What messages are about is a sequence as long as theirs, which grows with *)
(* it.                                                                       *)
LEMMA AboutsOfMessages ==
  ASSUME NEW s \in Seq(Messages)
  PROVE  /\ Abouts(s) \in Seq(Subjects)
         /\ Len(Abouts(s)) = Len(s)
         /\ \A k \in 1 .. Len(s) : Abouts(s)[k] = s[k].about
<1>1. Len(s) \in Nat /\ DOMAIN s = 1 .. Len(s) /\ s \in [1 .. Len(s) -> Messages]
  BY LenProperties
<1>2. Abouts(s) \in [1 .. Len(s) -> Subjects]
  BY <1>1 DEF Abouts, Messages
<1> QED BY <1>1, <1>2, LenProperties DEF Abouts

(* A message written last is last among what the wire is about.              *)
LEMMA AboutsOfAppend ==
  ASSUME NEW s \in Seq(Messages), NEW m \in Messages
  PROVE  Abouts(Append(s, m)) = Append(Abouts(s), m.about)
<1>1. /\ Append(s, m) \in Seq(Messages) /\ Len(Append(s, m)) = Len(s) + 1 /\ Len(s) \in Nat
      /\ Append(s, m)[Len(s) + 1] = m /\ \A i \in 1 .. Len(s) : Append(s, m)[i] = s[i]
  BY AppendProperties, LenProperties
<1>2. m.about \in Subjects
  BY DEF Messages
<1>3. /\ Abouts(s) \in Seq(Subjects) /\ Len(Abouts(s)) = Len(s)
      /\ \A k \in 1 .. Len(s) : Abouts(s)[k] = s[k].about
  BY AboutsOfMessages
<1>4. /\ Abouts(Append(s, m)) \in Seq(Subjects) /\ Len(Abouts(Append(s, m))) = Len(s) + 1
      /\ \A k \in 1 .. Len(s) + 1 : Abouts(Append(s, m))[k] = Append(s, m)[k].about
  BY <1>1, AboutsOfMessages
<1>5. /\ Append(Abouts(s), m.about) \in Seq(Subjects)
      /\ Len(Append(Abouts(s), m.about)) = Len(s) + 1
      /\ Append(Abouts(s), m.about)[Len(s) + 1] = m.about
      /\ \A k \in 1 .. Len(s) : Append(Abouts(s), m.about)[k] = s[k].about
  BY <1>2, <1>3, AppendProperties
<1>6. \A k \in 1 .. Len(s) + 1 : Abouts(Append(s, m))[k] = Append(Abouts(s), m.about)[k]
  BY <1>1, <1>4, <1>5
<1> QED BY <1>4, <1>5, <1>6, SeqEqual

-----------------------------------------------------------------------------
(* The invariant holds at the start. *)

(* Nothing has been signalled, held or written.                              *)
LEMMA ControlInvInit ==
  ControlInit => ControlInv
<1> SUFFICES ASSUME ControlInit PROVE ControlInv
  OBVIOUS
<1>1. <<>> \in Seq(Messages) /\ Len(<<>>) = 0 /\ DOMAIN <<>> = {} /\ <<>> \in Seq(Subjects)
  OBVIOUS
<1>2. Abouts(<<>>) = <<>>
  <2>1. Abouts(<<>>) \in Seq(Subjects) /\ Len(Abouts(<<>>)) = 0
    BY <1>1, AboutsOfMessages
  <2> QED BY <2>1, EmptySeq
<1>3. ControlTypeOK
  <2>1. /\ <<>> \in Seq(Signals)
        /\ <<>> \in Seq([about : Signals \cup {"close"}, size : 0 .. MaxSize])
        /\ <<>> \in Seq([about : Signals, size : 0 .. MaxSize])
    BY EmptySeq
  <2>2. 0 <= ChanCap /\ 0 <= WireCap /\ 0 \in 0 .. MaxSize /\ 0 \in 0 .. MaxSignals
    BY ControlAssumption
  <2> QED BY <1>1, <2>1, <2>2 DEF ControlInit, ControlTypeOK, Signals
<1>4. HandlerInv
  BY DEF ControlInit, HandlerInv
<1>5. ForwardedInOrder
  <2>1. Written = <<>> /\ InHand = <<>>
    BY DEF ControlInit, Written, InHand
  <2> QED BY <1>2, <2>1, ConcatEmptySeq, <1>1 DEF ControlInit, ForwardedInOrder
<1>6. ResizeNotForgotten
  BY DEF ControlInit, ResizeNotForgotten, Shows, AboutSize
<1>7. LateSize
  BY DEF ControlInit, LateSize
<1> QED BY <1>3, <1>4, <1>5, <1>6, <1>7 DEF ControlInv

-----------------------------------------------------------------------------
(* Every step keeps each of its parts. *)

(* A message that the handler forwards is about its signal.                  *)
Sent == Message(ForwardedAs(hand), IF hand = "winch" THEN size ELSE 0)

(* It is a message, and carries the size that the handler has just read.     *)
LEMMA SentFacts ==
  ASSUME ControlTypeOK
  PROVE  /\ Sent \in [about : Signals, size : 0 .. MaxSize] /\ Sent \in Messages
         /\ Sent.about = hand
         /\ Sent.size = IF hand = "winch" THEN size ELSE 0
BY ControlAssumption DEF ControlTypeOK, Sent, Message, ForwardedAs, Messages, Subjects

(* Every write keeps the types; the channel takes a signal only when it      *)
(* has a place.                                                              *)
LEMMA TypeStep ==
  ControlInv /\ [ControlNext]_controlVars => ControlTypeOK'
<1> SUFFICES ASSUME ControlInv, [ControlNext]_controlVars PROVE ControlTypeOK'
  OBVIOUS
<1> USE DEF ControlInv
<1>1. ASSUME NEW s \in Signals, Arrive(s)
      PROVE  ControlTypeOK'
  <2>1. window' \in 0 .. MaxSize /\ arrived' \in 0 .. MaxSignals
    BY <1>1, ControlAssumption DEF Arrive, ControlTypeOK
  <2>2. pending' \subseteq Signals /\ killed' \in BOOLEAN /\ missed' \in BOOLEAN
    BY <1>1 DEF Arrive, ControlTypeOK
  <2> QED BY <1>1, <2>1, <2>2 DEF Arrive, ControlTypeOK, chanVars, handlerVars, connVars
<1>2. ASSUME NEW s \in Signals, Deliver(s)
      PROVE  ControlTypeOK'
  <2>1. ch' \in Seq(Signals) /\ Len(ch') <= ChanCap
    <3>1. CASE Len(ch) < Places
      <4>1. ch' = Append(ch, s) /\ Len(ch) < ChanCap /\ ch \in Seq(Signals)
        BY <1>2, <3>1 DEF Deliver, ControlTypeOK, Places
      <4>2. ch' \in Seq(Signals) /\ Len(ch') = Len(ch) + 1 /\ Len(ch) \in Nat
        BY <4>1, AppendProperties, LenProperties
      <4> QED BY <4>1, <4>2, ControlAssumption
    <3>2. CASE ~(Len(ch) < Places)
      BY <1>2, <3>2 DEF Deliver, ControlTypeOK, chanVars
    <3> QED BY <3>1, <3>2
  <2>2. pending' \subseteq Signals /\ missed' \in BOOLEAN
    BY <1>2 DEF Deliver, ControlTypeOK
  <2> QED BY <1>2, <2>1, <2>2 DEF Deliver, ControlTypeOK, handlerVars, connVars
<1>3. CASE ConnEnds
  BY <1>3 DEF ConnEnds, ControlTypeOK, signalVars, chanVars, handlerVars
<1>4. CASE Notify
  BY <1>4 DEF Notify, ControlTypeOK, signalVars, chanVars, connVars
<1>5. CASE TakeSignal
  <2>1. hand' \in Signals /\ ch' \in Seq(Signals) /\ Len(ch') <= ChanCap
    BY <1>5, HeadTailProperties, LenProperties, ControlAssumption DEF TakeSignal, ControlTypeOK
  <2>2. conPc' \in {"size", "write"}
    BY <1>5 DEF TakeSignal
  <2> QED BY <1>5, <2>1, <2>2 DEF TakeSignal, ControlTypeOK, signalVars, connVars
<1>6. CASE GetSize
  <2>1. size' \in 0 .. MaxSize /\ conPc' \in {"write", "close"} /\ missed' \in BOOLEAN
    BY <1>6 DEF GetSize, ControlTypeOK, SizeNow
  <2> QED BY <1>6, <2>1 DEF GetSize, ControlTypeOK, signalVars, chanVars, connVars
<1>7. CASE Forward
  <2>1. /\ UNCHANGED <<signalVars, chanVars, hand, size, missed, down>>
        /\ conPc' \in {"close", "receive"} /\ writeErr' \in BOOLEAN
    BY <1>7 DEF Forward, ControlTypeOK, AfterError, connVars
  <2>2. /\ wire' \in Seq([about : Signals \cup {"close"}, size : 0 .. MaxSize])
        /\ Len(wire') <= WireCap
    <3>1. CASE wire' = Append(wire, Sent) /\ Len(wire) < WireCap
      BY <3>1, SentFacts, AppendProperties, LenProperties, ControlAssumption
         DEF ControlTypeOK, Messages, Subjects
    <3>2. CASE wire' = wire
      BY <3>2 DEF ControlTypeOK
    <3> QED BY <1>7, <3>1, <3>2 DEF Forward, connVars, Sent
  <2>3. unsent' \in Seq([about : Signals, size : 0 .. MaxSize])
    <3>1. CASE unsent' = Append(unsent, Sent)
      BY <3>1, SentFacts, AppendProperties DEF ControlTypeOK
    <3>2. CASE unsent' = unsent
      BY <3>2 DEF ControlTypeOK
    <3> QED BY <1>7, <3>1, <3>2 DEF Forward, connVars, Sent
  <2> QED BY <2>1, <2>2, <2>3 DEF ControlTypeOK, signalVars, chanVars
<1>8. CASE SendClose
  <2>1. /\ wire' \in Seq([about : Signals \cup {"close"}, size : 0 .. MaxSize])
        /\ Len(wire') <= WireCap
    <3>1. Message("close", 0) \in [about : Signals \cup {"close"}, size : 0 .. MaxSize]
      BY ControlAssumption DEF Message
    <3>2. CASE writeErr \/ down
      BY <1>8, <3>2 DEF SendClose, ControlTypeOK
    <3>3. CASE ~(writeErr \/ down)
      BY <1>8, <3>1, <3>3, AppendProperties, LenProperties, ControlAssumption
         DEF SendClose, ControlTypeOK
    <3> QED BY <3>2, <3>3
  <2> QED BY <1>8, <2>1 DEF SendClose, ControlTypeOK, signalVars, chanVars
<1>9. CASE UNCHANGED controlVars
  BY <1>9 DEF ControlTypeOK, controlVars, signalVars, chanVars, handlerVars, connVars
<1> QED BY <1>1, <1>2, <1>3, <1>4, <1>5, <1>6, <1>7, <1>8, <1>9 DEF ControlNext, Handler

(* What the place of the handler says of the connection and of the signal    *)
(* in hand.                                                                  *)
LEMMA HandlerStep ==
  ControlInv /\ [ControlNext]_controlVars => HandlerInv'
<1> SUFFICES ASSUME ControlInv, [ControlNext]_controlVars PROVE HandlerInv'
  OBVIOUS
<1> USE DEF ControlInv
<1>1. ASSUME NEW s \in Signals, Arrive(s)
      PROVE  HandlerInv'
  BY <1>1 DEF Arrive, HandlerInv, chanVars, handlerVars, connVars
<1>2. ASSUME NEW s \in Signals, Deliver(s)
      PROVE  HandlerInv'
  <2>1. accepted' \in {accepted, Append(accepted, s)}
    BY <1>2 DEF Deliver, chanVars
  <2>2. accepted \in Seq(Signals) /\ Append(accepted, s) \in Seq(Signals)
    BY AppendProperties DEF HandlerInv
  <2>3. accepted' \in Seq(Signals)
    BY <2>1, <2>2
  <2> QED BY <1>2, <2>3 DEF Deliver, HandlerInv, handlerVars, connVars
<1>3. CASE ConnEnds
  BY <1>3 DEF ConnEnds, HandlerInv, chanVars, handlerVars
<1>4. CASE Notify
  BY <1>4 DEF Notify, HandlerInv, chanVars, connVars
<1>5. CASE TakeSignal
  BY <1>5 DEF TakeSignal, HandlerInv, connVars
<1>6. CASE GetSize
  BY <1>6 DEF GetSize, HandlerInv, chanVars, connVars
<1>7. CASE Forward
  <2>1. \A k \in DOMAIN wire : wire[k].about # "close"
    BY <1>7 DEF Forward, HandlerInv
  <2>2. \A k \in DOMAIN wire' : wire'[k].about # "close"
    <3>1. CASE wire' = Append(wire, Sent)
      <4>1. Sent.about # "close"
        BY SentFacts DEF ControlTypeOK, Signals
      <4>2. wire \in Seq(Messages)
        BY DEF ControlTypeOK, Messages, Subjects
      <4>3. /\ DOMAIN wire' = 1 .. Len(wire) + 1 /\ wire'[Len(wire) + 1] = Sent
            /\ Len(wire) \in Nat /\ DOMAIN wire = 1 .. Len(wire)
            /\ \A k \in 1 .. Len(wire) : wire'[k] = wire[k]
        BY <3>1, <4>2, SentFacts, AppendProperties, LenProperties
      <4> QED BY <2>1, <4>1, <4>3
    <3>2. CASE wire' = wire
      BY <2>1, <3>2
    <3> QED BY <1>7, <3>1, <3>2 DEF Forward, connVars, Sent
  <2>3. accepted' = accepted /\ conPc' # "size"
    BY <1>7 DEF Forward, chanVars, AfterError
  <2>4. unsent' # <<>> => writeErr'
    BY <1>7 DEF Forward, HandlerInv, connVars
  <2> QED BY <2>2, <2>3, <2>4 DEF HandlerInv
<1>8. CASE SendClose
  BY <1>8 DEF SendClose, HandlerInv, chanVars
<1>9. CASE UNCHANGED controlVars
  BY <1>9 DEF HandlerInv, controlVars, signalVars, chanVars, handlerVars, connVars
<1> QED BY <1>1, <1>2, <1>3, <1>4, <1>5, <1>6, <1>7, <1>8, <1>9 DEF ControlNext, Handler

(* What ForwardedInOrder puts together are sequences of subjects.            *)
LEMMA PartsFacts ==
  ASSUME ControlInv
  PROVE  /\ wire \in Seq(Messages) /\ unsent \in Seq(Messages) /\ Written \in Seq(Messages)
         /\ Abouts(Written) \in Seq(Subjects) /\ Abouts(unsent) \in Seq(Subjects)
         /\ InHand \in Seq(Subjects) /\ ch \in Seq(Subjects) /\ hand \in Subjects
         /\ conPc # "returned" => Written = wire
<1> USE DEF ControlInv
<1>1. wire \in Seq(Messages) /\ Signals \subseteq Subjects
  BY DEF ControlTypeOK, Messages, Subjects
<1>2. unsent \in Seq(Messages)
  <2>1. [about : Signals, size : 0 .. MaxSize] \subseteq Messages
    BY <1>1 DEF Messages
  <2> QED BY <2>1, SeqMonotonic DEF ControlTypeOK
<1>3. Written \in Seq(Messages)
  <2>1. CASE wire # <<>> /\ Last(wire).about = "close"
    <3>1. Len(wire) \in Nat \ {0} /\ \A i \in 1 .. Len(wire) - 1 : wire[i] \in Messages
      BY <1>1, <2>1, EmptySeq, ElementOfSeq
    <3>2. SubSeq(wire, 1, Len(wire) - 1) \in Seq(Messages)
      BY <3>1, SubSeqProperties
    <3> QED BY <2>1, <3>2 DEF Written, Front
  <2>2. CASE ~(wire # <<>> /\ Last(wire).about = "close")
    BY <1>1, <2>2 DEF Written
  <2> QED BY <2>1, <2>2
<1>4. Abouts(Written) \in Seq(Subjects) /\ Abouts(unsent) \in Seq(Subjects)
  BY <1>2, <1>3, AboutsOfMessages
<1>5. hand \in Subjects /\ InHand \in Seq(Subjects)
  BY <1>1 DEF ControlTypeOK, InHand
<1>6. ch \in Seq(Subjects)
  BY <1>1, SeqMonotonic DEF ControlTypeOK
<1>7. ASSUME conPc # "returned"
      PROVE  Written = wire
  <2>1. SUFFICES ASSUME wire # <<>> PROVE Last(wire).about # "close"
    BY DEF Written
  <2>2. Len(wire) \in DOMAIN wire
    BY <1>1, <2>1, EmptySeq, LenProperties
  <2> QED BY <1>7, <2>2 DEF HandlerInv, Last
<1> QED BY <1>1, <1>2, <1>3, <1>4, <1>5, <1>6, <1>7

(* Each step moves at most one signal: into the channel, from there into the *)
(* hand, and from the hand to the connection or to what was lost unseen.     *)
LEMMA OrderStep ==
  ControlInv /\ [ControlNext]_controlVars => ForwardedInOrder'
<1> SUFFICES ASSUME ControlInv, [ControlNext]_controlVars PROVE ForwardedInOrder'
  OBVIOUS
<1> DEFINE W == Abouts(Written)
           U == Abouts(unsent)
<1>1. /\ wire \in Seq(Messages) /\ unsent \in Seq(Messages)
      /\ W \in Seq(Subjects) /\ U \in Seq(Subjects) /\ W \o U \in Seq(Subjects)
      /\ InHand \in Seq(Subjects) /\ ch \in Seq(Subjects) /\ <<hand>> \in Seq(Subjects)
      /\ (W \o U) \o InHand \in Seq(Subjects)
      /\ conPc # "returned" => Written = wire
  BY PartsFacts, ConcatProperties
<1>2. accepted = ((W \o U) \o InHand) \o ch
  BY DEF ControlInv, ForwardedInOrder
<1>3. ASSUME UNCHANGED <<accepted, ch, wire, unsent>>, InHand' = InHand
      PROVE  ForwardedInOrder'
  BY <1>2, <1>3 DEF ForwardedInOrder, Written
<1>4. ASSUME UNCHANGED <<accepted, ch, wire, unsent, hand>>, conPc' = conPc
      PROVE  ForwardedInOrder'
  BY <1>3, <1>4 DEF InHand
<1>5. ASSUME NEW s \in Signals, Arrive(s)
      PROVE  ForwardedInOrder'
  BY <1>4, <1>5 DEF Arrive, chanVars, handlerVars, connVars
<1>6. ASSUME NEW s \in Signals, Deliver(s)
      PROVE  ForwardedInOrder'
  <2>1. UNCHANGED <<wire, unsent, hand, conPc>>
    BY <1>6 DEF Deliver, handlerVars, connVars
  <2>2. CASE Len(ch) < Places
    <3>1. ch' = Append(ch, s) /\ accepted' = Append(accepted, s) /\ s \in Subjects
      BY <1>6, <2>2 DEF Deliver, Subjects
    <3>2. Append(((W \o U) \o InHand) \o ch, s) = ((W \o U) \o InHand) \o Append(ch, s)
      <4> DEFINE P == (W \o U) \o InHand
      <4>1. P \in Seq(Subjects) /\ ch \in Seq(Subjects) /\ s \in Subjects
        BY <1>1, <3>1
      <4> HIDE DEF P
      <4>2. P \o ch \in Seq(Subjects) /\ <<s>> \in Seq(Subjects)
        BY <4>1, ConcatProperties
      <4>3. Append(P \o ch, s) = (P \o ch) \o <<s>> /\ Append(ch, s) = ch \o <<s>>
        BY <4>1, <4>2, AppendIsConcat
      <4>4. Append(P \o ch, s) = P \o Append(ch, s)
        BY <4>1, <4>2, <4>3, Regroup
      <4> QED BY <4>4 DEF P
    <3> QED BY <1>2, <2>1, <3>1, <3>2 DEF ForwardedInOrder, Written, InHand
  <2>3. CASE ~(Len(ch) < Places)
    BY <1>4, <1>6, <2>1, <2>3 DEF Deliver, chanVars
  <2> QED BY <2>2, <2>3
<1>7. CASE ConnEnds
  BY <1>4, <1>7 DEF ConnEnds, chanVars, handlerVars
<1>8. CASE Notify
  BY <1>3, <1>8 DEF Notify, chanVars, connVars, InHand
<1>9. CASE TakeSignal
  <2>1. /\ ch # <<>> /\ ch' = Tail(ch) /\ InHand = <<>> /\ InHand' = <<Head(ch)>>
        /\ UNCHANGED <<accepted, wire, unsent>>
    BY <1>9 DEF TakeSignal, InHand, connVars
  <2>2. /\ ch = <<Head(ch)>> \o ch' /\ ch' \in Seq(Subjects) /\ <<Head(ch)>> \in Seq(Subjects)
    BY <1>1, <2>1, HeadThenTail, HeadTailProperties
  <2>3. (W \o U) \o InHand = W \o U
    BY <1>1, <2>1, ConcatEmptySeq
  <2>4. (W \o U) \o ch = ((W \o U) \o <<Head(ch)>>) \o ch'
    <3> DEFINE P == W \o U
    <3>1. P \in Seq(Subjects)
      BY <1>1
    <3> HIDE DEF P
    <3>2. P \o (<<Head(ch)>> \o ch') = (P \o <<Head(ch)>>) \o ch'
      BY <2>2, <3>1, Regroup
    <3> QED BY <2>2, <3>2 DEF P
  <2>5. accepted' = ((W \o U) \o InHand') \o ch'
    BY <1>2, <2>1, <2>3, <2>4
  <2> QED BY <2>1, <2>5 DEF ForwardedInOrder, Written
<1>10. CASE GetSize
  BY <1>3, <1>10 DEF GetSize, chanVars, connVars, InHand
<1>11. CASE Forward
  <2>1. /\ InHand = <<hand>> /\ Written = wire /\ conPc = "write"
        /\ UNCHANGED <<accepted, ch, hand>>
    BY <1>1, <1>11 DEF Forward, InHand, chanVars
  <2>2. hand \in Subjects /\ Sent.about = hand /\ Sent \in Messages /\ hand # "close"
    BY PartsFacts, SentFacts DEF ControlInv, ControlTypeOK, Signals
  <2>3. CASE conPc' = "close" /\ UNCHANGED connVars
    BY <1>3, <2>1, <2>3 DEF InHand, connVars
  <2>4. CASE ~writeErr /\ wire' = Append(wire, Sent) /\ conPc' = "receive" /\ UNCHANGED unsent
    <3>1. unsent = <<>> /\ U = <<>>
      <4>1. unsent = <<>>
        BY <2>4 DEF ControlInv, HandlerInv
      <4>2. Len(U) = 0
        BY <1>1, <4>1, AboutsOfMessages
      <4> QED BY <1>1, <4>1, <4>2, EmptySeq
    <3>2. Written' = wire'
      BY <1>1, <2>2, <2>4, LastOfAppend DEF Written
    <3>3. Abouts(Written)' = Append(W, hand) /\ Append(W, hand) = W \o <<hand>>
      BY <1>1, <2>1, <2>2, <2>4, <3>2, AboutsOfAppend, AppendIsConcat
    <3>4. (W \o U) \o InHand = W \o <<hand>>
      BY <1>1, <2>1, <3>1, ConcatEmptySeq
    <3>5. InHand' = <<>> /\ W \o <<hand>> \in Seq(Subjects)
      BY <1>1, <2>4, ConcatProperties DEF InHand
    <3>6. ((W \o <<hand>>) \o U) \o <<>> = W \o <<hand>>
      BY <3>1, <3>5, ConcatEmptySeq
    <3> QED BY <1>2, <2>1, <2>4, <3>3, <3>4, <3>5, <3>6 DEF ForwardedInOrder
  <2>5. CASE unsent' = Append(unsent, Sent) /\ conPc' = "receive" /\ UNCHANGED wire
    <3>1. Abouts(unsent)' = Append(U, hand) /\ Append(U, hand) = U \o <<hand>>
      BY <1>1, <2>2, <2>5, AboutsOfAppend, AppendIsConcat
    <3>2. (W \o U) \o InHand = W \o (U \o <<hand>>) /\ W \o (U \o <<hand>>) \in Seq(Subjects)
      <4>1. W \in Seq(Subjects) /\ U \in Seq(Subjects) /\ <<hand>> \in Seq(Subjects)
        BY <1>1, <2>1
      <4> QED BY <2>1, <4>1, Regroup
    <3>3. InHand' = <<>> /\ Written' = Written
      BY <2>5 DEF InHand, Written
    <3>4. (W \o (U \o <<hand>>)) \o <<>> = W \o (U \o <<hand>>)
      BY <3>2, ConcatEmptySeq
    <3> QED BY <1>2, <2>1, <3>1, <3>2, <3>3, <3>4 DEF ForwardedInOrder
  <2> QED BY <1>11, <2>3, <2>4, <2>5 DEF Forward, AfterError, Sent, connVars
<1>12. CASE SendClose
  <2>1. UNCHANGED <<accepted, ch, unsent, hand>> /\ conPc = "close" /\ conPc' = "returned"
    BY <1>12 DEF SendClose, chanVars
  <2>2. Written' = Written
    <3>1. CASE wire' = wire
      BY <3>1 DEF Written
    <3>2. CASE wire' = Append(wire, Message("close", 0))
      <4>1. Message("close", 0) \in Messages /\ Message("close", 0).about = "close"
        BY ControlAssumption DEF Message, Messages, Subjects
      <4>2. wire' # <<>> /\ Last(wire') = Message("close", 0) /\ Front(wire') = wire
        BY <1>1, <3>2, <4>1, LastOfAppend
      <4>3. Written' = wire
        BY <4>1, <4>2 DEF Written
      <4> QED BY <1>1, <2>1, <4>3
    <3> QED BY <1>12, <3>1, <3>2 DEF SendClose
  <2> QED BY <1>2, <2>1, <2>2 DEF ForwardedInOrder, InHand
<1>13. CASE UNCHANGED controlVars
  BY <1>4, <1>13 DEF controlVars, chanVars, handlerVars, connVars
<1> QED BY <1>5, <1>6, <1>7, <1>8, <1>9, <1>10, <1>11, <1>12, <1>13 DEF ControlNext, Handler

(* What the connection shows follows the message that goes onto it.          *)
LEMMA ShowsOfAppend ==
  ASSUME ControlInv, NEW m \in Messages, wire' = Append(wire, m)
  PROVE  /\ m.about = "winch" => Shows(m.size)'
         /\ m.about # "winch" => \A n \in 0 .. MaxSize : Shows(n) => Shows(n)'
<1>1. /\ DOMAIN wire' = 1 .. Len(wire) + 1 /\ wire'[Len(wire) + 1] = m
      /\ Len(wire) \in Nat /\ DOMAIN wire = 1 .. Len(wire)
      /\ \A k \in 1 .. Len(wire) : wire'[k] = wire[k]
  BY PartsFacts, AppendProperties, LenProperties
<1>2. ASSUME m.about = "winch"
      PROVE  Shows(m.size)'
  <2>1. Len(wire) + 1 \in AboutSize' /\ \A j \in AboutSize' : j <= Len(wire) + 1
    BY <1>1, <1>2 DEF AboutSize
  <2> QED BY <1>1, <2>1 DEF Shows
<1>3. ASSUME m.about # "winch", NEW n \in 0 .. MaxSize, Shows(n)
      PROVE  Shows(n)'
  <2>1. AboutSize' = AboutSize /\ \A k \in AboutSize : wire'[k] = wire[k]
    BY <1>1, <1>3 DEF AboutSize
  <2> QED BY <1>3, <2>1 DEF Shows
<1> QED BY <1>2, <1>3

(* A size that changed is still to come: a winch is in the channel or in     *)
(* hand, or it is on the wire.                                               *)
LEMMA SizeStep ==
  ControlInv /\ [ControlNext]_controlVars => (ResizeNotForgotten /\ LateSize)'
<1> SUFFICES ASSUME ControlInv, [ControlNext]_controlVars
             PROVE  (ResizeNotForgotten /\ LateSize)'
  OBVIOUS
<1> USE DEF ControlInv
<1>1. ASSUME NEW s \in Signals, Arrive(s)
      PROVE  (ResizeNotForgotten /\ LateSize)'
  <2>1. UNCHANGED <<ch, conPc, hand, size, wire, unsent>>
    BY <1>1 DEF Arrive, chanVars, handlerVars, connVars
  <2>2. /\ \A n : Shows(n)' <=> Shows(n)
        /\ Ended' <=> Ended
    BY <2>1 DEF Shows, AboutSize, Ended, Abouts
  <2>3. WinchComes => WinchComes'
    BY <1>1, <2>1 DEF Arrive, WinchComes
  <2>4. CASE window' = window
    BY <1>1, <2>1, <2>2, <2>3, <2>4
       DEF Arrive, ResizeNotForgotten, LateSize, WinchComes
  <2>5. CASE window' # window
    <3>1. WinchComes' \/ missed'
      BY <1>1, <2>5 DEF Arrive, WinchComes
    <3> QED BY <3>1 DEF ResizeNotForgotten, LateSize, WinchComes
  <2> QED BY <2>4, <2>5
<1>2. ASSUME NEW s \in Signals, Deliver(s)
      PROVE  (ResizeNotForgotten /\ LateSize)'
  <2>1. UNCHANGED <<window, conPc, hand, size, wire, unsent>>
    BY <1>2 DEF Deliver, handlerVars, connVars
  <2>2. /\ \A n : Shows(n)' <=> Shows(n)
        /\ Ended' <=> Ended
    BY <2>1 DEF Shows, AboutSize, Ended, Abouts
  <2>3. (WinchComes \/ missed) => (WinchComes \/ missed)'
    <3>1. CASE Len(ch) < Places
      <4>1. ToSet(ch)' = ToSet(ch) \cup {s}
        <5>1. ch' = Append(ch, s) /\ ch \in Seq(Signals)
          BY <1>2, <3>1 DEF Deliver, ControlTypeOK
        <5> QED BY <5>1, MembersOfAppend
      <4> QED BY <1>2, <3>1, <4>1 DEF Deliver, WinchComes
    <3>2. CASE ~(Len(ch) < Places)
      BY <1>2, <3>2 DEF Deliver, WinchComes, chanVars
    <3> QED BY <3>1, <3>2
  <2> QED BY <2>1, <2>2, <2>3 DEF ResizeNotForgotten, LateSize, WinchComes
<1>3. ASSUME UNCHANGED <<window, pending, ch, conPc, hand, size, wire, unsent, missed>>
      PROVE  (ResizeNotForgotten /\ LateSize)'
  <2>1. /\ \A n : Shows(n)' <=> Shows(n)
        /\ Ended' <=> Ended
    BY <1>3 DEF Shows, AboutSize, Ended, Abouts
  <2> QED BY <1>3, <2>1 DEF ResizeNotForgotten, LateSize, WinchComes
<1>4. CASE ConnEnds
  BY <1>3, <1>4 DEF ConnEnds, signalVars, chanVars, handlerVars
<1>5. CASE Notify
  <2>1. UNCHANGED <<window, pending, ch, wire, unsent, missed>>
    BY <1>5 DEF Notify, signalVars, chanVars, connVars
  <2>2. /\ \A n : Shows(n)' <=> Shows(n)
        /\ Ended => Ended'
    BY <1>5, <2>1 DEF Notify, Shows, AboutSize, Ended, Abouts
  <2> QED BY <1>5, <2>1, <2>2 DEF Notify, ResizeNotForgotten, LateSize
<1>6. CASE TakeSignal
  <2>1. UNCHANGED <<window, pending, wire, unsent, missed>> /\ conPc = "receive" /\ ch # <<>>
    BY <1>6 DEF TakeSignal, signalVars, connVars
  <2>2. /\ \A n : Shows(n)' <=> Shows(n)
        /\ Ended => Ended'
    BY <2>1 DEF Shows, AboutSize, Ended, Abouts
  <2>3. WinchComes => WinchComes' \/ conPc' = "size"
    <3>1. ToSet(ch) \subseteq {hand'} \cup ToSet(ch)'
      BY <1>6, MembersOfTail DEF TakeSignal, ControlTypeOK
    <3> QED BY <1>6, <2>1, <3>1 DEF TakeSignal, WinchComes
  <2>4. conPc' = "write" => hand' # "winch"
    BY <1>6 DEF TakeSignal
  <2> QED BY <2>1, <2>2, <2>3, <2>4 DEF ResizeNotForgotten, LateSize, WinchComes
<1>7. CASE GetSize
  <2>1. UNCHANGED <<window, hand>> /\ hand = "winch"
    BY <1>7 DEF GetSize, HandlerInv, signalVars
  <2>2. CASE size' = window /\ conPc' = "write"
    BY <2>1, <2>2 DEF ResizeNotForgotten, LateSize
  <2>3. CASE conPc' = "close"
    BY <2>3 DEF ResizeNotForgotten, LateSize, Ended
  <2> QED BY <1>7, <2>2, <2>3 DEF GetSize, SizeNow
<1>8. CASE Forward
  <2>1. /\ UNCHANGED <<window, pending, ch, hand, size, missed>> /\ conPc = "write"
        /\ conPc' # "write"
    BY <1>8 DEF Forward, signalVars, chanVars, AfterError
  <2>2. /\ Sent \in Messages /\ Sent.about = hand
        /\ hand = "winch" => Sent.size = size
    BY SentFacts
  <2>3. LateSize'
    BY <2>1 DEF LateSize
  <2>4. CASE conPc' = "close"
    BY <2>3, <2>4 DEF ResizeNotForgotten, Ended
  <2>5. CASE wire' = Append(wire, Sent) /\ UNCHANGED unsent
    <3>1. CASE hand = "winch" /\ size = window
      BY <2>1, <2>2, <2>3, <2>5, <3>1, ShowsOfAppend DEF ResizeNotForgotten
    <3>2. CASE hand = "winch" /\ size # window
      BY <2>1, <2>3, <3>2 DEF LateSize, ResizeNotForgotten, WinchComes
    <3>3. CASE hand # "winch"
      <4>1. Shows(window) => Shows(window)'
        BY <2>1, <2>2, <2>5, <3>3, ShowsOfAppend DEF ControlTypeOK
      <4>2. Ended => Ended'
        BY <2>1, <2>5 DEF Ended, Abouts
      <4> QED BY <2>1, <2>3, <3>3, <4>1, <4>2 DEF ResizeNotForgotten
    <3> QED BY <3>1, <3>2, <3>3
  <2>6. CASE unsent' = Append(unsent, Sent) /\ UNCHANGED wire
    <3>1. /\ ToSet(Abouts(unsent))' = ToSet(Abouts(unsent)) \cup {hand}
      <4>1. Abouts(unsent)' = Append(Abouts(unsent), hand)
        BY <2>2, <2>6, PartsFacts, AboutsOfAppend
      <4> QED BY <4>1, PartsFacts, MembersOfAppend
    <3>2. CASE hand = "winch"
      BY <2>3, <3>1, <3>2 DEF ResizeNotForgotten, Ended
    <3>3. CASE hand # "winch"
      <4>1. \A n : Shows(n)' <=> Shows(n)
        BY <2>6 DEF Shows, AboutSize
      <4>2. Ended => Ended'
        BY <2>1, <3>1 DEF Ended
      <4> QED BY <2>1, <2>3, <3>3, <4>1, <4>2 DEF ResizeNotForgotten
    <3> QED BY <3>2, <3>3
  <2> QED BY <1>8, <2>4, <2>5, <2>6 DEF Forward, AfterError, Sent, connVars
<1>9. CASE SendClose
  BY <1>9 DEF SendClose, ResizeNotForgotten, LateSize, Ended
<1>10. CASE UNCHANGED controlVars
  BY <1>3, <1>10 DEF controlVars, signalVars, chanVars, handlerVars, connVars
<1> QED BY <1>1, <1>2, <1>4, <1>5, <1>6, <1>7, <1>8, <1>9, <1>10 DEF ControlNext, Handler

-----------------------------------------------------------------------------
(* The theorems. *)

(* The inductive invariant holds in every reachable state.                   *)
LEMMA ControlInvariant ==
  ControlSpec => []ControlInv
<1>1. ControlInv /\ [ControlNext]_controlVars => ControlInv'
  BY TypeStep, HandlerStep, OrderStep, SizeStep DEF ControlInv
<1> QED BY ControlInvInit, <1>1, PTL DEF ControlSpec

(* The handler's state keeps its types; the channel keeps to its places and  *)
(* the connection to its room, for every capacity.                           *)
THEOREM ControlTypeCorrect ==
  ControlSpec => []ControlTypeOK
<1>1. ControlInv => ControlTypeOK
  BY DEF ControlInv
<1> QED BY ControlInvariant, <1>1, PTL

(* Signals are forwarded once each, as what they are and in the order in     *)
(* which the channel took them, up to the one that the handler gave up on,   *)
(* also when the connection fails and a failure is not seen.                 *)
THEOREM SignalsInOrder ==
  ControlSpec => []ForwardedInOrder
<1>1. ControlInv => ForwardedInOrder
  BY DEF ControlInv
<1> QED BY ControlInvariant, <1>1, PTL

(* While the connection says another size than the window has, a signal or a *)
(* message is under way that will correct it, although signals of a kind are *)
(* merged and a full channel drops them, unless a signal was missed for good *)
(* or the handler ended.                                                     *)
THEOREM ResizeRemembered ==
  ControlSpec => []ResizeNotForgotten
<1>1. ControlInv => ResizeNotForgotten
  BY DEF ControlInv
<1> QED BY ControlInvariant, <1>1, PTL

=============================================================================
