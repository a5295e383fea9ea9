--------------------------- MODULE ControlChannel ---------------------------
(***************************************************************************)
(* The client's end of the control connection of an interactive session,   *)
(* controlSocketHandler of cmd/vsock-client/exec_unix.go: signals of the   *)
(* process come through a channel that drops what does not fit, and are    *)
(* forwarded one after the other; a change of the window's size is         *)
(* forwarded as the size it has when its signal is handled.                *)
(*                                                                         *)
(* The server never reads the connection (exec.go:151 blocks before it),   *)
(* so what is written stays on the wire.  "term" and "int" stand for the   *)
(* signals that are forwarded by number.                                   *)
(***************************************************************************)
EXTENDS Naturals, Sequences, SequencesExt

CONSTANTS
  ChanCap,   \* places of the channel; ten in the code
  WireCap,   \* messages the connection holds before a writer blocks
  MaxSize,   \* the sizes the window can have are 0 .. MaxSize
  MaxSignals \* bound of the signals that arrive

ASSUME ControlAssumption ==
  ChanCap \in Nat \ {0} /\ WireCap \in Nat /\ MaxSize \in Nat /\ MaxSignals \in Nat

Signals == {"winch", "term", "int"}

VARIABLES
  window,   \* the window's size
  pending,  \* signals that arrived and are not delivered yet; one of each kind
  arrived,  \* how many arrived
  ch,       \* the channel
  conPc,    \* where the handler is
  hand,     \* the signal in its hand
  size,     \* the size that GetSize returned for it
  wire,     \* the messages written, in order
  down,     \* the connection is closed or lost
  writeErr, \* the connection remembers a failed write
  killed,   \* the process died of a signal
  accepted, \* (history) the signals that the channel took
  unsent,   \* (history) the messages that the handler took for written
  missed    \* (history) a "winch" was ignored, or dropped with none in the
            \* channel, since the size was last asked for

signalVars  == <<window, pending, arrived, killed>>
chanVars    == <<ch, accepted>>
handlerVars == <<conPc, hand, size>>
connVars    == <<wire, down, writeErr, unsent>>
controlVars == <<signalVars, chanVars, handlerVars, connVars, missed>>

\* A message: what it is about, and the size that a "winch" reports.
Message(s, n) == [about |-> s, size |-> n]

\* The size that the POST carried is what the server starts with.
ControlInit ==
  /\ window = 0
  /\ pending = {}
  /\ arrived = 0
  /\ ch = <<>>
  /\ conPc = "notify"
  /\ hand = "winch"
  /\ size = 0
  /\ wire = <<>>
  /\ down = FALSE
  /\ writeErr = FALSE
  /\ killed = FALSE
  /\ accepted = <<>>
  /\ unsent = <<>>
  /\ missed = FALSE

-----------------------------------------------------------------------------
(* External: signals, the Go runtime and the network.                       *)

\* Before signal.Notify a "winch" is ignored and another signal kills.
Arrive(s) ==
  /\ arrived < MaxSignals
  /\ arrived' = arrived + 1
  /\ IF s = "winch" THEN \E n \in 0 .. MaxSize : n # window /\ window' = n
                    ELSE UNCHANGED window
  /\ pending' = IF conPc = "notify" THEN pending ELSE pending \cup {s}
  /\ killed' = (conPc = "notify" /\ s # "winch")
  /\ missed' = (missed \/ (conPc = "notify" /\ s = "winch"))
  /\ UNCHANGED <<chanVars, handlerVars, connVars>>

\* (Mutant: one place more.)
OneMorePlace == ChanCap + 1

Places == ChanCap

\* Signals of different kinds that are pending are delivered in any order.  The
\* send to the channel does not block.
Deliver(s) ==
  /\ s \in pending
  /\ pending' = pending \ {s}
  /\ IF Len(ch) < Places
       THEN ch' = Append(ch, s) /\ accepted' = Append(accepted, s) /\ UNCHANGED missed
       ELSE missed' = (missed \/ (s = "winch" /\ s \notin ToSet(ch))) /\ UNCHANGED chanVars
  /\ UNCHANGED <<window, arrived, killed, handlerVars, connVars>>

ConnEnds ==
  /\ ~down
  /\ down' = TRUE
  /\ UNCHANGED <<signalVars, chanVars, handlerVars, wire, writeErr, unsent, missed>>

-----------------------------------------------------------------------------
(* controlSocketHandler. *)

Notify ==
  /\ conPc = "notify"
  /\ conPc' = "receive"
  /\ UNCHANGED <<signalVars, chanVars, hand, size, connVars, missed>>

TakeSignal ==
  /\ conPc = "receive"
  /\ ch # <<>>
  /\ hand' = Head(ch)
  /\ ch' = Tail(ch)
  /\ conPc' = IF hand' = "winch" THEN "size" ELSE "write"
  /\ UNCHANGED <<signalVars, accepted, size, connVars, missed>>

\* (Mutant: the size is asked for once.)
CachedSize == IF wire = <<>> THEN window ELSE size

SizeNow == window

\* termios.GetSize fails when stdout is no terminal.
GetSize ==
  /\ conPc = "size"
  /\ \/ size' = SizeNow /\ conPc' = "write" /\ missed' = FALSE
     \/ UNCHANGED <<size, missed>> /\ conPc' = "close"
  /\ UNCHANGED <<signalVars, chanVars, hand, connVars>>

\* (Mutants: one case of the switch forwards its neighbour's signal; an error
\* is only logged.)
Neighbour(s) == IF s = "term" THEN "int" ELSE s
OnlyLogged == "receive"

\* Each case of the switch forwards its own signal.
ForwardedAs(s) == s

AfterError == "close"

\* NextWriter fails once the connection remembers an error.  Write fills a
\* buffer.  Close writes it out, which may block or fail: its error is ignored,
\* and remembered by the connection.
Forward ==
  /\ conPc = "write"
  /\ LET m == Message(ForwardedAs(hand), IF hand = "winch" THEN size ELSE 0)
     IN \/ /\ writeErr
           /\ conPc' = AfterError
           /\ UNCHANGED connVars
        \/ /\ ~writeErr /\ ~down
           /\ Len(wire) < WireCap
           /\ wire' = Append(wire, m)
           /\ conPc' = "receive"
           /\ UNCHANGED <<down, writeErr, unsent>>
        \/ /\ ~writeErr /\ down
           /\ writeErr' = TRUE
           /\ unsent' = Append(unsent, m)
           /\ conPc' = "receive"
           /\ UNCHANGED <<wire, down>>
  /\ UNCHANGED <<signalVars, chanVars, hand, size, missed>>

\* The deferred close message: written if the connection still takes it.
SendClose ==
  /\ conPc = "close"
  /\ writeErr \/ down \/ Len(wire) < WireCap
  /\ wire' = IF writeErr \/ down THEN wire ELSE Append(wire, Message("close", 0))
  /\ writeErr' = TRUE
  /\ conPc' = "returned"
  /\ UNCHANGED <<signalVars, chanVars, hand, size, down, unsent, missed>>

Handler == Notify \/ TakeSignal \/ GetSize \/ Forward \/ SendClose

ControlNext ==
  /\ ~killed
  /\ \/ \E s \in Signals : Arrive(s) \/ Deliver(s)
     \/ ConnEnds
     \/ Handler

ControlSpec ==
  /\ ControlInit
  /\ [][ControlNext]_controlVars
  /\ WF_controlVars(~killed /\ Handler)
  /\ \A s \in Signals : WF_controlVars(~killed /\ Deliver(s))

-----------------------------------------------------------------------------
(* Properties. *)

(* The types of the handler's state; the channel keeps to its places and the *)
(* connection to its room.                                                   *)
ControlTypeOK ==
  /\ window \in 0 .. MaxSize
  /\ pending \subseteq Signals
  /\ arrived \in 0 .. MaxSignals
  /\ ch \in Seq(Signals) /\ Len(ch) <= ChanCap
  /\ conPc \in {"notify", "receive", "size", "write", "close", "returned"}
  /\ hand \in Signals
  /\ size \in 0 .. MaxSize
  /\ wire \in Seq([about : Signals \cup {"close"}, size : 0 .. MaxSize]) /\ Len(wire) <= WireCap
  /\ unsent \in Seq([about : Signals, size : 0 .. MaxSize])
  /\ down \in BOOLEAN /\ writeErr \in BOOLEAN /\ killed \in BOOLEAN /\ missed \in BOOLEAN

Abouts(s) == [k \in DOMAIN s |-> s[k].about]

InHand == IF conPc \in {"notify", "receive"} THEN <<>> ELSE <<hand>>

\* The messages on the connection, up to the one that closes it.
Written == IF wire # <<>> /\ Last(wire).about = "close" THEN Front(wire) ELSE wire

(* The handler forwards what the channel took, each signal once, as what it  *)
(* is and in order; the one it gave up on is the last it took.               *)
ForwardedInOrder == accepted = Abouts(Written) \o Abouts(unsent) \o InHand \o ch

\* The last message on the connection about the size says n; the POST said 0.
AboutSize == {k \in DOMAIN wire : wire[k].about = "winch"}

Shows(n) ==
  \/ AboutSize = {} /\ n = 0
  \/ \E k \in AboutSize : wire[k].size = n /\ \A j \in AboutSize : j <= k

\* The handler has ended, or a message about the size was lost unseen.
Ended == conPc \in {"close", "returned"} \/ "winch" \in ToSet(Abouts(unsent))

(* When the window has another size than the connection says, a message with *)
(* that very size is under way, or a signal that will ask for it: although   *)
(* signals of a kind are merged, and dropped when the channel is full.       *)
(* Three cases are not promised: the signal was ignored before Notify, or    *)
(* dropped by a channel full of other ones (missed); the handler has ended,  *)
(* or is about to; its message was lost by a write that failed unseen.       *)
ResizeNotForgotten ==
  ~Shows(window) =>
    \/ "winch" \in pending \cup ToSet(ch)
    \/ conPc = "size"
    \/ conPc = "write" /\ hand = "winch" /\ size = window
    \/ missed
    \/ Ended

(* A new size gets onto the connection, unless its signal was missed, the    *)
(* handler has ended, or the connection, which the server does not read, is  *)
(* full.                                                                     *)
ResizeIsShown ==
  ~Shows(window) ~> (Shows(window) \/ missed \/ Ended \/ killed \/ Len(wire) = WireCap)

(* A handler whose write failed unseen ends with the next signal.            *)
FailureEndsHandler == (writeErr /\ ch # <<>>) ~> conPc = "returned"

=============================================================================
