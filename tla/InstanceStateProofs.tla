------------------------ MODULE InstanceStateProofs ------------------------
(***************************************************************************)
(* The answer to /state is right about what did not change while it was    *)
(* made, for every set of interfaces, names and addresses and any amount   *)
(* of memory.                                                              *)
(*                                                                         *)
(* RenderState is a walk of ProcessCount with steps of its own, so what is *)
(* proved of the walk holds of the answer.  For the memory: the peak is    *)
(* never below the usage, and it is read last.  For the network: an        *)
(* interface that is steady, neither renamed nor removed since the list    *)
(* was made, is either still to be shown, under its own name and nobody    *)
(* else's, or has been shown and nothing to come overwrites its entry.     *)
(***************************************************************************)
EXTENDS InstanceState, ProcessCountProofs, SequenceTheorems

\* What was read as the usage stays below the peak, which is read last.
MemoryInv ==
  /\ troubled \in Troubles
  /\ usage \in 1 .. MaxUsage /\ peak \in 1 .. MaxUsage /\ usage <= peak
  /\ memory \in [usage : 0 .. MaxUsage, peak : 0 .. MaxUsage]
  /\ memory.usage <= peak
  /\ renderPc \in {"usage", "peak"} => memory.peak = 0
  /\ PeakNotBelowUsage

Item == [iface : Ifaces, name : Names]

\* The entries that an address can have in the answer.
Shown == {e \in [address : UNION {AddrsOf[f] : f \in Ifaces}, scope : {"link", "local", "global"}] :
            e.scope = Scope(e.address)}

Counter == Ifaces \cup {NoName}

Answer == [counters : [1 .. Files -> Counter], addresses : SUBSET Shown]

NetworkTypes ==
  /\ renderPc \in RenderPcs
  /\ name \in [Ifaces -> Names \cup {NoName}]
  /\ toShow \in Seq(Item)
  /\ counters \in Seq(Counter)
  /\ DOMAIN result \subseteq Names /\ result \in [DOMAIN result -> Answer]
  /\ changed \subseteq Ifaces
  /\ unread \subseteq Ifaces \X (1 .. Files + 1)

\* No two interfaces have a name in common.
NamesDiffer == \A f, g \in HasName : name[f] = name[g] => f = g

\* The list is empty unless the loop is in it, the counters of one interface
\* are read at a time, and there is no answer before.
LoopInv ==
  /\ renderPc \in {"counters", "addresses"} => toShow # <<>>
  /\ renderPc \in {"usage", "peak", "list"} => result = <<>> /\ unread = {} /\ toShow = <<>>
  /\ renderPc = "processes" => toShow = <<>>
  /\ renderPc = "counters" => Len(counters) < Files
  /\ renderPc = "addresses" => Len(counters) = Files
  /\ renderPc \notin {"counters", "addresses"} => counters = <<>>

\* Interfaces that have kept their name since the list was made.
Kept == HasName \ changed

\* f is still to be shown, under its name.
Coming(f) == \E k \in 1 .. Len(toShow) : toShow[k] = [iface |-> f, name |-> name[f]]

OwnOrZero(f, k) == IF <<f, k>> \in unread THEN NoName ELSE f

OwnOrNone(f) == IF <<f, Files + 1>> \in unread THEN {} ELSE AddrsOf[f]

\* f is in the answer with what could be read, and nothing to come is of it or
\* has its name.
IsShown(f) ==
  /\ name[f] \in DOMAIN result
  /\ \A k \in 1 .. Files : result[name[f]].counters[k] = OwnOrZero(f, k)
  /\ {e.address : e \in result[name[f]].addresses} = OwnOrNone(f)
  /\ \A k \in 1 .. Len(toShow) : toShow[k].name # name[f] /\ toShow[k].iface # f

ItemsDiffer ==
  \A j, k \in 1 .. Len(toShow) :
     toShow[j].name = toShow[k].name \/ toShow[j].iface = toShow[k].iface => j = k

ShowInv ==
  result # <<>> \/ renderPc \in {"counters", "addresses"} =>
    \A f \in Kept : Coming(f) \/ IsShown(f)

\* The counters read so far are those of the first interface of the list, if it
\* is kept.
HeadInv ==
  renderPc \in {"counters", "addresses"} =>
    \A f \in Kept : toShow[1] = [iface |-> f, name |-> name[f]] =>
      \A k \in 1 .. Len(counters) : counters[k] = OwnOrZero(f, k)

\* Of what is to come nothing has failed but counters of the first.
UnreadInv ==
  \A j \in 1 .. Len(toShow) : \A k \in 1 .. Files + 1 :
     <<toShow[j].iface, k>> \in unread => j = 1 /\ k <= Len(counters)

NetworkInv ==
  NetworkTypes /\ NamesDiffer /\ LoopInv /\ ItemsDiffer /\ ShowInv /\ HeadInv /\ UnreadInv

-----------------------------------------------------------------------------
(* The scope of an address. *)

(* The tests on the text find the scope of every address but the inet6       *)
(* addresses whose text begins with 127 and the link-local ones whose text   *)
(* does not begin with fe80, and never that of those.                        *)
LEMMA ScopeOfText ==
  ASSUME NEW a \in Addresses
  PROVE  Scope(a) = ScopeByPrefix(a) <=> ~Misread(a)
<1>1. CASE a \in [family : {"inet"}, lead : 0 .. 255, second : 0 .. 255]
  <2>1. a.family = "inet" /\ a.lead \in Int /\ a.second \in Int
    BY <1>1
  <2> QED BY <2>1 DEF Scope, Begins127, Begins169_254, BeginsFe80, IsColonColon1,
          ScopeByPrefix, IsLoopback, IsLinkLocal, Misread
<1>2. CASE a \in [family : {"inet6"}, lead : {g \in Nat : g < 65536}, second : {0, 1}]
  <2>1. a.family = "inet6" /\ a.lead \in Nat
    BY <1>2
  <2>2. /\ Begins127(a) <=> a.lead \in {295} \cup 4720 .. 4735
        /\ ~Begins169_254(a)
        /\ BeginsFe80(a) <=> a.lead = 65152
        /\ IsColonColon1(a) <=> a.lead = 0 /\ a.second = 1
    BY <2>1 DEF Begins127, Begins169_254, BeginsFe80, IsColonColon1
  <2>3. /\ IsLoopback(a) <=> a.lead = 0 /\ a.second = 1
        /\ IsLinkLocal(a) <=> a.lead \in 65152 .. 65215
    BY <2>1 DEF IsLoopback, IsLinkLocal
  <2>4. Misread(a) <=> a.lead \in {295} \cup 4720 .. 4735 \/ a.lead \in 65153 .. 65215
    BY <2>1 DEF Misread
  <2> QED BY <2>1, <2>2, <2>3, <2>4 DEF Scope, ScopeByPrefix
<1> QED BY <1>1, <1>2 DEF Addresses

(* An address's entry has the scope of its text; the entries of an interface *)
(* have its own addresses, or none if they could not be read.                *)
LEMMA EntriesFacts ==
  ASSUME NEW f \in Ifaces, NEW fails \in BOOLEAN
  PROVE  /\ Entries(AddrsNow(f, fails)) \subseteq Shown
         /\ name[f] # NoName => {e.address : e \in Entries(AddrsNow(f, fails))} =
                                  IF fails THEN {} ELSE AddrsOf[f]
<1> DEFINE A == AddrsNow(f, fails)
<1>1. \A a : Scope(a) \in {"link", "local", "global"}
  BY DEF Scope
<1>2. A \subseteq AddrsOf[f]
  BY DEF AddrsNow
<1>3. Entries(A) = {[address |-> a, scope |-> Scope(a)] : a \in A}
  BY DEF Entries
<1>4. Entries(A) \subseteq Shown
  BY <1>1, <1>2, <1>3 DEF Shown
<1>5. {e.address : e \in Entries(A)} = A
  <2>1. \A e \in Entries(A) : e.address \in A
    BY <1>3
  <2>2. \A a \in A : \E e \in Entries(A) : e.address = a
    <3> SUFFICES ASSUME NEW a \in A PROVE \E e \in Entries(A) : e.address = a
      OBVIOUS
    <3>1. [address |-> a, scope |-> Scope(a)] \in Entries(A)
      BY <1>3
    <3>2. [address |-> a, scope |-> Scope(a)].address = a
      OBVIOUS
    <3> QED BY <3>1, <3>2
  <2> QED BY <2>1, <2>2
<1>6. name[f] # NoName => A = IF fails THEN {} ELSE AddrsOf[f]
  BY DEF AddrsNow
<1> QED BY <1>4, <1>5, <1>6

-----------------------------------------------------------------------------
(* The memory. *)

(* At the start neither file of the memory has been read.                    *)
LEMMA MemoryInit == InstanceInit => MemoryInv
BY InstanceAssumption DEF InstanceInit, MemoryInv, PeakNotBelowUsage

(* The usage is read before the peak, and the peak never falls.              *)
LEMMA MemoryStep ==
  MemoryInv /\ [InstanceNext]_instanceVars => MemoryInv'
<1> SUFFICES ASSUME MemoryInv, [InstanceNext]_instanceVars PROVE MemoryInv'
  OBVIOUS
<1> USE DEF PeakNotBelowUsage
<1>1. CASE ReadMemory
  <2>1. /\ UNCHANGED <<troubled, usage, peak>> /\ renderPc \in {"usage", "peak"}
        /\ renderPc' = IF renderPc = "usage" THEN "peak" ELSE "list"
    BY <1>1 DEF ReadMemory
  <2>2. CASE renderPc = "usage" /\ memory' = [memory EXCEPT !.usage = usage]
    <3>1. memory' \in [usage : 0 .. MaxUsage, peak : 0 .. MaxUsage]
          /\ memory'.usage = usage /\ memory'.peak = memory.peak
      BY <2>2, InstanceAssumption DEF MemoryInv
    <3> QED BY <2>1, <2>2, <3>1 DEF MemoryInv
  <2>3. CASE renderPc = "peak" /\ memory' = [memory EXCEPT !.peak = peak]
    <3>1. memory' \in [usage : 0 .. MaxUsage, peak : 0 .. MaxUsage]
          /\ memory'.usage = memory.usage /\ memory'.peak = peak
      BY <2>3, InstanceAssumption DEF MemoryInv
    <3> QED BY <2>1, <2>3, <3>1 DEF MemoryInv
  <2>4. CASE UNCHANGED memory
    BY <2>1, <2>4 DEF MemoryInv
  <2> QED BY <1>1, <2>2, <2>3, <2>4 DEF ReadMemory, FileRead
<1>2. CASE MemoryChanges
  <2>1. /\ usage' \in 1 .. MaxUsage /\ UNCHANGED <<renderPc, troubled, memory>>
        /\ peak' = IF usage' > peak THEN usage' ELSE peak
    BY <1>2 DEF MemoryChanges
  <2>2. memory.usage \in 0 .. MaxUsage
    BY DEF MemoryInv
  <2> QED BY <2>1, <2>2, InstanceAssumption DEF MemoryInv
<1>3. ASSUME UNCHANGED <<troubled, memoryVars>>, renderPc' \in {"usage", "peak"} => renderPc' = renderPc
      PROVE  MemoryInv'
  BY <1>3 DEF MemoryInv, memoryVars
<1>4. CASE ListInterfaces
  BY <1>3, <1>4 DEF ListInterfaces
<1>5. CASE ReadCounter \/ ReadAddresses
  BY <1>3, <1>5 DEF ReadCounter, ReadAddresses
<1>6. CASE ProcessesState \/ ProcessesChange
  BY <1>3, <1>6 DEF ProcessesState, ProcessesChange
<1>7. ASSUME NEW f \in Ifaces, InterfaceChanges(f)
      PROVE  MemoryInv'
  BY <1>3, <1>7 DEF InterfaceChanges
<1>8. CASE UNCHANGED instanceVars
  BY <1>3, <1>8 DEF instanceVars
<1> QED BY <1>1, <1>2, <1>4, <1>5, <1>6, <1>7, <1>8 DEF InstanceNext, RenderState, Guest

-----------------------------------------------------------------------------
(* The network. *)

(* At the start no interface has been listed.                                *)
LEMMA NetworkInit == InstanceInit => NetworkInv
<1> SUFFICES ASSUME InstanceInit PROVE NetworkInv
  OBVIOUS
<1>1. /\ renderPc = "usage" /\ toShow = <<>> /\ result = <<>> /\ changed = {}
      /\ counters = <<>> /\ unread = {}
      /\ name \in [Ifaces -> Names] /\ IsInjective(name)
  BY DEF InstanceInit
<1>2. toShow \in Seq(Item) /\ Len(toShow) = 0 /\ counters \in Seq(Counter)
  BY <1>1, EmptySeq
<1>3. DOMAIN result = {} /\ result \in [DOMAIN result -> Answer]
  BY <1>1
<1>4. NetworkTypes
  BY <1>1, <1>2, <1>3 DEF NetworkTypes, RenderPcs
<1>5. NamesDiffer
  BY <1>1 DEF NamesDiffer, IsInjective, HasName
<1>6. LoopInv /\ ItemsDiffer /\ ShowInv /\ HeadInv /\ UnreadInv
  BY <1>1, <1>2 DEF LoopInv, ItemsDiffer, ShowInv, HeadInv, UnreadInv
<1> QED BY <1>4, <1>5, <1>6 DEF NetworkInv

(* Nothing that the network's part is about, or only the place in the code.  *)
LEMMA OtherSteps ==
  ASSUME NetworkInv, UNCHANGED networkVars, renderPc' \in RenderPcs,
         renderPc' # renderPc => renderPc \in {"usage", "peak"} /\ renderPc' \in {"peak", "list"}
  PROVE  NetworkInv'
<1> USE DEF NetworkInv
<1>1. UNCHANGED <<name, toShow, counters, result, changed, unread>>
  BY DEF networkVars
<1>2. NetworkTypes' /\ NamesDiffer' /\ LoopInv' /\ ItemsDiffer' /\ UnreadInv'
  BY <1>1 DEF NetworkTypes, NamesDiffer, HasName, LoopInv, ItemsDiffer, UnreadInv
<1>3. Kept' = Kept /\ \A f : (Coming(f)' <=> Coming(f)) /\ (IsShown(f)' <=> IsShown(f))
  BY <1>1 DEF Kept, HasName, Coming, IsShown, OwnOrZero, OwnOrNone
<1>4. ShowInv'
  BY <1>1, <1>3 DEF ShowInv
<1>5. HeadInv'
  BY <1>1, <1>3 DEF HeadInv, OwnOrZero
<1> QED BY <1>2, <1>4, <1>5

(* The list has every interface that has a name, once.                       *)
LEMMA ListInterfacesInv ==
  ASSUME NetworkInv, ListInterfaces
  PROVE  NetworkInv'
<1> USE DEF NetworkInv
<1>1. /\ renderPc = "list" /\ UNCHANGED <<name, counters, result, unread>> /\ changed' = {}
      /\ result = <<>> /\ unread = {} /\ counters = <<>>
  BY DEF ListInterfaces, LoopInv
<1>2. PICK s \in SetToSeqs(HasName) \cup {<<>>} :
        /\ toShow' = [k \in DOMAIN s |-> [iface |-> s[k], name |-> name[s[k]]]]
        /\ renderPc' = IF s = <<>> THEN "processes" ELSE "counters"
  BY DEF ListInterfaces
<1>3. /\ s \in Seq(HasName) /\ DOMAIN s = 1 .. Len(s) /\ Len(s) \in Nat
      /\ \A j, k \in 1 .. Len(s) : s[j] = s[k] => j = k
      /\ s # <<>> => \A f \in HasName : \E k \in 1 .. Len(s) : s[k] = f
  <2>1. IsFiniteSet(HasName)
    BY InstanceAssumption, FS_Subset DEF HasName
  <2>2. CASE s \in SetToSeqs(HasName)
    <3>1. /\ s \in Seq(HasName)
          /\ \A a, b \in 1 .. Len(s) : s[a] = s[b] => a = b
          /\ \A c \in HasName : \E k \in 1 .. Len(s) : s[k] = c
      BY <2>1, <2>2, FieldsOfSet DEF Fields
    <3> QED BY <3>1, LenProperties
  <2>3. CASE s = <<>>
    BY <2>3, EmptySeq
  <2> QED BY <2>2, <2>3
<1>4. \A k \in 1 .. Len(s) : s[k] \in HasName /\ s[k] \in Ifaces /\ name[s[k]] \in Names
  BY <1>3, ElementOfSeq DEF NetworkTypes, HasName
<1>5. /\ toShow' \in [1 .. Len(s) -> Item] /\ toShow' \in Seq(Item) /\ Len(toShow') = Len(s)
      /\ \A k \in 1 .. Len(s) : /\ toShow'[k] = [iface |-> s[k], name |-> name[s[k]]]
                                /\ toShow'[k].iface = s[k]
                                /\ toShow'[k].name = name[s[k]]
  BY <1>2, <1>3, <1>4 DEF Item
<1>6. NetworkTypes'
  BY <1>1, <1>2, <1>5 DEF NetworkTypes, RenderPcs
<1>7. NamesDiffer'
  BY <1>1 DEF NamesDiffer, HasName
<1>8. LoopInv'
  <2>1. CASE s = <<>>
    <3>1. Len(toShow') = 0 /\ renderPc' = "processes"
      BY <1>2, <1>5, <2>1
    <3>2. toShow' = <<>>
      BY <1>5, <3>1, EmptySeq
    <3> QED BY <1>1, <3>1, <3>2 DEF LoopInv
  <2>2. CASE s # <<>>
    <3>1. Len(s) > 0
      BY <1>3, <2>2, EmptySeq
    <3>2. toShow' # <<>>
      BY <1>5, <3>1
    <3>3. counters' = <<>> /\ Len(counters') = 0
      BY <1>1, EmptySeq
    <3> QED BY <1>2, <2>2, <3>2, <3>3, InstanceAssumption DEF LoopInv
  <2> QED BY <2>1, <2>2
<1>9. ItemsDiffer'
  BY <1>3, <1>4, <1>5 DEF ItemsDiffer, NamesDiffer
<1>10. ShowInv'
  <2> SUFFICES ASSUME renderPc' = "counters", NEW f \in Kept'
               PROVE  Coming(f)'
    BY <1>1, <1>2 DEF ShowInv
  <2>1. f \in HasName
    BY <1>1 DEF Kept, HasName
  <2>2. s # <<>>
    BY <1>2
  <2>3. PICK k \in 1 .. Len(s) : s[k] = f
    BY <1>3, <2>1, <2>2
  <2>4. toShow'[k] = [iface |-> f, name |-> name'[f]] /\ k \in 1 .. Len(toShow')
    BY <1>1, <1>5, <2>3
  <2> QED BY <2>4 DEF Coming
<1>11. HeadInv' /\ UnreadInv'
  <2>1. Len(counters') = 0
    BY <1>1, EmptySeq
  <2> QED BY <1>1, <2>1 DEF HeadInv, UnreadInv
<1> QED BY <1>6, <1>7, <1>8, <1>9, <1>10, <1>11

(* The first interface of the rest of the list.                              *)
LEMMA HeadFacts ==
  ASSUME NetworkInv, renderPc \in {"counters", "addresses"}
  PROVE  /\ 1 \in 1 .. Len(toShow) /\ Len(toShow) \in Nat /\ toShow # <<>>
         /\ toShow[1] \in Item /\ toShow[1].name \in Names /\ toShow[1].iface \in Ifaces
         /\ toShow[1] = [iface |-> toShow[1].iface, name |-> toShow[1].name]
<1>1. toShow \in Seq(Item) /\ toShow # <<>>
  BY DEF NetworkInv, NetworkTypes, LoopInv
<1>2. 1 \in 1 .. Len(toShow) /\ Len(toShow) \in Nat
  BY <1>1, EmptySeq
<1>3. toShow[1] \in Item
  BY <1>1, <1>2, ElementOfSeq
<1> QED BY <1>1, <1>2, <1>3 DEF Item

(* What is read by the name of a kept interface is its own, and a failure is *)
(* that of the first interface of the list: nothing that has been shown      *)
(* changes.                                                                  *)
LEMMA ReadCounterInv ==
  ASSUME NetworkInv, ReadCounter
  PROVE  NetworkInv'
<1> USE DEF NetworkInv
<1> DEFINE n == toShow[1].name
           h == toShow[1].iface
           k == Len(counters) + 1
<1>1. PICK fails \in BOOLEAN :
        /\ counters' = Append(counters, IF fails THEN NoName ELSE CounterNow(n))
        /\ unread' = IF fails THEN unread \cup {<<h, k>>} ELSE unread
  BY DEF ReadCounter, Fails, Blank
<1>2. /\ renderPc = "counters" /\ renderPc' = IF k = Files THEN "addresses" ELSE "counters"
      /\ UNCHANGED <<name, toShow, result, changed>>
  BY DEF ReadCounter
<1>3. /\ n \in Names /\ h \in Ifaces /\ 1 \in 1 .. Len(toShow) /\ toShow # <<>>
      /\ toShow[1] = [iface |-> h, name |-> n]
  BY <1>2, HeadFacts
<1>4. /\ counters \in Seq(Counter) /\ Len(counters) \in Nat /\ k \in 1 .. Files /\ Files \in Nat
      /\ k # Files + 1
  BY <1>2, InstanceAssumption, LenProperties DEF NetworkTypes, LoopInv
<1>5. CounterNow(n) \in Counter
  BY DEF CounterNow, Counter
<1>6. /\ counters' \in Seq(Counter) /\ Len(counters') = k
      /\ \A j \in 1 .. Len(counters) : counters'[j] = counters[j]
      /\ counters'[k] = IF fails THEN NoName ELSE CounterNow(n)
  BY <1>1, <1>4, <1>5, AppendProperties DEF Counter
<1>7. /\ unread' \subseteq Ifaces \X (1 .. Files + 1)
      /\ \A f, j : f # h \/ j # k => (<<f, j>> \in unread' <=> <<f, j>> \in unread)
      /\ <<h, k>> \in unread' <=> (fails \/ <<h, k>> \in unread)
  <2>1. <<h, k>> \in Ifaces \X (1 .. Files + 1)
    BY <1>3, <1>4
  <2>2. CASE fails
    BY <1>1, <2>1, <2>2 DEF NetworkTypes
  <2>3. CASE ~fails
    BY <1>1, <2>3 DEF NetworkTypes
  <2> QED BY <2>2, <2>3
<1>8. NetworkTypes'
  BY <1>2, <1>6, <1>7 DEF NetworkTypes, RenderPcs
<1>9. NamesDiffer' /\ LoopInv' /\ ItemsDiffer'
  BY <1>2, <1>3, <1>4, <1>6 DEF NamesDiffer, HasName, LoopInv, ItemsDiffer
<1>10. Kept' = Kept /\ \A f : Coming(f)' <=> Coming(f)
  BY <1>2 DEF Kept, HasName, Coming
<1>11. \A f, j : f # h => (<<f, j>> \in unread' <=> <<f, j>> \in unread)
  BY <1>7
<1>12. ShowInv'
  <2> SUFFICES ASSUME NEW f \in Kept, IsShown(f)
               PROVE  IsShown(f)'
    BY <1>2, <1>10 DEF ShowInv
  <2>1. f # h
    BY <1>3 DEF IsShown
  <2>2. OwnOrNone(f)' = OwnOrNone(f) /\ \A j : OwnOrZero(f, j)' = OwnOrZero(f, j)
    BY <1>11, <2>1 DEF OwnOrZero, OwnOrNone
  <2> QED BY <1>2, <2>2 DEF IsShown
<1>13. HeadInv'
  <2> SUFFICES ASSUME NEW f \in Kept, toShow[1] = [iface |-> f, name |-> name[f]],
                      NEW j \in 1 .. k
               PROVE  counters'[j] = OwnOrZero(f, j)'
    BY <1>2, <1>6, <1>10 DEF HeadInv
  <2>1. n = name[f] /\ h = f /\ f \in HasName /\ f \in Ifaces /\ name[f] # NoName
    BY DEF Kept, HasName
  <2>2. CASE j # k
    <3>1. j \in 1 .. Len(counters)
      BY <1>4, <2>2
    <3>2. counters[j] = OwnOrZero(f, j)
      BY <1>2, <3>1 DEF HeadInv
    <3> QED BY <1>6, <1>7, <2>2, <3>1, <3>2 DEF OwnOrZero
  <2>3. CASE j = k
    <3>1. CounterNow(n) = f
      <4>1. {g \in Ifaces : name[g] = n} = {f}
        BY <2>1 DEF NamesDiffer, HasName
      <4> QED BY <4>1 DEF CounterNow
    <3>2. <<h, k>> \notin unread
      BY <1>3, <1>4 DEF UnreadInv
    <3> QED BY <1>6, <1>7, <2>1, <2>3, <3>1, <3>2 DEF OwnOrZero
  <2> QED BY <2>2, <2>3
<1>14. UnreadInv'
  <2> SUFFICES ASSUME NEW j \in 1 .. Len(toShow), NEW m \in 1 .. Files + 1,
                      <<toShow[j].iface, m>> \in unread'
               PROVE  j = 1 /\ m <= k
    BY <1>2, <1>6 DEF UnreadInv
  <2>1. CASE <<toShow[j].iface, m>> \in unread
    BY <1>4, <2>1 DEF UnreadInv
  <2>2. CASE toShow[j].iface = h /\ m = k
    BY <1>3, <1>4, <2>2 DEF ItemsDiffer
  <2> QED BY <1>7, <2>1, <2>2
<1> QED BY <1>8, <1>9, <1>12, <1>13, <1>14

(* The interface whose turn it was is shown; the others of the list have     *)
(* other names.                                                              *)
LEMMA ReadAddressesInv ==
  ASSUME NetworkInv, ReadAddresses
  PROVE  NetworkInv'
<1> USE DEF NetworkInv
<1> DEFINE n == toShow[1].name
           h == toShow[1].iface
<1>1. PICK fails \in BOOLEAN :
        /\ result' = [m \in DOMAIN result \cup {n} |->
             IF m = n THEN [counters |-> counters, addresses |-> Entries(AddrsNow(h, fails))]
                      ELSE result[m]]
        /\ unread' = IF fails THEN unread \cup {<<h, Files + 1>>} ELSE unread
  BY DEF ReadAddresses, Fails
<1>2. /\ renderPc = "addresses" /\ UNCHANGED <<name, changed>> /\ toShow' = Tail(toShow)
      /\ counters' = <<>>
      /\ renderPc' = IF toShow' = <<>> THEN "processes" ELSE "counters"
  BY DEF ReadAddresses
<1>3. /\ n \in Names /\ h \in Ifaces /\ Len(toShow) \in Nat /\ 1 \in 1 .. Len(toShow)
      /\ toShow \in Seq(Item) /\ toShow # <<>> /\ toShow[1] = [iface |-> h, name |-> n]
  BY <1>2, HeadFacts DEF NetworkTypes
<1>4. /\ toShow' \in Seq(Item) /\ Len(toShow') = Len(toShow) - 1
      /\ \A k \in 1 .. Len(toShow') : toShow'[k] = toShow[k + 1]
  BY <1>2, <1>3, HeadTailProperties
<1>5. \A k \in 1 .. Len(toShow') : k + 1 \in 1 .. Len(toShow) /\ k + 1 # 1
  BY <1>3, <1>4
<1>6. \A k \in 1 .. Len(toShow') : toShow'[k].name # n /\ toShow'[k].iface # h
  BY <1>3, <1>4, <1>5 DEF ItemsDiffer
<1>7. Len(counters) = Files /\ Files \in Nat \ {0} /\ counters \in [1 .. Files -> Counter]
  BY <1>2, InstanceAssumption, LenProperties DEF LoopInv, NetworkTypes
<1>8. /\ DOMAIN result' = DOMAIN result \cup {n}
      /\ \A m \in DOMAIN result : m # n => result'[m] = result[m]
      /\ result'[n].counters = counters
      /\ result'[n].addresses = Entries(AddrsNow(h, fails))
      /\ result'[n] \in Answer
  BY <1>1, <1>3, <1>7, EntriesFacts DEF Answer
<1>9. /\ unread' \subseteq Ifaces \X (1 .. Files + 1)
      /\ \A f, j : f # h \/ j # Files + 1 => (<<f, j>> \in unread' <=> <<f, j>> \in unread)
      /\ <<h, Files + 1>> \in unread' <=> (fails \/ <<h, Files + 1>> \in unread)
  <2>1. <<h, Files + 1>> \in Ifaces \X (1 .. Files + 1)
    BY <1>3, <1>7
  <2>2. CASE fails
    BY <1>1, <2>1, <2>2 DEF NetworkTypes
  <2>3. CASE ~fails
    BY <1>1, <2>3 DEF NetworkTypes
  <2> QED BY <2>2, <2>3
<1>10. Len(counters') = 0 /\ counters' \in Seq(Counter)
  BY <1>2, EmptySeq
<1>11. NetworkTypes'
  <2>1. \A m \in DOMAIN result' : result'[m] \in Answer
    BY <1>8 DEF NetworkTypes
  <2>2. result' \in [DOMAIN result' -> Answer]
    BY <1>1, <2>1
  <2> QED BY <1>2, <1>3, <1>4, <1>8, <1>9, <1>10, <2>2 DEF NetworkTypes, RenderPcs
<1>12. NamesDiffer'
  BY <1>2 DEF NamesDiffer, HasName
<1>13. LoopInv'
  BY <1>2, <1>7, <1>10 DEF LoopInv
<1>14. ItemsDiffer'
  <2> SUFFICES ASSUME NEW j \in 1 .. Len(toShow'), NEW k \in 1 .. Len(toShow'),
                      toShow'[j].name = toShow'[k].name \/ toShow'[j].iface = toShow'[k].iface
               PROVE  j = k
    BY DEF ItemsDiffer
  <2>1. j + 1 = k + 1
    BY <1>4, <1>5 DEF ItemsDiffer
  <2> QED BY <1>3, <1>4, <2>1
<1>15. Kept' = Kept
  BY <1>2 DEF Kept, HasName
<1>16. ShowInv'
  <2> SUFFICES ASSUME NEW f \in Kept
               PROVE  Coming(f)' \/ IsShown(f)'
    BY <1>15 DEF ShowInv
  <2>1. Coming(f) \/ IsShown(f)
    BY <1>2 DEF ShowInv
  <2>2. CASE IsShown(f)
    <3>1. name[f] # n /\ f # h /\ name[f] \in DOMAIN result
      BY <1>3, <2>2 DEF IsShown
    <3>2. \A k \in 1 .. Len(toShow') : toShow'[k].name # name[f] /\ toShow'[k].iface # f
      BY <1>4, <1>5, <2>2 DEF IsShown
    <3>3. OwnOrNone(f)' = OwnOrNone(f) /\ \A j : OwnOrZero(f, j)' = OwnOrZero(f, j)
      BY <1>9, <3>1 DEF OwnOrZero, OwnOrNone
    <3>4. result'[name[f]] = result[name[f]] /\ name[f] \in DOMAIN result'
      BY <1>8, <3>1
    <3> QED BY <1>2, <2>2, <3>2, <3>3, <3>4 DEF IsShown
  <2>3. CASE Coming(f)
    <3>1. PICK k \in 1 .. Len(toShow) : toShow[k] = [iface |-> f, name |-> name[f]]
      BY <2>3 DEF Coming
    <3>2. CASE k # 1
      <4>1. k - 1 \in 1 .. Len(toShow') /\ toShow'[k - 1] = toShow[k]
        BY <1>3, <1>4, <3>2
      <4> QED BY <1>2, <3>1, <4>1 DEF Coming
    <3>3. CASE k = 1
      <4>1. n = name[f] /\ h = f /\ name[f] # NoName
        BY <3>1, <3>3 DEF Kept, HasName
      <4>2. \A j \in 1 .. Files : counters[j] = OwnOrZero(f, j)'
        <5>1. \A j \in 1 .. Files : counters[j] = OwnOrZero(f, j) /\ j # Files + 1
          BY <1>2, <1>7, <3>1, <3>3, <4>1 DEF HeadInv
        <5> QED BY <1>9, <5>1 DEF OwnOrZero
      <4>3. <<h, Files + 1>> \notin unread
        <5>1. Files + 1 \in 1 .. Files + 1 /\ ~(Files + 1 <= Len(counters))
          BY <1>7
        <5> QED BY <1>3, <5>1 DEF UnreadInv
      <4>4. {e.address : e \in result'[n].addresses} = OwnOrNone(f)'
        BY <1>3, <1>8, <1>9, <4>1, <4>3, EntriesFacts DEF OwnOrNone
      <4> QED BY <1>2, <1>6, <1>8, <4>1, <4>2, <4>4 DEF IsShown
    <3> QED BY <3>2, <3>3
  <2> QED BY <2>1, <2>2, <2>3
<1>17. HeadInv'
  BY <1>10 DEF HeadInv
<1>18. UnreadInv'
  <2> SUFFICES ASSUME NEW j \in 1 .. Len(toShow'), NEW m \in 1 .. Files + 1,
                      <<toShow'[j].iface, m>> \in unread'
               PROVE  FALSE
    BY DEF UnreadInv
  <2>1. <<toShow[j + 1].iface, m>> \in unread
    BY <1>4, <1>6, <1>9
  <2> QED BY <1>5, <2>1 DEF UnreadInv
<1> QED BY <1>11, <1>12, <1>13, <1>14, <1>16, <1>17, <1>18

(* An interface that changes is not kept, and gets nobody's name.            *)
LEMMA InterfaceChangesInv ==
  ASSUME NetworkInv, NEW g \in Ifaces, InterfaceChanges(g)
  PROVE  NetworkInv'
<1> USE DEF NetworkInv
<1>1. /\ UNCHANGED <<renderPc, toShow, counters, result, unread>> /\ changed' = changed \cup {g}
      /\ renderPc \in {"list", "counters", "addresses"}
  BY DEF InterfaceChanges
<1>2. PICK m \in {NoName} \cup (Names \ Range(name)) : name' = [name EXCEPT ![g] = m]
  BY DEF InterfaceChanges
<1>3. /\ name \in [Ifaces -> Names \cup {NoName}] /\ name' \in [Ifaces -> Names \cup {NoName}]
      /\ name'[g] = m /\ \A f \in Ifaces \ {g} : name'[f] = name[f]
  BY <1>2 DEF NetworkTypes
<1>4. NetworkTypes'
  BY <1>1, <1>3 DEF NetworkTypes
<1>5. NamesDiffer'
  <2>1. \A f \in Ifaces \ {g} : m # NoName => name[f] # m
    BY <1>2, <1>3 DEF Range
  <2> QED BY <1>3, <2>1 DEF NamesDiffer, HasName
<1>6. LoopInv' /\ ItemsDiffer' /\ UnreadInv'
  BY <1>1 DEF LoopInv, ItemsDiffer, UnreadInv
<1>7. \A f \in Kept' : f \in Kept /\ name'[f] = name[f]
  BY <1>1, <1>3 DEF Kept, HasName
<1>8. ShowInv'
  <2>1. \A f \in Kept' : (Coming(f) => Coming(f)') /\ (IsShown(f) => IsShown(f)')
    BY <1>1, <1>7 DEF Coming, IsShown, OwnOrZero, OwnOrNone
  <2> QED BY <1>1, <1>7, <2>1 DEF ShowInv
<1>9. HeadInv'
  BY <1>1, <1>7 DEF HeadInv, OwnOrZero
<1> QED BY <1>4, <1>5, <1>6, <1>8, <1>9

(* Every step of the render and of the guest keeps it, by the lemmas         *)
(* above.                                                                    *)
LEMMA NetworkStep ==
  NetworkInv /\ [InstanceNext]_instanceVars => NetworkInv'
<1> SUFFICES ASSUME NetworkInv, [InstanceNext]_instanceVars PROVE NetworkInv'
  OBVIOUS
<1>1. renderPc \in RenderPcs
  BY DEF NetworkInv, NetworkTypes
<1>2. CASE ReadMemory
  BY <1>2, OtherSteps DEF ReadMemory, RenderPcs
<1>3. CASE MemoryChanges
  BY <1>1, <1>3, OtherSteps DEF MemoryChanges
<1>4. CASE ListInterfaces
  BY <1>4, ListInterfacesInv
<1>5. CASE ReadCounter
  BY <1>5, ReadCounterInv
<1>6. CASE ReadAddresses
  BY <1>6, ReadAddressesInv
<1>7. CASE ProcessesState \/ ProcessesChange
  BY <1>1, <1>7, OtherSteps DEF ProcessesState, ProcessesChange
<1>8. ASSUME NEW f \in Ifaces, InterfaceChanges(f)
      PROVE  NetworkInv'
  BY <1>8, InterfaceChangesInv
<1>9. CASE UNCHANGED instanceVars
  BY <1>1, <1>9, OtherSteps DEF instanceVars
<1> QED BY <1>2, <1>3, <1>4, <1>5, <1>6, <1>7, <1>8, <1>9 DEF InstanceNext, RenderState, Guest

-----------------------------------------------------------------------------
(* The theorems. *)

(* RenderState's loop over the processes is the walk of ProcessCount, and    *)
(* the guest's processes go on as there: every step of the answer is a step  *)
(* of a walk or leaves it alone.                                             *)
THEOREM RendersWalk ==
  InstanceSpec => WalkSpec
<1>1. InstanceInit => WalkInit
  BY DEF InstanceInit
<1>2. ASSUME [InstanceNext]_instanceVars
      PROVE  [WalkNext]_walkVars
  <2>1. CASE ProcessesState \/ ProcessesChange
    BY <2>1 DEF ProcessesState, ProcessesChange, WalkNext
  <2>2. CASE ReadMemory \/ MemoryChanges
    BY <2>2 DEF ReadMemory, MemoryChanges
  <2>3. CASE ListInterfaces \/ ReadCounter \/ ReadAddresses
    BY <2>3 DEF ListInterfaces, ReadCounter, ReadAddresses
  <2>4. ASSUME NEW f \in Ifaces, InterfaceChanges(f)
        PROVE  UNCHANGED walkVars
    BY <2>4 DEF InterfaceChanges
  <2>5. CASE UNCHANGED instanceVars
    BY <2>5 DEF instanceVars
  <2> QED BY <1>2, <2>1, <2>2, <2>3, <2>4, <2>5 DEF InstanceNext, RenderState, Guest
<1> QED BY <1>1, <1>2, PTL DEF InstanceSpec, WalkSpec

(* Both invariants hold in every reachable state.                            *)
LEMMA InstanceInvariant ==
  InstanceSpec => [](MemoryInv /\ NetworkInv)
BY MemoryInit, MemoryStep, NetworkInit, NetworkStep, PTL DEF InstanceSpec

(* The answer and what it is read from keep their types, for every set of    *)
(* interfaces and of pids.                                                   *)
THEOREM InstanceTypes ==
  InstanceSpec => []InstanceTypeOK
<1>1. MemoryInv /\ NetworkInv /\ WalkTypeOK => InstanceTypeOK
  <2> SUFFICES ASSUME MemoryInv, NetworkInv, WalkTypeOK PROVE InstanceTypeOK
    OBVIOUS
  <2>1. \A k \in DOMAIN toShow : toShow[k] \in [iface : Ifaces, name : Names]
    <3>1. toShow \in Seq(Item)
      BY DEF NetworkInv, NetworkTypes
    <3>2. \A k \in DOMAIN toShow : toShow[k] \in Item
      BY <3>1, ElementOfSeq, LenProperties
    <3> QED BY <3>2 DEF Item
  <2>2. \A n \in DOMAIN result : result[n].counters \in [1 .. Files -> Ifaces \cup {NoName}]
    BY DEF NetworkInv, NetworkTypes, Answer, Counter
  <2>3. Len(counters) <= Files
    <3>1. Len(<<>>) = 0 /\ Files \in Nat
      BY EmptySeq, InstanceAssumption
    <3>2. Len(counters) \in Nat
      BY LenProperties DEF NetworkInv, NetworkTypes
    <3> QED BY <3>1, <3>2 DEF NetworkInv, LoopInv
  <2> QED BY <2>1, <2>2, <2>3, InstanceAssumption DEF MemoryInv, NetworkInv, NetworkTypes,
          Counter, InstanceTypeOK
<1> QED BY InstanceInvariant, RendersWalk, WalkTypes, <1>1, PTL

(* The usage is read before the peak, which never falls: whatever the kernel *)
(* charges and frees between the two reads of memoryState, the answer shows  *)
(* no usage above its peak.                                                  *)
THEOREM PeakCoversUsage ==
  InstanceSpec => []PeakNotBelowUsage
<1>1. MemoryInv => PeakNotBelowUsage
  BY DEF MemoryInv
<1> QED BY InstanceInvariant, <1>1, PTL

(* An interface that keeps its name while the list is walked is in the       *)
(* answer with exactly what could be read of it, its own counters and its    *)
(* own addresses, although these are read at different moments, one by name  *)
(* and one by index, and other interfaces come, go and take names that are   *)
(* free.  What could not be read is zero, or missing.                        *)
THEOREM KeptInterfacesShown ==
  InstanceSpec => []SteadyInterfaceShown
<1>1. NetworkInv => SteadyInterfaceShown
  BY EmptySeq DEF NetworkInv, ShowInv, LoopInv, Coming, IsShown, OwnOrZero, OwnOrNone, Kept,
     SteadyInterfaceShown
<1> QED BY InstanceInvariant, <1>1, PTL

(* An address in an answer has the scope that its prefix gives it, unless it *)
(* is an inet6 address whose text begins with 127, which is taken for a      *)
(* local one, or a link-local one whose text does not begin with fe80, which *)
(* is taken for a global one; those never have it.                           *)
THEOREM ScopesWrongIfMisread ==
  InstanceSpec => []ScopeWrongIfMisread
<1>1. ASSUME NetworkInv, NEW n \in DOMAIN result, NEW e \in result[n].addresses
      PROVE  e.scope = ScopeByPrefix(e.address) <=> ~Misread(e.address)
  <2>1. result[n] \in Answer
    BY <1>1 DEF NetworkInv, NetworkTypes
  <2>2. e \in Shown
    BY <1>1, <2>1 DEF Answer
  <2>3. \E f \in Ifaces : e.address \in AddrsOf[f]
    BY <2>2 DEF Shown
  <2>4. e.address \in Addresses
    BY <2>3, InstanceAssumption
  <2> QED BY <2>2, <2>4, ScopeOfText DEF Shown
<1>2. NetworkInv => ScopeWrongIfMisread
  BY <1>1 DEF ScopeWrongIfMisread
<1> QED BY InstanceInvariant, <1>2, PTL

(* The number of processes in an answer counts nobody twice, and everybody   *)
(* who stayed where he was: what the walk promises.                          *)
THEOREM AnswerCountsProcesses ==
  InstanceSpec => [](NoProcessTwice /\ SteadyAreCounted)
BY RendersWalk, NoTwice, SteadyCounted, PTL

=============================================================================
