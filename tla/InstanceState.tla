---------------------------- MODULE InstanceState ----------------------------
(***************************************************************************)
(* RenderState of shared/instance_state.go, what vsock-server answers to   *)
(* /state: the memory's usage, the network's interfaces and the number of  *)
(* processes, read one after the other while the guest goes on.            *)
(*                                                                         *)
(* Nothing is shared between two requests, so there is one.  A number that *)
(* a file of the memory holds is a small natural number, a counter of an   *)
(* interface is that interface, an address is what its text begins with.   *)
(* The guest changes what is still to be read: changes of the rest make no *)
(* difference to the answer.                                               *)
(***************************************************************************)
EXTENDS ProcessCount, Integers

CONSTANTS
  MaxUsage,  \* bound of the memory's usage, which is never zero
  Ifaces,    \* the network interfaces
  Names,     \* the names an interface can have
  NoName,    \* the name of an interface that was removed; a counter left zero
  AddrsOf,   \* [Ifaces -> the addresses of the interface]
  Files,     \* the number of statistics files that are read, the code's four
  Troubles   \* (bound) sets of parts that change, or cannot be read, in a request

\* An address: the first two bytes of an inet address, or the first group of an
\* inet6 address with 1 for "the other groups are 0:0:0:0:0:0:1".  An inet6
\* address that maps an inet one has the text of that one, and so is inet.
Addresses == [family : {"inet"}, lead : 0 .. 255, second : 0 .. 255]
               \cup [family : {"inet6"}, lead : {g \in Nat : g < 65536}, second : {0, 1}]

Parts == {"memory", "network", "processes"}

ASSUME InstanceAssumption ==
  /\ MaxUsage \in Nat
  /\ IsFiniteSet(Ifaces)
  /\ NoName \notin Names \cup Ifaces
  /\ \A f \in Ifaces : AddrsOf[f] \subseteq Addresses
  /\ Files \in Nat \ {0}
  /\ Troubles \subseteq SUBSET Parts

VARIABLES
  renderPc,  \* the next thing RenderState reads
  troubled,  \* the parts that change, or fail to be read, in this request
  usage,     \* the memory in use now
  peak,      \* the most there ever was
  memory,    \* api.InstanceStateMemory so far
  name,      \* [Ifaces -> name or NoName]
  toShow,    \* the rest of the list that net.Interfaces() returned
  counters,  \* the counters of the first of them read so far
  result,    \* [Names -> the entry of the result], for the names it has
  changed,   \* (history) interfaces renamed or removed since that list
  unread     \* (history) the k-th read of an interface failed: a file's, or Addrs

memoryVars   == <<usage, peak, memory>>
networkVars  == <<name, toShow, counters, result, changed, unread>>
instanceVars == <<walkVars, renderPc, troubled, memoryVars, networkVars>>

RenderPcs == {"usage", "peak", "list", "counters", "addresses", "processes"}

InstanceInit ==
  /\ WalkInit
  /\ renderPc = "usage"
  /\ troubled \in Troubles
  /\ usage \in 1 .. MaxUsage
  /\ peak = usage
  /\ memory = [usage |-> 0, peak |-> 0]
  /\ name \in {n \in [Ifaces -> Names] : IsInjective(n)}
  /\ toShow = <<>>
  /\ counters = <<>>
  /\ result = <<>>
  /\ changed = {}
  /\ unread = {}

\* Whether a read of that part fails.
Fails(part) == IF part \in troubled THEN BOOLEAN ELSE {FALSE}

-----------------------------------------------------------------------------
(* memoryState: a file that cannot be read, or parsed, leaves a zero.       *)

\* (Mutant: the peak is read first.)
PeakFirst == IF renderPc = "usage" THEN "peak" ELSE "usage"

FileRead == renderPc

ReadMemory ==
  /\ renderPc \in {"usage", "peak"}
  /\ \E fails \in Fails("memory") :
       memory' = IF fails THEN memory
                 ELSE IF FileRead = "usage" THEN [memory EXCEPT !.usage = usage]
                 ELSE [memory EXCEPT !.peak = peak]
  /\ renderPc' = IF renderPc = "usage" THEN "peak" ELSE "list"
  /\ UNCHANGED <<walkVars, troubled, usage, peak, networkVars>>

\* External: the kernel charges and frees memory, keeps the peak, and nobody
\* resets it.
MemoryChanges ==
  /\ "memory" \in troubled
  /\ renderPc \in {"usage", "peak"}
  /\ usage' \in 1 .. MaxUsage
  /\ peak' = IF usage' > peak THEN usage' ELSE peak
  /\ UNCHANGED <<walkVars, renderPc, troubled, memory, networkVars>>

-----------------------------------------------------------------------------
(* networkState. *)

HasName == {f \in Ifaces : name[f] # NoName}

\* net.Interfaces(); if it fails, the result is empty.
ListInterfaces ==
  /\ renderPc = "list"
  /\ \E fails \in Fails("network") :
       \E s \in IF fails THEN {<<>>} ELSE SetToSeqs(HasName) :
         /\ toShow' = [k \in DOMAIN s |-> [iface |-> s[k], name |-> name[s[k]]]]
         /\ renderPc' = IF s = <<>> THEN "processes" ELSE "counters"
  /\ changed' = {}
  /\ UNCHANGED <<walkVars, troubled, memoryVars, name, counters, result, unread>>

\* A counter is read by the name that was listed: it is that of the interface
\* that has the name now.  A file that is not there cannot be read.
CounterNow(n) ==
  LET now == {f \in Ifaces : name[f] = n}
  IN IF now = {} THEN NoName ELSE CHOOSE f \in now : TRUE

\* (Mutant: one record is declared for all interfaces: what could not be read
\* is the number of another one.)
LeftOver(k) == IF result = <<>> THEN NoName
               ELSE result[CHOOSE n \in DOMAIN result : TRUE].counters[k]

\* A counter that could not be read, or parsed.
Blank(k) == NoName

ReadCounter ==
  /\ renderPc = "counters"
  /\ LET k == Len(counters) + 1
     IN \E fails \in Fails("network") :
          /\ counters' = Append(counters, IF fails THEN Blank(k) ELSE CounterNow(toShow[1].name))
          /\ unread' = IF fails THEN unread \cup {<<toShow[1].iface, k>>} ELSE unread
          /\ renderPc' = IF k = Files THEN "addresses" ELSE "counters"
  /\ UNCHANGED <<walkVars, troubled, memoryVars, name, toShow, result, changed>>

\* The tests of networkState on the text of an address.
Begins127(a)     == IF a.family = "inet" THEN a.lead = 127
                    ELSE a.lead \in {295} \cup 4720 .. 4735
Begins169_254(a) == a.family = "inet" /\ a.lead = 169 /\ a.second = 254
BeginsFe80(a)    == a.family = "inet6" /\ a.lead = 65152
IsColonColon1(a) == a.family = "inet6" /\ a.lead = 0 /\ a.second = 1

\* (Mutant: only the first byte of a link-local inet address is looked at.)
ByFirstByte(a) ==
  IF a.lead = 169 \/ BeginsFe80(a) THEN "link"
  ELSE IF Begins127(a) \/ IsColonColon1(a) THEN "local" ELSE "global"

\* The later of two tests that succeed has the last word.
Scope(a) ==
  IF Begins169_254(a) \/ BeginsFe80(a) THEN "link"
  ELSE IF Begins127(a) \/ IsColonColon1(a) THEN "local" ELSE "global"

\* iface.Addrs() asks by index.  Its error is ignored: no addresses.
AddrsNow(f, fails) == IF fails \/ name[f] = NoName THEN {} ELSE AddrsOf[f]

Entries(A) == {[address |-> a, scope |-> Scope(a)] : a \in A}

\* The record of the interface is complete and gets into the result.
ReadAddresses ==
  /\ renderPc = "addresses"
  /\ LET f == toShow[1].iface
         n == toShow[1].name
     IN \E fails \in Fails("network") :
          /\ result' = [m \in DOMAIN result \cup {n} |->
               IF m = n THEN [counters |-> counters, addresses |-> Entries(AddrsNow(f, fails))]
                        ELSE result[m]]
          /\ unread' = IF fails THEN unread \cup {<<f, Files + 1>>} ELSE unread
  /\ counters' = <<>>
  /\ toShow' = Tail(toShow)
  /\ renderPc' = IF toShow' = <<>> THEN "processes" ELSE "counters"
  /\ UNCHANGED <<walkVars, troubled, memoryVars, name, changed>>

\* External: an interface is removed, or gets a name that is free.
InterfaceChanges(f) ==
  /\ "network" \in troubled
  /\ renderPc \in {"list", "counters", "addresses"}
  /\ name[f] # NoName
  /\ \E n \in {NoName} \cup (Names \ Range(name)) : name' = [name EXCEPT ![f] = n]
  /\ changed' = changed \cup {f}
  /\ UNCHANGED <<walkVars, renderPc, troubled, memoryVars, toShow, counters, result, unread>>

-----------------------------------------------------------------------------
ProcessesState ==
  /\ renderPc = "processes"
  /\ Walk
  /\ UNCHANGED <<renderPc, troubled, memoryVars, networkVars>>

ProcessesChange ==
  /\ "processes" \in troubled
  /\ renderPc = "processes"
  /\ World
  /\ UNCHANGED <<renderPc, troubled, memoryVars, networkVars>>

RenderState == ReadMemory \/ ListInterfaces \/ ReadCounter \/ ReadAddresses \/ ProcessesState

Guest == MemoryChanges \/ (\E f \in Ifaces : InterfaceChanges(f)) \/ ProcessesChange

InstanceNext == RenderState \/ Guest

InstanceSpec == InstanceInit /\ [][InstanceNext]_instanceVars /\ WF_instanceVars(RenderState)

-----------------------------------------------------------------------------
(* Properties. *)

(* The types of the answer and of what it is read from; an entry of the      *)
(* result has all its counters.                                              *)
InstanceTypeOK ==
  /\ WalkTypeOK
  /\ renderPc \in RenderPcs
  /\ troubled \in Troubles
  /\ usage \in 1 .. MaxUsage /\ peak \in 1 .. MaxUsage
  /\ memory \in [usage : 0 .. MaxUsage, peak : 0 .. MaxUsage]
  /\ name \in [Ifaces -> Names \cup {NoName}]
  /\ \A k \in DOMAIN toShow : toShow[k] \in [iface : Ifaces, name : Names]
  /\ counters \in Seq(Ifaces \cup {NoName}) /\ Len(counters) <= Files
  /\ DOMAIN result \subseteq Names
  /\ \A n \in DOMAIN result : result[n].counters \in [1 .. Files -> Ifaces \cup {NoName}]
  /\ changed \subseteq Ifaces
  /\ unread \subseteq Ifaces \X (1 .. Files + 1)

(* The answer never shows a peak below the usage, although the memory in use *)
(* changes between the two reads, unless the peak could not be read.         *)
PeakNotBelowUsage ==
  renderPc \notin {"usage", "peak"} => memory.peak = 0 \/ memory.usage <= memory.peak

(* Of an interface that is neither renamed nor removed while the interfaces  *)
(* are read, exactly what could not be read is missing: each of its counters *)
(* is its own or zero, its addresses are its own or none, whatever happens   *)
(* to the others.  If net.Interfaces() failed there are no entries.          *)
SteadyInterfaceShown ==
  renderPc = "processes" /\ result # <<>> =>
    \A f \in HasName \ changed :
      /\ name[f] \in DOMAIN result
      /\ \A k \in 1 .. Files :
           result[name[f]].counters[k] = IF <<f, k>> \in unread THEN NoName ELSE f
      /\ {e.address : e \in result[name[f]].addresses} =
           IF <<f, Files + 1>> \in unread THEN {} ELSE AddrsOf[f]

\* The scope of an address by the address architecture: 127.0.0.0/8 and ::1 are
\* loopback, 169.254.0.0/16 and fe80::/10 are link-local.
IsLoopback(a) == IF a.family = "inet" THEN a.lead = 127 ELSE a.lead = 0 /\ a.second = 1
IsLinkLocal(a) == IF a.family = "inet" THEN a.lead = 169 /\ a.second = 254
                                       ELSE a.lead \div 64 = 1018

ScopeByPrefix(a) ==
  IF IsLoopback(a) THEN "local" ELSE IF IsLinkLocal(a) THEN "link" ELSE "global"

\* 127::/16 and 1270::/12 are not loopback, and fe80::/10 is more than fe80::/16.
Misread(a) ==
  a.family = "inet6" /\ (a.lead \in {295} \cup 4720 .. 4735 \/ a.lead \in 65153 .. 65215)

(* The tests on the text of an address find the scope that its bits have on  *)
(* every inet address, and on every inet6 address but those two kinds, on    *)
(* which they never do.                                                      *)
ScopeWrongIfMisread ==
  \A n \in DOMAIN result : \A e \in result[n].addresses :
     e.scope = ScopeByPrefix(e.address) <=> ~Misread(e.address)

(* RenderState returns, whatever happens to what it reads.                   *)
StateIsRendered == <>(walkPc = "returned")

=============================================================================
