---------------------------- MODULE ProcessCount ----------------------------
(***************************************************************************)
(* processesState of shared/instance_state.go: vsock-server counts the     *)
(* processes of the guest, breadth first from process 1, by the children   *)
(* files of /proc, while processes fork and exit.                          *)
(*                                                                         *)
(* External, as Linux has it: /proc/p/task/p/children names the children   *)
(* that the main thread of p forked and those it inherited; a child forked *)
(* by another thread of p is in the file of that thread.  A file that is   *)
(* read while a child leaves it may miss other children.  Two assumptions  *)
(* bound the environment: orphans go to process 1 (no process asked to be  *)
(* a subreaper), and a pid is not used again during a walk (the kernel     *)
(* hands them out in a cycle).  A zombie is a process without children.    *)
(***************************************************************************)
EXTENDS Naturals, Sequences, FiniteSets, Functions, SequencesExt

CONSTANTS
  Pids,    \* the pids there are
  NoPid    \* the parent of process 1

ASSUME ProcessAssumption ==
  IsFiniteSet(Pids) /\ Pids \subseteq Nat /\ 1 \in Pids /\ NoPid \notin Pids

VARIABLES
  alive,    \* the processes there are
  used,     \* the pids handed out so far
  parent,   \* [Pids -> parent, for a process that is alive]
  hidden,   \* processes forked by another thread than their parent's main one
  walkPc,   \* where the walk is: "idle", "next", "reading" or "returned"
  pids,     \* the slice pids
  i,        \* the loop's index into pids, from 1
  held,     \* children in the file being read since it was opened
  passed,   \* children that were in it at some moment since
  torn,     \* a child left the file since it was opened
  settled   \* (history) processes that were alive when the walk began, whose
            \* entry in their parent's file has not changed since, nor was
            \* that file torn

worldVars == <<alive, used, parent, hidden>>
fileVars  == <<held, passed, torn>>
walkVars  == <<worldVars, walkPc, pids, i, fileVars, settled>>

Children(p) == {c \in alive : parent[c] = p}
Listed(p)   == Children(p) \ hidden

\* The process whose children file is being read.
Reads(p) == walkPc = "reading" /\ pids[i] = p

WalkInit ==
  /\ alive = {1}
  /\ used = {1}
  /\ parent = [p \in Pids |-> NoPid]
  /\ hidden = {}
  /\ walkPc = "idle"
  /\ pids = <<>>
  /\ i = 1
  /\ held = {}
  /\ passed = {}
  /\ torn = FALSE
  /\ settled = {}

-----------------------------------------------------------------------------
(* The processes of the guest. *)

Fork(p, c) ==
  /\ p \in alive
  /\ c \in Pids \ used
  /\ alive' = alive \cup {c}
  /\ used' = used \cup {c}
  /\ parent' = [parent EXCEPT ![c] = p]
  /\ \/ hidden' = hidden /\ passed' = IF Reads(p) THEN passed \cup {c} ELSE passed
     \/ hidden' = hidden \cup {c} /\ UNCHANGED passed
  /\ UNCHANGED <<walkPc, pids, i, held, torn, settled>>

\* The children of p become children of process 1's main thread.
Exit(p) ==
  /\ p \in alive \ {1}
  /\ alive' = alive \ {p}
  /\ parent' = [c \in Pids |-> IF c \in Children(p) THEN 1 ELSE parent[c]]
  /\ hidden' = hidden \ ({p} \cup Children(p))
  /\ passed' = IF Reads(1) THEN passed \cup Children(p) ELSE passed
  /\ torn' = (torn \/ Reads(p) \/ (Reads(parent[p]) /\ p \notin hidden))
  /\ settled' = settled \ ({p} \cup Children(p) \cup (IF torn' THEN Children(pids[i]) ELSE {}))
  /\ UNCHANGED <<used, walkPc, pids, i, held>>

\* A thread of c's parent ends; the parent's main thread gets its children.
ThreadExits(c) ==
  /\ c \in hidden
  /\ hidden' = hidden \ {c}
  /\ passed' = IF Reads(parent[c]) THEN passed \cup {c} ELSE passed
  /\ UNCHANGED <<alive, used, parent, walkPc, pids, i, held, torn, settled>>

World ==
  \/ \E p, c \in Pids : Fork(p, c)
  \/ \E p \in Pids : Exit(p) \/ ThreadExits(p)

-----------------------------------------------------------------------------
(* The walk. *)

StartWalk ==
  /\ walkPc = "idle"
  /\ walkPc' = "next"
  /\ pids' = <<1>>
  /\ i' = 1
  /\ settled' = alive \ hidden
  /\ UNCHANGED <<worldVars, fileVars>>

\* (Mutants: a process that vanished is tried again; the branch raises the index
\* and the loop does so again.)
SameAgain == i
SkipsOne == i + 2

Onward == i + 1

OpenChildren ==
  /\ walkPc = "next"
  /\ i <= Len(pids)
  /\ IF pids[i] \in alive
       THEN /\ walkPc' = "reading"
            /\ held' = Listed(pids[i])
            /\ passed' = held'
            /\ torn' = FALSE
            /\ UNCHANGED i
       ELSE /\ i' = Onward
            /\ UNCHANGED <<walkPc, fileVars>>
  /\ UNCHANGED <<worldVars, pids, settled>>

\* (Mutants: the list is taken twice; its last child is cut off with the space
\* that ends it.)
Doubled(S) == {s \o s : s \in SetToSeqs(S)}
CutOff(S) == {IF s = <<>> THEN s ELSE Front(s) : s \in SetToSeqs(S)}

\* The fields between the spaces of the list, in the order the kernel has them.
\* The empty field behind the last space does not parse and is skipped.
Fields(S) == SetToSeqs(S)

ReadChildren ==
  /\ walkPc = "reading"
  /\ \E S \in SUBSET passed :
       /\ torn \/ held \subseteq S
       /\ \E s \in Fields(S) : pids' = pids \o s
  /\ i' = i + 1
  /\ walkPc' = "next"
  /\ held' = {}
  /\ passed' = {}
  /\ torn' = FALSE
  /\ UNCHANGED <<worldVars, settled>>

EndWalk ==
  /\ walkPc = "next"
  /\ i > Len(pids)
  /\ walkPc' = "returned"
  /\ UNCHANGED <<worldVars, pids, i, fileVars, settled>>

Walk == StartWalk \/ OpenChildren \/ ReadChildren \/ EndWalk

WalkNext == Walk \/ World

WalkSpec == WalkInit /\ [][WalkNext]_walkVars

-----------------------------------------------------------------------------
(* Properties. *)

Counted == Range(pids)

(* The types of the walk's state.                                            *)
WalkTypeOK ==
  /\ alive \subseteq used
  /\ used \subseteq Pids
  /\ parent \in [Pids -> Pids \cup {NoPid}]
  /\ hidden \subseteq alive
  /\ walkPc \in {"idle", "next", "reading", "returned"}
  /\ pids \in Seq(Pids)
  /\ i \in 1 .. (Len(pids) + 1)
  /\ held \subseteq Pids
  /\ passed \subseteq Pids
  /\ torn \in BOOLEAN
  /\ settled \subseteq Pids

(* However processes fork, exit and change their parent during the walk, no  *)
(* process is counted twice.  (Process 1, who gets the orphans, is read      *)
(* before anybody whose children can be orphans.)                            *)
NoProcessTwice == IsInjective(pids)

\* S holds process 1 and, with a process, its settled children.
Linked(S) == 1 \in S /\ \A q \in S : Children(q) \cap settled \subseteq S

\* Settled processes that are linked to process 1 by settled processes: the
\* least of those sets.
Steady ==
  {p \in Pids : \A S \in SUBSET Pids : Linked(S) => p \in S}

(* A walk that has returned has counted every process that stayed where it   *)
(* was, below processes that stayed where they were.  Not promised, and not  *)
(* settled: a child that another thread than the main one forked, which is   *)
(* in a file that is never read; and the children in a file that was torn    *)
(* because one of them exited while it was read.                             *)
SteadyAreCounted == walkPc = "returned" => Steady \subseteq Counted

=============================================================================
