------------------------- MODULE ProcessCountProofs -------------------------
(***************************************************************************)
(* Safety of processesState for every finite set of pids.  The inductive   *)
(* invariant WalkInv says of the tree that a living process has a living   *)
(* parent; of the walk that it began with process 1, and that the parent   *)
(* of a living process in the list has been read already; of the file that *)
(* is being read that none of its children is in the list; and of a        *)
(* settled process that it is in the list when its parent has been read.   *)
(***************************************************************************)
EXTENDS ProcessCount, FiniteSetTheorems, TLAPS

TreeInv ==
  /\ 1 \in alive \ hidden
  /\ parent[1] = NoPid
  /\ \A c \in alive \ {1} : parent[c] \in alive
  /\ settled \subseteq used \ hidden

ListInv ==
  /\ walkPc = "idle" => pids = <<>>
  /\ walkPc # "idle" => Len(pids) >= 1 /\ pids[1] = 1
  /\ walkPc = "reading" => i <= Len(pids)
  /\ walkPc = "returned" => i = Len(pids) + 1
  /\ i = 1 => Len(pids) <= 1
  /\ \A k \in 1 .. Len(pids) : pids[k] \in used

\* A living process in the list is a child of one that has been read.
OrderInv ==
  \A k \in 1 .. Len(pids) :
     pids[k] \in alive \ {1} => \E j \in 1 .. (i - 1) : parent[pids[k]] = pids[j]

FileInv ==
  walkPc = "reading" =>
    /\ held \subseteq passed
    /\ passed \subseteq used \ {1}
    /\ \A c \in passed : c \in alive => parent[c] \in {pids[i], 1}
    /\ \A c \in passed : \A k \in 1 .. Len(pids) : pids[k] # c

SettledInv ==
  /\ \A j \in 1 .. (i - 1) : \A c \in Children(pids[j]) \cap settled :
        \E k \in 1 .. Len(pids) : pids[k] = c
  /\ walkPc = "reading" =>
        /\ Children(pids[i]) \cap settled \subseteq held
        /\ torn => Children(pids[i]) \cap settled = {}

WalkInv ==
  WalkTypeOK /\ TreeInv /\ ListInv /\ NoProcessTwice /\ OrderInv /\ FileInv /\ SettledInv

-----------------------------------------------------------------------------
(* The fields of a list of children: each child once, and all of them.       *)
LEMMA FieldsOfSet ==
  ASSUME NEW S, IsFiniteSet(S), NEW s \in Fields(S)
  PROVE  /\ s \in Seq(S)
         /\ \A a, b \in 1 .. Len(s) : s[a] = s[b] => a = b
         /\ \A c \in S : \E k \in 1 .. Len(s) : s[k] = c
<1> DEFINE n == Cardinality(S)
<1>1. n \in Nat
  BY FS_CardinalityType
<1>2. s \in [1 .. n -> S] /\ \A a, b \in 1 .. n : s[a] = s[b] => a = b
  BY DEF Fields, SetToSeqs
<1>3. s \in Seq(S) /\ Len(s) = n
  BY <1>1, <1>2
<1>4. s \in Injection(1 .. n, S)
  BY <1>2 DEF Injection, IsInjective
<1>5. IsFiniteSet(1 .. n) /\ Cardinality(1 .. n) = n
  BY <1>1, FS_Interval
<1>6. s \in Surjection(1 .. n, S)
  BY <1>4, <1>5, FS_Injection
<1>7. \A c \in S : \E k \in 1 .. n : s[k] = c
  BY <1>6 DEF Surjection
<1> QED BY <1>2, <1>3, <1>7

(* The walk starts with the invariant.                                       *)
LEMMA WalkInitInv == WalkInit => WalkInv
<1> SUFFICES ASSUME WalkInit PROVE WalkInv
  OBVIOUS
<1>1. pids = <<>> /\ pids \in Seq(Pids) /\ Len(pids) = 0 /\ DOMAIN pids = {}
  BY DEF WalkInit
<1>2. WalkTypeOK
  <2>1. i \in 1 .. (Len(pids) + 1)
    BY <1>1 DEF WalkInit
  <2>2. parent \in [Pids -> Pids \cup {NoPid}]
    BY DEF WalkInit
  <2> QED BY <1>1, <2>1, <2>2, ProcessAssumption DEF WalkInit, WalkTypeOK
<1>3. TreeInv /\ ListInv
  BY <1>1, ProcessAssumption DEF WalkInit, TreeInv, ListInv
<1>4. NoProcessTwice
  BY <1>1 DEF NoProcessTwice, IsInjective
<1>5. OrderInv /\ FileInv /\ SettledInv
  BY <1>1 DEF WalkInit, OrderInv, FileInv, SettledInv
<1> QED BY <1>2, <1>3, <1>4, <1>5 DEF WalkInv

(* A new process is in no list yet, and it is not settled.                   *)
LEMMA ForkInv ==
  ASSUME WalkInv, NEW p \in Pids, NEW c \in Pids, Fork(p, c)
  PROVE  WalkInv'
<1> USE DEF WalkInv
<1>1. WalkTypeOK'
  BY DEF Fork, WalkTypeOK
<1>2. TreeInv' /\ ListInv'
  BY DEF Fork, WalkTypeOK, TreeInv, ListInv
<1>3. NoProcessTwice'
  BY DEF Fork, NoProcessTwice, IsInjective
<1>4. \A k \in 1 .. Len(pids) : pids[k] # c
  BY DEF Fork, ListInv
<1>5. OrderInv'
  BY <1>4 DEF Fork, OrderInv, WalkTypeOK
<1>6. passed' \subseteq passed \cup {c} /\ passed \subseteq passed'
  BY DEF Fork
<1>7. walkPc = "reading" /\ c \in passed' \ passed => parent'[c] = pids[i]
  BY DEF Fork, Reads, WalkTypeOK
<1>8. FileInv'
  BY <1>4, <1>6, <1>7 DEF Fork, FileInv, TreeInv, ListInv, WalkTypeOK
<1>9. \A q : (Children(q) \cap settled)' \subseteq Children(q) \cap settled
  BY DEF Fork, Children, TreeInv, WalkTypeOK
<1>10. SettledInv'
  BY <1>9 DEF Fork, SettledInv, WalkTypeOK
<1> QED BY <1>1, <1>2, <1>3, <1>5, <1>8, <1>10

(* Orphans go to process 1, which is read first; they are not settled.       *)
LEMMA ExitInv ==
  ASSUME WalkInv, NEW p \in Pids, Exit(p)
  PROVE  WalkInv'
<1> USE DEF WalkInv
<1>1. /\ p \in alive \ {1}
      /\ alive' = alive \ {p}
      /\ parent' = [c \in Pids |-> IF c \in Children(p) THEN 1 ELSE parent[c]]
      /\ hidden' = hidden \ ({p} \cup Children(p))
      /\ settled' \subseteq settled \ ({p} \cup Children(p))
      /\ UNCHANGED <<used, walkPc, pids, i, held>>
  BY DEF Exit
<1>2. Children(p) \subseteq alive \ {1}
  BY ProcessAssumption DEF Children, TreeInv
<1>3. WalkTypeOK'
  <2>1. passed' \subseteq Pids
    BY <1>2 DEF Exit, WalkTypeOK
  <2>2. torn' \in BOOLEAN
    BY DEF Exit, WalkTypeOK, Reads
  <2> QED BY <1>1, <1>2, <2>1, <2>2, ProcessAssumption DEF WalkTypeOK
<1>4. TreeInv'
  <2>1. \A c \in alive' \ {1} : parent'[c] \in alive'
    BY <1>1 DEF TreeInv, WalkTypeOK, Children
  <2> QED BY <1>1, <1>2, <2>1, ProcessAssumption DEF TreeInv, WalkTypeOK
<1>5. ListInv' /\ NoProcessTwice'
  BY <1>1 DEF ListInv, NoProcessTwice, IsInjective, WalkTypeOK
<1>6. OrderInv'
  <2> SUFFICES ASSUME NEW k \in 1 .. Len(pids), pids[k] \in alive \ {1}, pids[k] # p
               PROVE  \E j \in 1 .. (i - 1) : parent'[pids[k]] = pids[j]
    BY <1>1 DEF OrderInv
  <2>1. i > 1 /\ pids[1] = 1
    BY DEF ListInv, WalkTypeOK
  <2> QED BY <1>1, <2>1 DEF OrderInv, WalkTypeOK
<1>7. FileInv'
  <2> SUFFICES ASSUME walkPc = "reading" PROVE FileInv'
    BY <1>1 DEF FileInv
  <2>1. passed \subseteq passed' /\ passed' \subseteq passed \cup Children(p)
    BY DEF Exit
  <2>2. passed' # passed => pids[i] = 1
    BY DEF Exit, Reads
  <2>3. pids[i] = 1 => \A k \in 1 .. Len(pids) : pids[k] = 1
    <3>1. i \in 1 .. Len(pids) /\ pids[1] = 1 /\ Len(pids) \in Nat
      BY DEF ListInv, WalkTypeOK
    <3>2. 1 \in DOMAIN pids /\ i \in DOMAIN pids
      BY <3>1 DEF WalkTypeOK
    <3>3. pids[i] = 1 => i = 1
      BY <3>1, <3>2 DEF NoProcessTwice, IsInjective
    <3>4. i = 1 => Len(pids) <= 1
      BY DEF ListInv
    <3> QED BY <3>1, <3>3, <3>4
  <2>4. \A c \in passed' : c \in alive' => parent'[c] \in {pids[i], 1}
    BY <1>1, <1>2, <2>1, <2>2 DEF FileInv, WalkTypeOK
  <2>5. \A c \in passed' : \A k \in 1 .. Len(pids) : pids[k] # c
    BY <1>2, <2>1, <2>2, <2>3 DEF FileInv, ListInv
  <2>6. passed' \subseteq used \ {1}
    BY <1>2, <2>1 DEF FileInv, WalkTypeOK
  <2> QED BY <1>1, <2>1, <2>4, <2>5, <2>6 DEF FileInv
<1>8. SettledInv'
  <2>1. \A q : (Children(q) \cap settled)' \subseteq Children(q) \cap settled
    BY <1>1 DEF Children, WalkTypeOK
  <2>2. walkPc = "reading" /\ torn' => (Children(pids[i]) \cap settled)' = {}
    BY <1>1 DEF Exit, Children, WalkTypeOK
  <2> QED BY <1>1, <2>1, <2>2 DEF SettledInv
<1> QED BY <1>3, <1>4, <1>5, <1>6, <1>7, <1>8

(* A child of a thread that ends is not in the list before its parent's file *)
(* has been read.                                                            *)
LEMMA ThreadExitsInv ==
  ASSUME WalkInv, NEW c \in Pids, ThreadExits(c)
  PROVE  WalkInv'
<1> USE DEF WalkInv
<1>1. /\ c \in hidden
      /\ hidden' = hidden \ {c}
      /\ \/ passed' = passed
         \/ passed' = passed \cup {c} /\ Reads(parent[c])
      /\ UNCHANGED <<alive, used, parent, walkPc, pids, i, held, torn, settled>>
  BY DEF ThreadExits
<1>2. WalkTypeOK' /\ TreeInv' /\ ListInv' /\ NoProcessTwice'
  BY <1>1 DEF WalkTypeOK, TreeInv, ListInv, NoProcessTwice, IsInjective
<1>3. OrderInv'
  BY <1>1 DEF OrderInv
<1>4. c \in alive \ {1}
  BY <1>1 DEF WalkTypeOK, TreeInv
<1>5. Reads(parent[c]) => \A k \in 1 .. Len(pids) : pids[k] # c
  <2> SUFFICES ASSUME Reads(parent[c]), NEW k \in 1 .. Len(pids), pids[k] = c
               PROVE  FALSE
    OBVIOUS
  <2>1. PICK j \in 1 .. (i - 1) : parent[c] = pids[j]
    BY <1>4 DEF OrderInv
  <2>2. i \in 1 .. Len(pids) /\ pids[i] = pids[j]
    BY <2>1 DEF Reads, ListInv, WalkTypeOK
  <2> QED BY <2>1, <2>2 DEF NoProcessTwice, IsInjective, WalkTypeOK
<1>6. FileInv'
  BY <1>1, <1>4, <1>5 DEF FileInv, Reads, WalkTypeOK
<1>7. SettledInv'
  BY <1>1 DEF SettledInv, Children
<1> QED BY <1>2, <1>3, <1>6, <1>7

(* The walk starts with process 1 in its list, which nobody's file holds.    *)
LEMMA StartWalkInv ==
  ASSUME WalkInv, StartWalk
  PROVE  WalkInv'
<1> USE DEF WalkInv
<1>1. /\ pids' = <<1>> /\ i' = 1 /\ walkPc' = "next"
      /\ settled' = alive \ hidden
      /\ UNCHANGED <<alive, used, parent, hidden, held, passed, torn>>
  BY DEF StartWalk, worldVars, fileVars
<1>2. pids' \in Seq(Pids) /\ Len(pids') = 1 /\ pids'[1] = 1 /\ DOMAIN pids' = {1}
  BY <1>1, ProcessAssumption
<1>3. WalkTypeOK' /\ TreeInv' /\ ListInv'
  BY <1>1, <1>2 DEF WalkTypeOK, TreeInv, ListInv
<1>4. NoProcessTwice'
  BY <1>2 DEF NoProcessTwice, IsInjective
<1>5. OrderInv' /\ FileInv' /\ SettledInv'
  BY <1>1, <1>2 DEF OrderInv, FileInv, SettledInv
<1> QED BY <1>3, <1>4, <1>5

(* A process that has vanished has left no children; one that has not is in  *)
(* the list once, so its children are not there yet.                         *)
LEMMA OpenChildrenInv ==
  ASSUME WalkInv, OpenChildren
  PROVE  WalkInv'
<1> USE DEF WalkInv
<1>1. /\ walkPc = "next" /\ i \in 1 .. Len(pids) /\ Len(pids) \in Nat
      /\ UNCHANGED <<alive, used, parent, hidden, pids, settled>>
  BY DEF OpenChildren, worldVars, WalkTypeOK
<1>2. CASE pids[i] \in alive
  <2>1. /\ walkPc' = "reading" /\ held' = Listed(pids[i]) /\ passed' = held'
        /\ torn' = FALSE /\ i' = i
    BY <1>2 DEF OpenChildren
  <2>2. /\ WalkTypeOK'
        /\ TreeInv' /\ ListInv'
        /\ NoProcessTwice' /\ OrderInv'
    <3>1. Listed(pids[i]) \subseteq Pids
      BY DEF Listed, Children, WalkTypeOK
    <3>2. WalkTypeOK'
      BY <1>1, <2>1, <3>1 DEF WalkTypeOK
    <3>3. TreeInv' /\ ListInv'
      BY <1>1, <2>1 DEF TreeInv, ListInv
    <3>4. NoProcessTwice' /\ OrderInv'
      BY <1>1, <2>1 DEF NoProcessTwice, IsInjective, OrderInv
    <3> QED BY <3>2, <3>3, <3>4
  <2>3. \A c \in Children(pids[i]) : c \in alive \ {1}
    BY <1>1, ProcessAssumption DEF Children, TreeInv, WalkTypeOK
  <2>4. \A c \in Children(pids[i]) : \A k \in 1 .. Len(pids) : pids[k] # c
    <3> SUFFICES ASSUME NEW c \in Children(pids[i]), NEW k \in 1 .. Len(pids), pids[k] = c
                 PROVE  FALSE
      OBVIOUS
    <3>1. PICK j \in 1 .. (i - 1) : parent[c] = pids[j]
      BY <2>3 DEF OrderInv
    <3>2. pids[i] = pids[j]
      BY <3>1 DEF Children
    <3>3. i \in DOMAIN pids /\ j \in DOMAIN pids /\ i # j
      BY <1>1 DEF WalkTypeOK
    <3> QED BY <3>2, <3>3 DEF NoProcessTwice, IsInjective
  <2>5. FileInv'
    BY <1>1, <2>1, <2>3, <2>4 DEF FileInv, Listed, Children, WalkTypeOK
  <2>6. SettledInv'
    BY <1>1, <2>1 DEF SettledInv, Listed, Children, TreeInv
  <2> QED BY <2>2, <2>5, <2>6
<1>3. CASE pids[i] \notin alive
  <2>1. i' = i + 1 /\ UNCHANGED <<walkPc, held, passed, torn>>
    BY <1>3 DEF OpenChildren, Onward, fileVars
  <2>2. i > 1
    BY <1>1, <1>3 DEF ListInv, TreeInv
  <2>3. WalkTypeOK' /\ TreeInv' /\ ListInv' /\ NoProcessTwice' /\ FileInv'
    BY <1>1, <2>1, <2>2 DEF WalkTypeOK, TreeInv, ListInv, NoProcessTwice, IsInjective, FileInv
  <2>4. OrderInv'
    BY <1>1, <2>1 DEF OrderInv
  <2>5. Children(pids[i]) = {}
    <3>1. pids[i] \in Pids
      BY <1>1 DEF WalkTypeOK
    <3>2. \A c \in alive : parent[c] # pids[i]
      BY <1>3, <3>1, ProcessAssumption DEF TreeInv
    <3> QED BY <3>2 DEF Children
  <2>6. SettledInv'
    BY <1>1, <2>1, <2>5 DEF SettledInv, Children
  <2> QED BY <2>3, <2>4, <2>6
<1> QED BY <1>2, <1>3

(* What the fields of the file are appended to: none of them is in the list, *)
(* each is there once, and an unspoilt file holds every settled child.       *)
LEMMA ReadChildrenInv ==
  ASSUME WalkInv, ReadChildren
  PROVE  WalkInv'
<1> USE DEF WalkInv
<1>1. /\ walkPc = "reading" /\ walkPc' = "next" /\ i' = i + 1
      /\ held' = {} /\ passed' = {} /\ torn' = FALSE
      /\ UNCHANGED <<alive, used, parent, hidden, settled>>
  BY DEF ReadChildren, worldVars
<1>2. PICK S \in SUBSET passed :
        /\ torn \/ held \subseteq S
        /\ \E s \in Fields(S) : pids' = pids \o s
  BY DEF ReadChildren
<1>3. PICK s \in Fields(S) : pids' = pids \o s
  BY <1>2
<1>4. IsFiniteSet(S)
  BY FS_Subset, ProcessAssumption DEF WalkTypeOK
<1>5. /\ s \in Seq(S)
      /\ \A a, b \in 1 .. Len(s) : s[a] = s[b] => a = b
      /\ \A c \in S : \E k \in 1 .. Len(s) : s[k] = c
  BY <1>4, FieldsOfSet
<1>6. /\ S \subseteq used \ {1}
      /\ \A c \in S : c \in alive => parent[c] \in {pids[i], 1}
      /\ \A c \in S : \A k \in 1 .. Len(pids) : pids[k] # c
  BY <1>1 DEF FileInv
<1>7. s \in Seq(Pids) /\ Len(s) \in Nat /\ \A k \in 1 .. Len(s) : s[k] \in S
  <2>1. S \subseteq Pids
    BY DEF WalkTypeOK
  <2>2. Len(s) \in Nat /\ \A k \in 1 .. Len(s) : s[k] \in S
    BY <1>5
  <2> QED BY <1>5, <2>1, <2>2
<1>8. pids \in Seq(Pids) /\ Len(pids) \in Nat /\ i \in 1 .. Len(pids)
  BY <1>1 DEF WalkTypeOK, ListInv
<1>9. /\ pids' \in Seq(Pids)
      /\ Len(pids') = Len(pids) + Len(s)
      /\ DOMAIN pids' = 1 .. (Len(pids) + Len(s))
      /\ \A k \in 1 .. Len(pids) : pids'[k] = pids[k]
      /\ \A k \in 1 .. Len(s) : pids'[Len(pids) + k] = s[k]
  BY <1>3, <1>7, <1>8
<1>10. \A k \in 1 .. Len(pids') :
          \/ k \in 1 .. Len(pids)
          \/ \E m \in 1 .. Len(s) : k = Len(pids) + m
  <2> SUFFICES ASSUME NEW k \in 1 .. Len(pids'), k \notin 1 .. Len(pids)
               PROVE  \E m \in 1 .. Len(s) : k = Len(pids) + m
    OBVIOUS
  <2>1. k - Len(pids) \in 1 .. Len(s) /\ k = Len(pids) + (k - Len(pids))
    BY <1>7, <1>8, <1>9
  <2> QED BY <2>1
<1>new. \A k \in 1 .. Len(pids') : k \notin 1 .. Len(pids) => pids'[k] \in S
  <2> SUFFICES ASSUME NEW k \in 1 .. Len(pids'), k \notin 1 .. Len(pids)
               PROVE  pids'[k] \in S
    OBVIOUS
  <2>1. PICK m \in 1 .. Len(s) : k = Len(pids) + m
    BY <1>10
  <2> QED BY <1>7, <1>9, <2>1
<1>11. WalkTypeOK'
  <2>1. i' \in 1 .. (Len(pids') + 1)
    BY <1>1, <1>7, <1>8, <1>9
  <2> QED BY <1>1, <1>9, <2>1 DEF WalkTypeOK
<1>12. TreeInv'
  BY <1>1 DEF TreeInv
<1>13. ListInv'
  <2>1. \A k \in 1 .. Len(pids') : pids'[k] \in used'
    BY <1>1, <1>6, <1>9, <1>new DEF ListInv
  <2>2. Len(pids') >= 1 /\ pids'[1] = 1 /\ i' # 1
    BY <1>1, <1>7, <1>8, <1>9 DEF ListInv
  <2> QED BY <1>1, <2>1, <2>2 DEF ListInv
<1>14. NoProcessTwice'
  <2> SUFFICES ASSUME NEW a \in 1 .. Len(pids'), NEW b \in 1 .. Len(pids'), pids'[a] = pids'[b]
               PROVE  a = b
    BY <1>9 DEF NoProcessTwice, IsInjective
  <2>1. CASE a \in 1 .. Len(pids) /\ b \in 1 .. Len(pids)
    BY <2>1, <1>8, <1>9 DEF NoProcessTwice, IsInjective
  <2>2. CASE a \notin 1 .. Len(pids) /\ b \notin 1 .. Len(pids)
    <3>1. PICK m \in 1 .. Len(s) : a = Len(pids) + m
      BY <1>10, <2>2
    <3>2. PICK n \in 1 .. Len(s) : b = Len(pids) + n
      BY <1>10, <2>2
    <3>3. s[m] = s[n]
      BY <1>9, <3>1, <3>2
    <3> QED BY <1>5, <3>1, <3>2, <3>3
  <2>3. CASE a \in 1 .. Len(pids) /\ b \notin 1 .. Len(pids)
    BY <1>6, <1>9, <1>new, <2>3
  <2>4. CASE a \notin 1 .. Len(pids) /\ b \in 1 .. Len(pids)
    BY <1>6, <1>9, <1>new, <2>4
  <2> QED BY <2>1, <2>2, <2>3, <2>4
<1>15. OrderInv'
  <2> SUFFICES ASSUME NEW k \in 1 .. Len(pids'), pids'[k] \in alive \ {1}
               PROVE  \E j \in 1 .. i : parent[pids'[k]] = pids'[j]
    BY <1>1, <1>8 DEF OrderInv
  <2>1. CASE k \in 1 .. Len(pids)
    <3>1. PICK j \in 1 .. (i - 1) : parent[pids[k]] = pids[j]
      BY <1>9, <2>1 DEF OrderInv
    <3>2. j \in 1 .. i /\ j \in 1 .. Len(pids)
      BY <1>8, <3>1
    <3> QED BY <1>9, <2>1, <3>1, <3>2
  <2>2. CASE k \notin 1 .. Len(pids)
    <3>1. pids'[k] \in S
      BY <1>new, <2>2
    <3>2. parent[pids'[k]] \in {pids[i], 1}
      BY <1>6, <3>1
    <3>3. pids'[i] = pids[i] /\ pids'[1] = 1 /\ i \in 1 .. i /\ 1 \in 1 .. i
      BY <1>1, <1>8, <1>9 DEF ListInv
    <3> QED BY <3>2, <3>3
  <2> QED BY <2>1, <2>2
<1>16. SettledInv'
  <2> SUFFICES ASSUME NEW j \in 1 .. i, NEW c \in Children(pids[j]) \cap settled
               PROVE  \E k \in 1 .. Len(pids') : pids'[k] = c
    <3>1. \A j \in 1 .. i : pids'[j] = pids[j]
      BY <1>8, <1>9
    <3> QED BY <1>1, <1>8, <3>1 DEF SettledInv, Children
  <2>1. CASE j # i
    <3>1. PICK k \in 1 .. Len(pids) : pids[k] = c
      BY <1>8, <2>1 DEF SettledInv
    <3>2. k \in 1 .. Len(pids')
      BY <1>7, <1>8, <1>9
    <3> QED BY <1>9, <3>1, <3>2
  <2>2. CASE j = i
    <3>1. c \in S
      BY <1>1, <1>2, <2>2 DEF SettledInv
    <3>2. PICK k \in 1 .. Len(s) : s[k] = c
      BY <1>5, <3>1
    <3>3. Len(pids) + k \in 1 .. Len(pids')
      BY <1>7, <1>8, <1>9
    <3> QED BY <1>9, <3>2, <3>3
  <2> QED BY <2>1, <2>2
<1>17. FileInv'
  BY <1>1 DEF FileInv
<1> QED BY <1>11, <1>12, <1>13, <1>14, <1>15, <1>16, <1>17

(* Returning and stuttering change nothing that the invariant is about.      *)
LEMMA RestInv ==
  ASSUME WalkInv, EndWalk \/ UNCHANGED walkVars
  PROVE  WalkInv'
<1> USE DEF WalkInv
<1>1. /\ UNCHANGED <<alive, used, parent, hidden, pids, i, held, passed, torn, settled>>
      /\ \/ walkPc' = walkPc
         \/ walkPc = "next" /\ walkPc' = "returned" /\ i = Len(pids) + 1
  BY DEF EndWalk, walkVars, worldVars, fileVars, WalkTypeOK
<1>2. WalkTypeOK' /\ TreeInv' /\ ListInv'
  BY <1>1 DEF WalkTypeOK, TreeInv, ListInv
<1>3. NoProcessTwice' /\ OrderInv' /\ FileInv' /\ SettledInv'
  BY <1>1 DEF NoProcessTwice, IsInjective, OrderInv, FileInv, SettledInv, Children
<1> QED BY <1>2, <1>3

(* Every step of the walk, and of the guest, keeps the invariant.            *)
LEMMA WalkNextInv == WalkInv /\ [WalkNext]_walkVars => WalkInv'
<1> SUFFICES ASSUME WalkInv, [WalkNext]_walkVars PROVE WalkInv'
  OBVIOUS
<1>1. CASE StartWalk
  BY <1>1, StartWalkInv
<1>2. CASE OpenChildren
  BY <1>2, OpenChildrenInv
<1>3. CASE ReadChildren
  BY <1>3, ReadChildrenInv
<1>4. CASE EndWalk \/ UNCHANGED walkVars
  BY <1>4, RestInv
<1>5. ASSUME NEW p \in Pids, NEW c \in Pids, Fork(p, c) PROVE WalkInv'
  BY <1>5, ForkInv
<1>6. ASSUME NEW p \in Pids, Exit(p) PROVE WalkInv'
  BY <1>6, ExitInv
<1>7. ASSUME NEW p \in Pids, ThreadExits(p) PROVE WalkInv'
  BY <1>7, ThreadExitsInv
<1> QED BY <1>1, <1>2, <1>3, <1>4, <1>5, <1>6, <1>7 DEF WalkNext, Walk, World

(* The invariant at the end of a walk: the list is a set of processes that   *)
(* holds process 1 and every settled child of its members.                   *)
LEMMA CountedIsLinked ==
  ASSUME WalkInv, walkPc = "returned"
  PROVE  Steady \subseteq Counted
<1> USE DEF WalkInv
<1>1. pids \in Seq(Pids) /\ Len(pids) \in Nat /\ DOMAIN pids = 1 .. Len(pids) /\ i - 1 = Len(pids)
  BY DEF WalkTypeOK, ListInv
<1>2. Counted = {pids[k] : k \in 1 .. Len(pids)} /\ Counted \subseteq Pids
  BY <1>1 DEF Counted, Range
<1>3. 1 \in Counted
  BY <1>1, <1>2 DEF ListInv
<1>4. ASSUME NEW q \in Counted PROVE Children(q) \cap settled \subseteq Counted
  <2>1. PICK j \in 1 .. (i - 1) : pids[j] = q
    BY <1>1, <1>2, <1>4
  <2> QED BY <1>2, <2>1 DEF SettledInv
<1>5. Linked(Counted)
  BY <1>3, <1>4 DEF Linked
<1> QED BY <1>2, <1>5 DEF Steady

-----------------------------------------------------------------------------
(* The walk's state keeps its types: the index never passes the end of the   *)
(* list by more than one, whatever vanishes (processesState).                *)
THEOREM WalkTypes == WalkSpec => []WalkTypeOK
<1>1. WalkInv => WalkTypeOK
  BY DEF WalkInv
<1> QED BY WalkInitInv, WalkNextInv, <1>1, PTL DEF WalkSpec

(* No process is counted twice, for any number of processes.                 *)
THEOREM NoTwice == WalkSpec => []NoProcessTwice
<1>1. WalkInv => NoProcessTwice
  BY DEF WalkInv
<1> QED BY WalkInitInv, WalkNextInv, <1>1, PTL DEF WalkSpec

(* Processes that stay where they are, below processes that stay where they  *)
(* are, are counted by every walk.                                           *)
THEOREM SteadyCounted == WalkSpec => []SteadyAreCounted
<1>1. WalkInv => SteadyAreCounted
  BY CountedIsLinked DEF SteadyAreCounted
<1> QED BY WalkInitInv, WalkNextInv, <1>1, PTL DEF WalkSpec

=============================================================================
