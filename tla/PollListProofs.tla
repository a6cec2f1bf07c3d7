--------------------------- MODULE PollListProofs ---------------------------
(***************************************************************************)
(* What PollfdsManager does to its list, and what a call of poll() makes   *)
(* of it, for lists of any length.                                         *)
(***************************************************************************)
EXTENDS PollProxy, FiniteSetTheorems, SequenceTheorems, TLAPS

Item == [fd : Fds, events : {"in", "out", "none"}]

(* The entries of a list, and that no number has two of them. *)
Items(list) == {list[i] : i \in DOMAIN list}
Once(list) ==
  \A i, j \in DOMAIN list : list[i].fd = list[j].fd => i = j

USE PollAssumption DEF Entries
-----------------------------------------------------------------------------

(* A set of naturals that is not empty has a least member. *)
LEMMA Least ==
  ASSUME NEW S \in SUBSET Nat, S # {}
  PROVE  \E n \in S : \A m \in S : n <= m
<1>1. \A f, g \in S : <<g, f>> \in OpToRel(<, Nat) <=> g < f
  BY Zenon DEF OpToRel
<1>2. PICK n \in S : \A m \in S : ~(<<m, n>> \in OpToRel(<, Nat))
  BY NatLessThanWellFounded, WFMin
<1>3. ASSUME NEW m \in S PROVE n <= m
  <2>1. n \in Nat /\ m \in Nat /\ ~(m < n)
    BY <1>1, <1>2
  <2> QED
    BY <2>1, SMT
<1> QED
  BY <1>3

(* find_if finds an entry of the number, if there is one. *)
LEMMA FirstFinds ==
  ASSUME NEW list \in Seq(Item), NEW f
  PROVE  /\ First(list, f) \in 0 .. Len(list)
         /\ First(list, f) # 0 =>
              /\ First(list, f) \in 1 .. Len(list)
              /\ list[First(list, f)].fd = f
              /\ \A i \in 1 .. Len(list) :
                   list[i].fd = f => First(list, f) <= i
         /\ First(list, f) = 0 => \A i \in 1 .. Len(list) : list[i].fd # f
<1> DEFINE I == {i \in 1 .. Len(list) : list[i].fd = f}
<1>1. First(list, f) = IF I # {} THEN Min(I) ELSE 0
  BY DEF First, SelectInSeq
<1>2. Len(list) \in Nat /\ I \in SUBSET Nat
  BY LenProperties
<1>3. CASE I = {}
  BY <1>1, <1>2, <1>3
<1>4. CASE I # {}
  <2>1. \E n \in I : \A m \in I : n <= m
    BY <1>2, <1>4, Least
  <2>2. Min(I) \in I /\ \A m \in I : Min(I) <= m
    BY <2>1 DEF Min
  <2>3. First(list, f) \in I /\ \A m \in I : First(list, f) <= m
    BY <1>1, <1>4, <2>2
  <2> QED
    BY <1>2, <2>3
<1> QED
  BY <1>3, <1>4

(* In a list with no two entries for a number, it finds the entry. *)
LEMMA FirstOnly ==
  ASSUME NEW list \in Seq(Item), Once(list), NEW i \in DOMAIN list
  PROVE  First(list, list[i].fd) = i
<1>1. DOMAIN list = 1 .. Len(list) /\ Len(list) \in Nat
  BY LenProperties
<1>2. First(list, list[i].fd) # 0
  BY <1>1, FirstFinds
<1>3. First(list, list[i].fd) \in DOMAIN list
      /\ list[First(list, list[i].fd)].fd = list[i].fd
  BY <1>1, <1>2, FirstFinds
<1> QED
  BY <1>3 DEF Once

-----------------------------------------------------------------------------
(* add_fd *)

LEMMA AddFdType ==
  ASSUME NEW list \in Seq(Item), NEW f \in Fds, NEW ev \in {"in", "out", "none"}
  PROVE  AddFd(list, f, ev) \in Seq(Item)
<1>1. [fd |-> f, events |-> ev] \in Item
  BY DEF Item
<1> QED
  BY <1>1, AppendProperties DEF AddFd

(* add_fd puts one entry more at the end. *)
LEMMA AddFdItems ==
  ASSUME NEW list \in Seq(Item), NEW f \in Fds, NEW ev \in {"in", "out", "none"}
  PROVE  /\ Items(AddFd(list, f, ev)) = Items(list) \cup {[fd |-> f, events |-> ev]}
         /\ Once(list) /\ (\A p \in Items(list) : p.fd # f)
              => Once(AddFd(list, f, ev))
<1> DEFINE p == [fd |-> f, events |-> ev]
           new == Append(list, p)
<1>1. p \in Item /\ p.fd = f
  BY DEF Item
<1>2. DOMAIN list = 1 .. Len(list) /\ Len(list) \in Nat
  BY LenProperties
<1>3. /\ new \in Seq(Item)
      /\ Len(new) = Len(list) + 1
      /\ \A i \in 1 .. Len(list) : new[i] = list[i]
      /\ new[Len(list) + 1] = p
  BY <1>1, AppendProperties
<1>4. DOMAIN new = 1 .. Len(list) + 1
  BY <1>3, LenProperties
<1>5. AddFd(list, f, ev) = new
  BY DEF AddFd
<1> HIDE DEF p, new
<1>6. Items(new) = Items(list) \cup {p}
  BY <1>2, <1>3, <1>4 DEF Items
<1>7. ASSUME Once(list), \A q \in Items(list) : q.fd # f PROVE Once(new)
  <2>1. \A i \in 1 .. Len(list) : list[i].fd # f
    BY <1>2, <1>7 DEF Items
  <2> QED
    BY <1>1, <1>2, <1>3, <1>4, <1>7, <2>1 DEF Once
<1> QED
  BY <1>5, <1>6, <1>7 DEF p

-----------------------------------------------------------------------------
(* switch_fd *)

LEMMA SwitchFdType ==
  ASSUME NEW list \in Seq(Item), NEW f, NEW ev \in {"in", "out", "none"}
  PROVE  SwitchFd(list, f, ev) \in Seq(Item)
<1> DEFINE k == First(list, f)
<1>1. CASE k = 0
  BY <1>1 DEF SwitchFd
<1>2. CASE k # 0
  <2>1. k \in 1 .. Len(list)
    BY <1>2, FirstFinds
  <2>2. list[k] \in Item
    BY <2>1, ElementOfSeq
  <2>3. [list[k] EXCEPT !.events = ev] \in Item
    BY <2>2 DEF Item
  <2>4. SwitchFd(list, f, ev) = [list EXCEPT ![k] = [list[k] EXCEPT !.events = ev]]
    BY <1>2 DEF SwitchFd
  <2> HIDE DEF k
  <2> QED
    BY <2>1, <2>3, <2>4, ExceptSeq
<1> QED
  BY <1>1, <1>2

(* switch_fd changes what the number is polled for, and nothing else. *)
LEMMA SwitchFdItems ==
  ASSUME NEW list \in Seq(Item), Once(list), NEW f,
         NEW ev \in {"in", "out", "none"}, \E p \in Items(list) : p.fd = f
  PROVE  /\ Items(SwitchFd(list, f, ev))
              = {p \in Items(list) : p.fd # f} \cup {[fd |-> f, events |-> ev]}
         /\ Once(SwitchFd(list, f, ev))
<1> DEFINE new == SwitchFd(list, f, ev)
<1>1. DOMAIN list = 1 .. Len(list) /\ Len(list) \in Nat
      /\ \A i \in DOMAIN list : list[i] \in Item
  BY LenProperties, ElementOfSeq
<1>2. PICK k \in DOMAIN list : list[k].fd = f
  BY DEF Items
<1>3. First(list, f) = k /\ k # 0
  BY <1>1, <1>2, FirstOnly
<1>4. new = [list EXCEPT ![k] = [list[k] EXCEPT !.events = ev]]
  BY <1>3 DEF SwitchFd
<1>5. [list[k] EXCEPT !.events = ev] = [fd |-> f, events |-> ev]
  BY <1>1, <1>2 DEF Item
<1>6. /\ DOMAIN new = DOMAIN list
      /\ new[k] = [fd |-> f, events |-> ev]
      /\ \A i \in DOMAIN list : i # k => new[i] = list[i]
  BY <1>2, <1>4, <1>5
<1> HIDE DEF new
<1>7. \A i \in DOMAIN list : new[i].fd = list[i].fd
  BY <1>2, <1>6
<1>8. Once(new)
  BY <1>6, <1>7 DEF Once
<1>9. \A i \in DOMAIN list : i # k <=> list[i].fd # f
  BY <1>2 DEF Once
<1> QED
  BY <1>2, <1>6, <1>8, <1>9 DEF Items, new

-----------------------------------------------------------------------------
(* remove_fd *)

(* remove_fd closes the gap: what stood behind moves up by one. *)
LEMMA RemoveFdShift ==
  ASSUME NEW list \in Seq(Item), NEW f, First(list, f) # 0
  PROVE  /\ RemoveFd(list, f) \in Seq(Item)
         /\ Len(RemoveFd(list, f)) = Len(list) - 1
         /\ \A i \in 1 .. Len(list) - 1 :
              RemoveFd(list, f)[i]
                = IF i < First(list, f) THEN list[i] ELSE list[i + 1]
<1> DEFINE k == First(list, f)
           a == SubSeq(list, 1, k - 1)
           b == SubSeq(list, k + 1, Len(list))
<1>1. k \in 1 .. Len(list) /\ Len(list) \in Nat
  BY FirstFinds, LenProperties
<1>2. RemoveFd(list, f) = a \o b
  BY DEF RemoveFd, RemoveAt
<1>e. \A i \in 1 .. Len(list) : list[i] \in Item
  BY ElementOfSeq
<1> HIDE DEF k
<1>3. /\ a \in Seq(Item) /\ Len(a) = k - 1
      /\ \A i \in 1 .. k - 1 : a[i] = list[i]
  <2>1. \A i \in 1 .. k - 1 : list[i] \in Item
    BY <1>1, <1>e
  <2>2. /\ a \in Seq(Item)
        /\ Len(a) = IF 1 <= k - 1 THEN k - 1 - 1 + 1 ELSE 0
        /\ \A i \in 1 .. k - 1 - 1 + 1 : a[i] = list[1 + i - 1]
    BY <1>1, <2>1, SubSeqProperties
  <2> HIDE DEF a
  <2> QED
    BY <1>1, <2>2
<1>4. /\ b \in Seq(Item) /\ Len(b) = Len(list) - k
      /\ \A i \in 1 .. Len(list) - k : b[i] = list[k + i]
  <2>1. \A i \in k + 1 .. Len(list) : list[i] \in Item
    BY <1>1, <1>e
  <2>2. /\ b \in Seq(Item)
        /\ Len(b) = IF k + 1 <= Len(list) THEN Len(list) - (k + 1) + 1 ELSE 0
        /\ \A i \in 1 .. Len(list) - (k + 1) + 1 : b[i] = list[k + 1 + i - 1]
    BY <1>1, <2>1, SubSeqProperties
  <2> HIDE DEF b
  <2> QED
    BY <1>1, <2>2
<1> HIDE DEF a, b
<1>5. /\ a \o b \in Seq(Item)
      /\ Len(a \o b) = Len(list) - 1
      /\ \A i \in 1 .. Len(list) - 1 :
           (a \o b)[i] = IF i <= k - 1 THEN a[i] ELSE b[i - (k - 1)]
  <2>1. /\ a \o b \in Seq(Item)
        /\ Len(a \o b) = Len(a) + Len(b)
        /\ \A i \in 1 .. Len(a) + Len(b) :
             (a \o b)[i] = IF i <= Len(a) THEN a[i] ELSE b[i - Len(a)]
    BY <1>3, <1>4, ConcatProperties
  <2>2. Len(a) = k - 1 /\ Len(a) + Len(b) = Len(list) - 1
    BY <1>1, <1>3, <1>4
  <2> QED
    BY <2>1, <2>2
<1>6. ASSUME NEW i \in 1 .. Len(list) - 1
      PROVE  (a \o b)[i] = IF i < k THEN list[i] ELSE list[i + 1]
  <2>1. CASE i < k
    BY <1>1, <1>3, <1>5, <2>1
  <2>2. CASE ~(i < k)
    <3>1. (a \o b)[i] = b[i - (k - 1)]
      <4>1. ~(i <= k - 1)
        BY <1>1, <2>2
      <4> QED
        BY <1>5, <4>1, Zenon
    <3>2. i - (k - 1) \in 1 .. Len(list) - k /\ k + (i - (k - 1)) = i + 1
      BY <1>1, <2>2
    <3> QED
      BY <1>4, <2>2, <3>1, <3>2
  <2> QED
    BY <2>1, <2>2
<1> QED
  BY <1>2, <1>5, <1>6 DEF k

LEMMA RemoveFdType ==
  ASSUME NEW list \in Seq(Item), NEW f
  PROVE  RemoveFd(list, f) \in Seq(Item)
<1>1. CASE First(list, f) = 0
  BY <1>1 DEF RemoveFd
<1>2. CASE First(list, f) # 0
  BY <1>2, RemoveFdShift
<1> QED
  BY <1>1, <1>2

(* remove_fd takes out the first entry of the number, and no other. *)
LEMMA RemoveFdIndices ==
  ASSUME NEW list \in Seq(Item), NEW f, NEW k \in DOMAIN list,
         First(list, f) = k
  PROVE  /\ Items(RemoveFd(list, f)) = {list[i] : i \in DOMAIN list \ {k}}
         /\ (\A i, j \in DOMAIN list \ {k} :
               list[i].fd = list[j].fd => i = j) => Once(RemoveFd(list, f))
<1> DEFINE new == RemoveFd(list, f)
<1>1. DOMAIN list = 1 .. Len(list) /\ Len(list) \in Nat
  BY LenProperties
<1>2. /\ new \in Seq(Item)
      /\ Len(new) = Len(list) - 1
      /\ \A i \in 1 .. Len(list) - 1 :
           new[i] = IF i < k THEN list[i] ELSE list[i + 1]
  <2>1. First(list, f) # 0
    BY <1>1
  <2>2. /\ RemoveFd(list, f) \in Seq(Item)
        /\ Len(RemoveFd(list, f)) = Len(list) - 1
        /\ \A i \in 1 .. Len(list) - 1 :
             RemoveFd(list, f)[i]
               = IF i < First(list, f) THEN list[i] ELSE list[i + 1]
    BY <2>1, RemoveFdShift
  <2> QED
    BY <2>2
<1>3. DOMAIN new = 1 .. Len(list) - 1
  BY <1>2, LenProperties
<1> HIDE DEF new
<1>4. ASSUME NEW i \in DOMAIN new
      PROVE  \E j \in DOMAIN list \ {k} : new[i] = list[j]
  <2>1. CASE i < k
    BY <1>1, <1>2, <1>3, <2>1
  <2>2. CASE ~(i < k)
    <3>1. i + 1 \in DOMAIN list \ {k} /\ new[i] = list[i + 1]
      BY <1>1, <1>2, <1>3, <2>2
    <3> QED
      BY <3>1
  <2> QED
    BY <2>1, <2>2
<1>5. ASSUME NEW j \in DOMAIN list \ {k}
      PROVE  \E i \in DOMAIN new : new[i] = list[j]
  <2>1. CASE j < k
    BY <1>1, <1>2, <1>3, <2>1
  <2>2. CASE ~(j < k)
    <3>1. j - 1 \in DOMAIN new /\ ~(j - 1 < k) /\ (j - 1) + 1 = j
      BY <1>1, <1>3, <2>2
    <3> QED
      BY <1>2, <1>3, <3>1
  <2> QED
    BY <2>1, <2>2
<1>6. Items(new) = {list[i] : i \in DOMAIN list \ {k}}
  BY <1>4, <1>5 DEF Items
<1>7. ASSUME \A i, j \in DOMAIN list \ {k} : list[i].fd = list[j].fd => i = j
      PROVE  Once(new)
  <2> SUFFICES ASSUME NEW i \in DOMAIN new, NEW j \in DOMAIN new,
                      new[i].fd = new[j].fd
               PROVE  i = j
    BY DEF Once
  <2> DEFINE at(n) == IF n < k THEN n ELSE n + 1
  <2>1. /\ at(i) \in DOMAIN list \ {k} /\ new[i] = list[at(i)]
        /\ at(j) \in DOMAIN list \ {k} /\ new[j] = list[at(j)]
    BY <1>1, <1>2, <1>3
  <2>2. at(i) = at(j)
    BY <1>7, <2>1
  <2> QED
    BY <1>1, <1>3, <2>2
<1> QED
  BY <1>6, <1>7 DEF new

(* In a list with no two entries for a number, remove_fd leaves none.      *)
LEMMA RemoveFdItems ==
  ASSUME NEW list \in Seq(Item), Once(list), NEW f
  PROVE  /\ Items(RemoveFd(list, f)) = {p \in Items(list) : p.fd # f}
         /\ Once(RemoveFd(list, f))
<1>1. DOMAIN list = 1 .. Len(list) /\ Len(list) \in Nat
  BY LenProperties
<1>2. CASE First(list, f) = 0
  <2>1. \A i \in DOMAIN list : list[i].fd # f
    BY <1>1, <1>2, FirstFinds
  <2> QED
    BY <1>2, <2>1 DEF RemoveFd, Items
<1>3. CASE First(list, f) # 0
  <2> DEFINE k == First(list, f)
  <2>1. k \in DOMAIN list /\ list[k].fd = f
    BY <1>1, <1>3, FirstFinds
  <2>2. \A i \in DOMAIN list : list[i].fd # f <=> i # k
    BY <2>1 DEF Once
  <2>3. /\ Items(RemoveFd(list, f)) = {list[i] : i \in DOMAIN list \ {k}}
        /\ (\A i, j \in DOMAIN list \ {k} :
              list[i].fd = list[j].fd => i = j) => Once(RemoveFd(list, f))
    BY <2>1, RemoveFdIndices
  <2> HIDE DEF k
  <2>4. {list[i] : i \in DOMAIN list \ {k}} = {p \in Items(list) : p.fd # f}
    BY <2>2 DEF Items
  <2>5. Once(RemoveFd(list, f))
    BY <2>3 DEF Once
  <2> QED
    BY <2>3, <2>4, <2>5
<1> QED
  BY <1>2, <1>3

(* Added anew and then removed, a number keeps the entry that was added.   *)
LEMMA ReplacedItems ==
  ASSUME NEW list \in Seq(Item), Once(list), NEW f \in Fds,
         NEW ev \in {"in", "out", "none"}, \E p \in Items(list) : p.fd = f
  PROVE  /\ Items(RemoveFd(AddFd(list, f, ev), f))
              = {p \in Items(list) : p.fd # f} \cup {[fd |-> f, events |-> ev]}
         /\ Once(RemoveFd(AddFd(list, f, ev), f))
<1> DEFINE p == [fd |-> f, events |-> ev]
           more == Append(list, p)
           n == Len(list)
<1>1. p \in Item /\ p.fd = f
  BY DEF Item
<1>2. DOMAIN list = 1 .. n /\ n \in Nat
  BY LenProperties
<1>3. /\ more \in Seq(Item)
      /\ Len(more) = n + 1
      /\ \A i \in 1 .. n : more[i] = list[i]
      /\ more[n + 1] = p
  BY <1>1, AppendProperties
<1>4. DOMAIN more = 1 .. n + 1
  BY <1>3, LenProperties
<1>5. AddFd(list, f, ev) = more
  BY DEF AddFd
<1> HIDE DEF p, more, n
<1>6. PICK k \in DOMAIN list : list[k].fd = f
  BY DEF Items
<1>7. \A i \in DOMAIN list : list[i].fd = f <=> i = k
  BY <1>6 DEF Once
<1>8. First(more, f) = k
  <2>1. k \in 1 .. n + 1 /\ more[k].fd = f
    BY <1>2, <1>3, <1>6
  <2>2. First(more, f) # 0
    BY <1>3, <2>1, FirstFinds
  <2>3. /\ First(more, f) \in 1 .. n + 1 /\ more[First(more, f)].fd = f
        /\ First(more, f) <= k
    BY <1>3, <2>1, <2>2, FirstFinds
  <2>4. First(more, f) \in 1 .. n
    BY <1>2, <1>6, <2>3
  <2> QED
    BY <1>2, <1>3, <1>7, <2>3, <2>4
<1>9. k \in DOMAIN more
  BY <1>2, <1>4, <1>6
<1>10. /\ Items(RemoveFd(more, f)) = {more[i] : i \in DOMAIN more \ {k}}
       /\ (\A i, j \in DOMAIN more \ {k} :
             more[i].fd = more[j].fd => i = j) => Once(RemoveFd(more, f))
  BY <1>3, <1>8, <1>9, RemoveFdIndices
<1>11. DOMAIN more \ {k} = (DOMAIN list \ {k}) \cup {n + 1}
  BY <1>2, <1>4, <1>6
<1>12. {more[i] : i \in DOMAIN more \ {k}}
         = {q \in Items(list) : q.fd # f} \cup {p}
  <2>1. {more[i] : i \in DOMAIN more \ {k}}
          = {list[i] : i \in DOMAIN list \ {k}} \cup {p}
    BY <1>2, <1>3, <1>11
  <2>2. {list[i] : i \in DOMAIN list \ {k}} = {q \in Items(list) : q.fd # f}
    BY <1>7 DEF Items
  <2> QED
    BY <2>1, <2>2
<1>13. \A i, j \in DOMAIN more \ {k} : more[i].fd = more[j].fd => i = j
  <2> SUFFICES ASSUME NEW i \in DOMAIN more \ {k}, NEW j \in DOMAIN more \ {k},
                      more[i].fd = more[j].fd
               PROVE  i = j
    OBVIOUS
  <2>1. CASE i = n + 1 \/ j = n + 1
    BY <1>1, <1>2, <1>3, <1>7, <1>11, <2>1
  <2>2. CASE i # n + 1 /\ j # n + 1
    BY <1>2, <1>3, <1>11, <2>2 DEF Once
  <2> QED
    BY <2>1, <2>2
<1> QED
  BY <1>5, <1>10, <1>12, <1>13 DEF p

-----------------------------------------------------------------------------
(* The callbacks of one read from an origin *)

(* Waking a set of numbers keeps every entry where it is. *)
LEMMA WokenType ==
  ASSUME polled \in Seq(Item), NEW S
  PROVE  /\ Woken(S) \in Seq(Item)
         /\ Len(Woken(S)) = Len(polled)
         /\ \A i \in 1 .. Len(polled) : Woken(S)[i].fd = polled[i].fd
<1>1. DOMAIN polled = 1 .. Len(polled) /\ Len(polled) \in Nat
  BY LenProperties
<1>2. \A i \in 1 .. Len(polled) : polled[i] \in Item
  BY ElementOfSeq
<1>3. \A i \in 1 .. Len(polled) :
        Woken(S)[i] \in Item /\ Woken(S)[i].fd = polled[i].fd
  BY <1>1, <1>2 DEF Woken, Item
<1>4. Woken(S) \in [1 .. Len(polled) -> Item]
  BY <1>1, <1>3 DEF Woken
<1>5. Woken(S) \in Seq(Item)
  BY <1>1, <1>4
<1>6. Len(Woken(S)) = Len(polled)
  BY <1>1, <1>4, <1>5, LenProperties
<1> QED
  BY <1>3, <1>5, <1>6

(* In a list with no two entries for a number, the entries of the set are  *)
(* polled for writing and the others for what they were.                   *)
LEMMA WokenItems ==
  ASSUME polled \in Seq(Item), Once(polled), NEW S,
         \A f \in S : \E p \in Items(polled) : p.fd = f
  PROVE  /\ Items(Woken(S)) = {p \in Items(polled) : p.fd \notin S}
                               \cup {[fd |-> f, events |-> "out"] : f \in S}
         /\ Once(Woken(S))
<1>1. DOMAIN polled = 1 .. Len(polled) /\ Len(polled) \in Nat
      /\ \A i \in DOMAIN polled : polled[i] \in Item
  BY LenProperties, ElementOfSeq
<1>2. ASSUME NEW i \in DOMAIN polled
      PROVE  (\E f \in S : First(polled, f) = i) <=> polled[i].fd \in S
  <2>1. First(polled, polled[i].fd) = i
    BY FirstOnly
  <2>2. ASSUME NEW f \in S, First(polled, f) = i PROVE polled[i].fd = f
    <3>1. First(polled, f) # 0
      BY <1>1, <2>2
    <3> QED
      BY <2>2, <3>1, FirstFinds
  <2> QED
    BY <2>1, <2>2
<1>3. \A i \in DOMAIN polled :
        Woken(S)[i] = IF polled[i].fd \in S
                      THEN [fd |-> polled[i].fd, events |-> "out"]
                      ELSE polled[i]
  BY <1>1, <1>2 DEF Woken, Item
<1>4. DOMAIN Woken(S) = DOMAIN polled
  BY DEF Woken
<1>5. Once(Woken(S))
  BY <1>3, <1>4 DEF Once
<1>6. \A f \in S : \E i \in DOMAIN polled : polled[i].fd = f
  BY DEF Items
<1> QED
  BY <1>3, <1>4, <1>5, <1>6 DEF Items

(* The members of a finite set in an order: each of them, and each once. *)
LEMMA Ordered ==
  ASSUME NEW S, IsFiniteSet(S), NEW order \in SetToSeqs(S)
  PROVE  /\ Cardinality(S) \in Nat
         /\ order \in [1 .. Cardinality(S) -> S]
         /\ \A i, j \in 1 .. Cardinality(S) : order[i] = order[j] => i = j
         /\ \A s \in S : \E i \in 1 .. Cardinality(S) : order[i] = s
<1> DEFINE D == 1 .. Cardinality(S)
<1>1. Cardinality(S) \in Nat
  BY FS_CardinalityType
<1>2. order \in [D -> S] /\ \A i, j \in D : order[i] = order[j] => i = j
  BY DEF SetToSeqs
<1>3. order \in Injection(D, S)
  BY <1>2 DEF Injection, IsInjective
<1>4. Cardinality(D) = Cardinality(S)
  BY <1>1, FS_Interval
<1>5. order \in Surjection(D, S)
  BY <1>3, <1>4, FS_Injection
<1> QED
  BY <1>1, <1>2, <1>5 DEF Surjection

(* The entries that are added for those who get a writer. *)
Added(order) == [n \in DOMAIN order |-> [fd |-> order[n], events |-> "out"]]

LEMMA AddedItems ==
  ASSUME NEW S \in SUBSET Fds, NEW order \in SetToSeqs(S)
  PROVE  /\ Added(order) \in Seq(Item)
         /\ Items(Added(order)) = {[fd |-> f, events |-> "out"] : f \in S}
         /\ Once(Added(order))
<1> DEFINE n == Cardinality(S)
<1>1. IsFiniteSet(S)
  BY FS_Subset
<1>2. /\ n \in Nat /\ order \in [1 .. n -> S]
      /\ \A i, j \in 1 .. n : order[i] = order[j] => i = j
      /\ \A s \in S : \E i \in 1 .. n : order[i] = s
  BY <1>1, Ordered
<1> HIDE DEF n
<1>3. DOMAIN Added(order) = 1 .. n
      /\ \A i \in 1 .. n : Added(order)[i] = [fd |-> order[i], events |-> "out"]
  BY <1>2 DEF Added
<1>4. \A i \in 1 .. n : order[i] \in Fds
  BY <1>2
<1>5. Added(order) \in [1 .. n -> Item]
  BY <1>2, <1>4 DEF Added, Item
<1>6. Added(order) \in Seq(Item)
  BY <1>2, <1>5
<1>7. Once(Added(order))
  BY <1>2, <1>3 DEF Once
<1>8. Items(Added(order)) = {[fd |-> f, events |-> "out"] : f \in S}
  <2>1. \A i \in 1 .. n :
          Added(order)[i] \in {[fd |-> f, events |-> "out"] : f \in S}
    BY <1>2, <1>3
  <2>2. \A f \in S : \E i \in 1 .. n :
          Added(order)[i] = [fd |-> f, events |-> "out"]
    BY <1>2, <1>3
  <2>3. Items(Added(order)) = {Added(order)[i] : i \in 1 .. n}
    BY <1>3 DEF Items
  <2> HIDE DEF Added
  <2> QED
    BY <2>1, <2>2, <2>3, Zenon
<1> QED
  BY <1>6, <1>7, <1>8

(* Two lists that share no number, one after the other. *)
LEMMA JoinedItems ==
  ASSUME NEW a \in Seq(Item), NEW b \in Seq(Item)
  PROVE  /\ a \o b \in Seq(Item)
         /\ Items(a \o b) = Items(a) \cup Items(b)
         /\ Once(a) /\ Once(b)
              /\ (\A p \in Items(a), q \in Items(b) : p.fd # q.fd)
              => Once(a \o b)
<1>1. /\ DOMAIN a = 1 .. Len(a) /\ Len(a) \in Nat
      /\ DOMAIN b = 1 .. Len(b) /\ Len(b) \in Nat
  BY LenProperties
<1>2. /\ a \o b \in Seq(Item) /\ Len(a \o b) = Len(a) + Len(b)
      /\ \A i \in 1 .. Len(a) + Len(b) :
           (a \o b)[i] = IF i <= Len(a) THEN a[i] ELSE b[i - Len(a)]
  BY ConcatProperties
<1>3. DOMAIN (a \o b) = 1 .. Len(a) + Len(b)
  BY <1>2, LenProperties
<1> DEFINE c == a \o b
<1>4. \A i \in DOMAIN a : i \in DOMAIN c /\ c[i] = a[i]
  BY <1>1, <1>2, <1>3
<1>5. \A i \in DOMAIN b : Len(a) + i \in DOMAIN c /\ c[Len(a) + i] = b[i]
  <2> SUFFICES ASSUME NEW i \in DOMAIN b
               PROVE  Len(a) + i \in DOMAIN c /\ c[Len(a) + i] = b[i]
    OBVIOUS
  <2>1. /\ Len(a) + i \in 1 .. Len(a) + Len(b) /\ ~(Len(a) + i <= Len(a))
        /\ (Len(a) + i) - Len(a) = i
    BY <1>1
  <2>2. c[Len(a) + i] = b[(Len(a) + i) - Len(a)]
    BY <1>2, <2>1, Zenon
  <2> QED
    BY <1>3, <2>1, <2>2
<1>6. \A i \in DOMAIN c :
        \/ i \in DOMAIN a
        \/ \E j \in DOMAIN b : i = Len(a) + j
  <2> SUFFICES ASSUME NEW i \in DOMAIN c, i \notin DOMAIN a
               PROVE  \E j \in DOMAIN b : i = Len(a) + j
    OBVIOUS
  <2>1. i - Len(a) \in DOMAIN b /\ i = Len(a) + (i - Len(a))
    BY <1>1, <1>3
  <2> QED
    BY <2>1
<1> HIDE DEF c
<1>7. Items(c) = Items(a) \cup Items(b)
  <2>1. \A i \in DOMAIN c : c[i] \in Items(a) \cup Items(b)
    BY <1>4, <1>5, <1>6 DEF Items
  <2>2. \A i \in DOMAIN a : a[i] \in Items(c)
    BY <1>4 DEF Items
  <2>3. \A i \in DOMAIN b : b[i] \in Items(c)
    BY <1>5, Zenon DEF Items
  <2> QED
    BY <2>1, <2>2, <2>3 DEF Items
<1>8. ASSUME Once(a), Once(b), \A p \in Items(a), q \in Items(b) : p.fd # q.fd
      PROVE  Once(c)
  <2> SUFFICES ASSUME NEW i \in DOMAIN c, NEW j \in DOMAIN c, c[i].fd = c[j].fd
               PROVE  i = j
    BY DEF Once
  <2>0. \A k \in DOMAIN a, m \in DOMAIN b : a[k].fd # b[m].fd
    BY <1>8 DEF Items
  <2>1. CASE i \in DOMAIN a /\ j \in DOMAIN a
    BY <1>4, <1>8, <2>1 DEF Once
  <2>2. CASE i \in DOMAIN a /\ j \notin DOMAIN a
    <3>1. PICK m \in DOMAIN b : j = Len(a) + m
      BY <1>6, <2>2
    <3>2. a[i].fd = b[m].fd
      BY <1>4, <1>5, <2>2, <3>1
    <3> QED
      BY <2>0, <2>2, <3>2
  <2>3. CASE i \notin DOMAIN a /\ j \in DOMAIN a
    <3>1. PICK m \in DOMAIN b : i = Len(a) + m
      BY <1>6, <2>3
    <3>2. a[j].fd = b[m].fd
      BY <1>4, <1>5, <2>3, <3>1
    <3> QED
      BY <2>0, <2>3, <3>2
  <2>4. CASE i \notin DOMAIN a /\ j \notin DOMAIN a
    <3>1. PICK m \in DOMAIN b : i = Len(a) + m
      BY <1>6, <2>4
    <3>2. PICK k \in DOMAIN b : j = Len(a) + k
      BY <1>6, <2>4
    <3>3. b[m].fd = b[k].fd
      BY <1>5, <3>1, <3>2
    <3> QED
      BY <1>8, <3>1, <3>2, <3>3 DEF Once
  <2> QED
    BY <2>1, <2>2, <2>3, <2>4
<1> QED
  BY <1>2, <1>7, <1>8 DEF c

LEMMA NoticedType ==
  ASSUME polled \in Seq(Item), NEW e, waiting[e] \in SUBSET Fds,
         NEW list \in NoticedAll(e)
  PROVE  list \in Seq(Item)
<1> DEFINE new == {f \in waiting[e] : writers[f] = NoWriter}
<1>1. PICK order \in SetToSeqs(new) :
        list = Woken(waiting[e] \ new) \o Added(order)
  BY DEF NoticedAll, Added
<1>2. Added(order) \in Seq(Item)
  <2>1. new \in SUBSET Fds
    OBVIOUS
  <2> HIDE DEF new
  <2> QED
    BY <2>1, AddedItems
<1>3. Woken(waiting[e] \ new) \in Seq(Item)
  BY WokenType
<1> QED
  BY <1>1, <1>2, <1>3, ConcatProperties

(* If those who have a writer are polled and the others are not, then      *)
(* whoever waits for the entry comes to be polled once, for writing, and   *)
(* nothing else changes.                                                   *)
LEMMA NoticedItems ==
  ASSUME polled \in Seq(Item), Once(polled),
         NEW e, waiting[e] \in SUBSET Fds, NEW list \in NoticedAll(e),
         \A f \in waiting[e] :
           writers[f] # NoWriter <=> \E p \in Items(polled) : p.fd = f
  PROVE  /\ list \in Seq(Item)
         /\ Items(list) = {p \in Items(polled) : p.fd \notin waiting[e]}
                 \cup {[fd |-> f, events |-> "out"] : f \in waiting[e]}
         /\ Once(list)
<1> DEFINE new == {f \in waiting[e] : writers[f] = NoWriter}
           old == waiting[e] \ new
<1>1. PICK order \in SetToSeqs(new) : list = Woken(old) \o Added(order)
  BY DEF NoticedAll, Added
<1>2. new \in SUBSET Fds
  OBVIOUS
<1>3. \A f \in old : \E p \in Items(polled) : p.fd = f
  OBVIOUS
<1>4. \A p \in Items(polled) : p.fd \notin new
  OBVIOUS
<1>5. old \cup new = waiting[e] /\ old \cap new = {}
  OBVIOUS
<1> HIDE DEF new, old
<1>6. /\ Added(order) \in Seq(Item)
      /\ Items(Added(order)) = {[fd |-> f, events |-> "out"] : f \in new}
      /\ Once(Added(order))
  BY <1>2, AddedItems
<1>7. /\ Woken(old) \in Seq(Item)
      /\ Items(Woken(old)) = {p \in Items(polled) : p.fd \notin old}
                               \cup {[fd |-> f, events |-> "out"] : f \in old}
      /\ Once(Woken(old))
  BY <1>3, WokenType, WokenItems
<1>8. \A p \in Items(Woken(old)), q \in Items(Added(order)) : p.fd # q.fd
  BY <1>4, <1>5, <1>6, <1>7
<1>9. /\ list \in Seq(Item)
      /\ Items(list) = Items(Woken(old)) \cup Items(Added(order))
      /\ Once(list)
  BY <1>1, <1>6, <1>7, <1>8, JoinedItems
<1>10. {p \in Items(polled) : p.fd \notin old}
         = {p \in Items(polled) : p.fd \notin waiting[e]}
  BY <1>4, <1>5
<1> QED
  BY <1>5, <1>6, <1>7, <1>9, <1>10

-----------------------------------------------------------------------------
(* The round of ready descriptors *)

(* poll() reports numbers that are polled, and no entry twice. *)
LEMMA PollRound ==
  ASSUME polled \in Seq(Item), NEW S \in SUBSET DOMAIN polled, Poll(S)
  PROVE  /\ round' \in Seq(Fds \cup {Listen})
         /\ \A i \in DOMAIN round' :
              round'[i] # Listen => \E p \in Items(polled) : p.fd = round'[i]
         /\ Once(polled) =>
              \A i, j \in DOMAIN round' : round'[i] = round'[j] => i = j
<1> DEFINE n == Cardinality(S)
           T == Fds \cup {Listen}
<1>1. PICK listen \in {<<>>, <<Listen>>}, at \in Ascending(S) :
        round' = listen \o [m \in DOMAIN at |-> polled[at[m]].fd]
  BY DEF Poll
<1>2. /\ DOMAIN polled = 1 .. Len(polled) /\ Len(polled) \in Nat
      /\ \A i \in DOMAIN polled : polled[i] \in Item
  BY LenProperties, ElementOfSeq
<1>3. n \in Nat
  <2>1. IsFiniteSet(DOMAIN polled)
    BY <1>2, FS_Interval
  <2>2. IsFiniteSet(S)
    BY <2>1, FS_Subset
  <2> QED
    BY <2>2, FS_CardinalityType
<1> HIDE DEF n
<1>4. /\ at \in [1 .. n -> S]
      /\ \A i, j \in 1 .. n : i < j => at[i] < at[j]
  BY DEF Ascending, n
<1>5. \A i \in 1 .. n : at[i] \in DOMAIN polled /\ at[i] \in Nat
  BY <1>2, <1>4
<1>6. \A i, j \in 1 .. n : at[i] = at[j] => i = j
  <2> SUFFICES ASSUME NEW i \in 1 .. n, NEW j \in 1 .. n, at[i] = at[j], i # j
               PROVE  FALSE
    OBVIOUS
  <2>1. i < j \/ j < i
    BY <1>3
  <2> QED
    BY <1>4, <1>5, <2>1
<1> DEFINE nums == [m \in DOMAIN at |-> polled[at[m]].fd]
<1>7. /\ DOMAIN nums = 1 .. n
      /\ \A i \in 1 .. n : nums[i] = polled[at[i]].fd /\ nums[i] \in Fds
  BY <1>2, <1>4, <1>5 DEF Item
<1>8. nums \in [1 .. n -> T]
  BY <1>7
<1> HIDE DEF nums
<1>9. nums \in Seq(T) /\ Len(nums) = n
  BY <1>3, <1>8, LenProperties
<1>10. Once(polled) => \A i, j \in 1 .. n : nums[i] = nums[j] => i = j
  BY <1>5, <1>6, <1>7 DEF Once
<1>11. Listen \in T /\ Listen \notin Fds
  BY DEF Listen
<1>12. \A i \in 1 .. n : \E p \in Items(polled) : p.fd = nums[i]
  BY <1>5, <1>7 DEF Items
<1>13. CASE listen = <<>>
  <2>1. round' = nums
    BY <1>1, <1>9, <1>13, ConcatEmptySeq DEF nums
  <2> QED
    BY <1>7, <1>9, <1>10, <1>12, <2>1
<1>14. CASE listen = <<Listen>>
  <2>1. round' = <<Listen>> \o nums
    BY <1>1, <1>14 DEF nums
  <2>2. <<Listen>> \in Seq(T) /\ Len(<<Listen>>) = 1 /\ <<Listen>>[1] = Listen
    BY <1>11
  <2> DEFINE l == <<Listen>>
  <2> HIDE DEF l
  <2>3. /\ l \o nums \in Seq(T)
        /\ Len(l \o nums) = 1 + n
        /\ \A i \in 1 .. 1 + n :
             (l \o nums)[i] = IF i <= 1 THEN l[i] ELSE nums[i - 1]
    <3>1. l \in Seq(T) /\ Len(l) = 1
      BY <2>2 DEF l
    <3>2. /\ l \o nums \in Seq(T)
          /\ Len(l \o nums) = Len(l) + Len(nums)
          /\ \A i \in 1 .. Len(l) + Len(nums) :
               (l \o nums)[i] = IF i <= Len(l) THEN l[i] ELSE nums[i - Len(l)]
      BY <1>9, <3>1, ConcatProperties
    <3> QED
      BY <1>9, <3>1, <3>2
  <2>4. round' = l \o nums /\ l[1] = Listen
    BY <2>1 DEF l
  <2>5. DOMAIN round' = 1 .. 1 + n
    BY <2>3, <2>4, LenProperties
  <2>6. /\ round'[1] = Listen
        /\ \A i \in DOMAIN round' \ {1} :
             i - 1 \in 1 .. n /\ round'[i] = nums[i - 1]
    <3>1. 1 \in DOMAIN round' /\ round'[1] = l[1]
      <4>1. 1 \in 1 .. 1 + n /\ 1 <= 1
        BY <1>3
      <4> QED
        BY <2>3, <2>4, <2>5, <4>1, Zenon
    <3>2. ASSUME NEW i \in DOMAIN round' \ {1}
          PROVE  i - 1 \in 1 .. n /\ round'[i] = nums[i - 1]
      <4>1. i \in 1 .. 1 + n /\ ~(i <= 1) /\ i - 1 \in 1 .. n
        BY <1>3, <2>5
      <4> QED
        BY <2>3, <2>4, <4>1, Zenon
    <3> QED
      BY <2>4, <3>1, <3>2
  <2>7. \A i \in DOMAIN round' \ {1} : round'[i] \in Fds
    BY <1>7, <2>6
  <2>8. \A i \in DOMAIN round' :
          round'[i] # Listen => \E p \in Items(polled) : p.fd = round'[i]
    BY <1>12, <2>6
  <2>9. ASSUME Once(polled), NEW i \in DOMAIN round', NEW j \in DOMAIN round',
               round'[i] = round'[j]
        PROVE  i = j
    <3>1. CASE i = 1 \/ j = 1
      BY <1>11, <2>6, <2>7, <2>9, <3>1
    <3>2. CASE i # 1 /\ j # 1
      <4>1. i - 1 = j - 1
        BY <1>10, <2>6, <2>9, <3>2
      <4> QED
        BY <2>5, <4>1
    <3> QED
      BY <3>1, <3>2
  <2> QED
    BY <2>3, <2>4, <2>8, <2>9
<1> QED
  BY <1>13, <1>14

(* A handler's turn takes its number off the round. *)
LEMMA TurnRound ==
  ASSUME round \in Seq(Fds \cup {Listen}), NEW f, Turn(f)
  PROVE  /\ f \in Fds \cup {Listen}
         /\ round' \in Seq(Fds \cup {Listen})
         /\ \E i \in DOMAIN round : round[i] = f
         /\ (\A i, j \in DOMAIN round : round[i] = round[j] => i = j) =>
              /\ \A i, j \in DOMAIN round' : round'[i] = round'[j] => i = j
              /\ \A i \in DOMAIN round' :
                   round'[i] # f /\ \E j \in DOMAIN round : round[j] = round'[i]
<1> DEFINE T == Fds \cup {Listen}
<1>1. round # <<>> /\ f = Head(round) /\ round' = Tail(round)
  BY DEF Turn
<1>2. DOMAIN round = 1 .. Len(round) /\ Len(round) \in Nat \ {0}
  BY <1>1, LenProperties, EmptySeq
<1>3. /\ round' \in Seq(T)
      /\ Len(round') = Len(round) - 1
      /\ \A i \in 1 .. Len(round') : round'[i] = round[i + 1]
      /\ f \in T
  BY <1>1, HeadTailProperties
<1>4. DOMAIN round' = 1 .. Len(round) - 1
  BY <1>3, LenProperties
<1>5. f = round[1] /\ 1 \in DOMAIN round
  BY <1>1, <1>2
<1>6. \A i \in DOMAIN round' :
        i + 1 \in DOMAIN round \ {1} /\ round'[i] = round[i + 1]
  BY <1>2, <1>3, <1>4
<1>7. ASSUME \A i, j \in DOMAIN round : round[i] = round[j] => i = j
      PROVE  /\ \A i, j \in DOMAIN round' : round'[i] = round'[j] => i = j
             /\ \A i \in DOMAIN round' :
                  round'[i] # f /\ \E j \in DOMAIN round : round[j] = round'[i]
  <2>1. ASSUME NEW i \in DOMAIN round', NEW j \in DOMAIN round',
               round'[i] = round'[j]
        PROVE  i = j
    <3>1. i + 1 = j + 1
      BY <1>6, <1>7, <2>1
    <3> QED
      BY <1>4, <3>1
  <2>2. \A i \in DOMAIN round' : round'[i] # f
    BY <1>5, <1>6, <1>7
  <2> QED
    BY <1>6, <2>1, <2>2
<1> QED
  BY <1>3, <1>5, <1>7
=============================================================================
