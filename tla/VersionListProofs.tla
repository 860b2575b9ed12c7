-------------------------- MODULE VersionListProofs ---------------------------
(***************************************************************************)
(* For any paths, dates and stored version: the list and its cursor are    *)
(* what VersionList promises, and the object implements VersionDraft.      *)
(***************************************************************************)
EXTENDS VersionList, SequenceTheorems, TLAPS

\* The files before the cursor: all of them once it has reached the end.
Passed == IF next \in 1..Len(list) THEN SubSeq(list, 1, next - 1) ELSE list

\* Until the list is walked the cursor is at its front.
CursorInv ==
  /\ stage \in {"loading", "open"} /\ list # <<>> => next = 1
  /\ stage = "waiting" => HasNext

\* A path whose row is still to be read is not listed yet.
UnreadInv ==
  /\ stage # "loading" => unread = NoRows
  /\ \A p \in Paths : unread[p] # NoFile => Positions(list, p) = {}

\* What the loop of InsertNewVersion has written, or the client of a restore
\* has accepted, is what the cursor has passed.
PassedInv ==
  /\ stage \in {"loading", "open"} => tx = <<>> /\ accepted = <<>>
  /\ stage = "loading" => removed = FALSE
  /\ stage = "inserting" => tx = Passed
  /\ stage = "written" => tx = list
  /\ stage \in {"sending", "waiting"} => accepted = Passed
  /\ stage = "restored" => accepted = list

IInv == /\ TypeOK /\ CursorValid /\ PathsUnique
        /\ CursorInv /\ UnreadInv /\ PassedInv

------------------------------------------------------------------------------
(* Lists.                                                                  *)

\* No path is there twice.
Unique(s) == \A i, j \in DOMAIN s : s[i].path = s[j].path => i = j

\* A path that is listed is at one position, so that is the first.
LEMMA PlaceOf ==
  ASSUME NEW s \in Seq(Node), Unique(s), NEW i \in 1..Len(s)
  PROVE  /\ Positions(s, s[i].path) = {i}
         /\ First(s, s[i].path) = i
         /\ EntryAt(s, s[i].path) = EntryOf(s[i])
         /\ RowAt(s, s[i].path) = RowOf(s[i])
<1>1. Positions(s, s[i].path) = {i}
  BY DEF Positions, Unique
<1>2. \E k \in Positions(s, s[i].path) : \A j \in Positions(s, s[i].path) : k <= j
  BY <1>1
<1>3. First(s, s[i].path) \in Positions(s, s[i].path)
  BY <1>2 DEF First
<1>4. Once(Positions(s, s[i].path))
  BY <1>1 DEF Once
<1> QED BY <1>1, <1>3, <1>4 DEF EntryAt, RowAt

LEMMA Listing ==
  ASSUME NEW s \in Seq(Node), Unique(s), NEW p \in Paths
  PROVE  \/ /\ Positions(s, p) = {}
            /\ \A i \in 1..Len(s) : s[i].path # p
            /\ EntryAt(s, p) = NoFile
            /\ RowAt(s, p) = NoFile
         \/ /\ First(s, p) \in 1..Len(s)
            /\ s[First(s, p)].path = p
            /\ Positions(s, p) = {First(s, p)}
            /\ EntryAt(s, p) = EntryOf(s[First(s, p)])
            /\ RowAt(s, p) = RowOf(s[First(s, p)])
            /\ EntryAt(s, p) # NoFile
<1>1. CASE Positions(s, p) = {}
  BY <1>1 DEF Positions, EntryAt, RowAt
<1>2. CASE Positions(s, p) # {}
  <2>1. PICK i \in 1..Len(s) : s[i].path = p
    BY <1>2 DEF Positions
  <2>2. s[i] \in Node
    BY ElementOfSeq
  <2>3. EntryOf(s[i]) \in Entry
    BY <2>2 DEF EntryOf, Entry, Node
  <2>4. EntryOf(s[i]) # NoFile
    BY <2>3, NoEntryAssumption
  <2> QED BY <2>1, <2>4, PlaceOf
<1> QED BY <1>1, <1>2

\* A node that replaces that of its path, or is put at the end.
LEMMA PutProperties ==
  ASSUME NEW s \in Seq(Node), Unique(s), NEW n \in Node
  PROVE  /\ Put(s, n) \in Seq(Node)
         /\ Unique(Put(s, n))
         /\ Put(s, n) # <<>>
         /\ Len(Put(s, n)) >= Len(s)
         /\ Len(Put(s, n)) >= 1
         /\ \A p \in Paths :
              EntryAt(Put(s, n), p) = IF p = n.path THEN EntryOf(n) ELSE EntryAt(s, p)
<1> DEFINE t == Put(s, n)
<1>0. n.path \in Paths
  BY DEF Node
<1>1. CASE Positions(s, n.path) = {}
  <2>1. /\ t \in Seq(Node) /\ t # <<>> /\ Len(t) = Len(s) + 1
        /\ \A i \in 1..Len(s) : t[i] = s[i]
        /\ t[Len(s) + 1] = n
    BY <1>1, AppendProperties DEF Put
  <2>2. \A i \in 1..Len(s) : s[i].path # n.path
    BY <1>1 DEF Positions
  <2> HIDE DEF t
  <2>3. Unique(t)
    BY <2>1, <2>2 DEF Unique
  <2>4. \A p \in Paths : EntryAt(t, p) = IF p = n.path THEN EntryOf(n) ELSE EntryAt(s, p)
    <3> TAKE p \in Paths
    <3>1. CASE p = n.path
      BY <2>1, <2>3, <3>1, PlaceOf
    <3>2. CASE p # n.path /\ Positions(s, p) = {}
      <4>1. \A i \in 1..Len(t) : t[i].path # p
        BY <2>1, <3>2 DEF Positions
      <4>2. Positions(t, p) = {}
        BY <2>1, <4>1 DEF Positions
      <4> QED BY <3>2, <4>2 DEF EntryAt
    <3>3. CASE p # n.path /\ Positions(s, p) # {}
      <4>1. PICK i \in 1..Len(s) : s[i].path = p
        BY <3>3 DEF Positions
      <4>2. i \in 1..Len(t) /\ t[i] = s[i]
        BY <2>1
      <4> QED BY <2>1, <2>3, <3>3, <4>1, <4>2, PlaceOf
    <3> QED BY <3>1, <3>2, <3>3
  <2> QED BY <2>1, <2>3, <2>4 DEF t
<1>2. CASE Positions(s, n.path) # {}
  <2> DEFINE k == First(s, n.path)
  <2>1. k \in 1..Len(s) /\ s[k].path = n.path
    BY <1>0, <1>2, Listing
  <2>2. /\ t \in Seq(Node) /\ Len(t) = Len(s)
        /\ \A j \in 1..Len(s) : t[j] = IF j = k THEN n ELSE s[j]
    BY <1>2, <2>1, ExceptSeq DEF Put
  <2> HIDE DEF t, k
  <2>3. \A j \in 1..Len(s) : t[j].path = s[j].path
    BY <2>1, <2>2
  <2>4. Unique(t)
    BY <2>2, <2>3 DEF Unique
  <2>5. \A p \in Paths : EntryAt(t, p) = IF p = n.path THEN EntryOf(n) ELSE EntryAt(s, p)
    <3> TAKE p \in Paths
    <3>1. CASE p = n.path
      BY <2>1, <2>2, <2>4, <3>1, PlaceOf
    <3>2. CASE p # n.path /\ Positions(s, p) = {}
      <4>1. \A i \in 1..Len(t) : t[i].path # p
        BY <2>2, <2>3, <3>2 DEF Positions
      <4>2. Positions(t, p) = {}
        BY <2>2, <4>1 DEF Positions
      <4> QED BY <3>2, <4>2 DEF EntryAt
    <3>3. CASE p # n.path /\ Positions(s, p) # {}
      <4>1. PICK i \in 1..Len(s) : s[i].path = p
        BY <3>3 DEF Positions
      <4>2. i \in 1..Len(t) /\ t[i] = s[i]
        BY <2>1, <2>2, <3>3, <4>1
      <4> QED BY <2>2, <2>4, <3>3, <4>1, <4>2, PlaceOf
    <3> QED BY <3>1, <3>2, <3>3
  <2>6. t # <<>> /\ Len(t) >= 1
    BY <2>1, <2>2
  <2> QED BY <2>2, <2>4, <2>5, <2>6 DEF t
<1> QED BY <1>1, <1>2

\* Erasing the node at i moves those behind it one place to the front.
LEMMA WithoutProperties ==
  ASSUME NEW S, NEW s \in Seq(S), NEW i \in 1..Len(s)
  PROVE  /\ Without(s, i) \in Seq(S)
         /\ Len(Without(s, i)) = Len(s) - 1
         /\ \A j \in 1..Len(s) - 1 :
              Without(s, i)[j] = IF j < i THEN s[j] ELSE s[j + 1]
<1> DEFINE a == SubSeq(s, 1, i - 1)
           b == SubSeq(s, i + 1, Len(s))
<1>1. \A j \in 1..Len(s) : s[j] \in S
  BY ElementOfSeq
<1>2. a \in Seq(S) /\ Len(a) = i - 1 /\ \A j \in 1..i - 1 : a[j] = s[j]
  BY <1>1, SubSeqProperties
<1>3. /\ b \in Seq(S) /\ Len(b) = Len(s) - i
      /\ \A j \in 1..Len(s) - i : b[j] = s[i + j]
  BY <1>1, SubSeqProperties
<1> HIDE DEF a, b
<1>4. /\ a \o b \in Seq(S)
      /\ Len(a \o b) = Len(a) + Len(b)
      /\ \A j \in 1..Len(a) + Len(b) :
           (a \o b)[j] = IF j <= Len(a) THEN a[j] ELSE b[j - Len(a)]
  BY <1>2, <1>3, ConcatProperties
<1>5. \A j \in 1..Len(s) - 1 : (a \o b)[j] = IF j < i THEN s[j] ELSE s[j + 1]
  <2> TAKE j \in 1..Len(s) - 1
  <2>1. CASE j < i
    BY <1>2, <1>3, <1>4, <2>1
  <2>2. CASE ~ (j < i)
    <3>1. j - (i - 1) \in 1..Len(s) - i /\ i + (j - (i - 1)) = j + 1
      BY <2>2
    <3>2. (a \o b)[j] = b[j - (i - 1)]
      BY <1>2, <1>3, <1>4, <2>2
    <3>3. b[j - (i - 1)] = s[i + (j - (i - 1))]
      BY <1>3, <3>1
    <3> QED BY <2>2, <3>1, <3>2, <3>3
  <2> QED BY <2>1, <2>2
<1>6. Without(s, i) = a \o b
  BY DEF Without, a, b
<1>7. a \o b \in Seq(S) /\ Len(a \o b) = Len(s) - 1
  BY <1>2, <1>3, <1>4
<1> QED BY <1>5, <1>6, <1>7, Zenon

\* updateNext goes to the next file, or to the end after the last.
LEMMA NextOf ==
  ASSUME NEW n \in Nat, NEW k \in 1..n
  PROVE  (k + 1) % (n + 1) = IF k = n THEN 0 ELSE k + 1
<1>1. CASE k = n
  BY <1>1, Z3
<1>2. CASE k # n
  BY <1>2, Z3
<1> QED BY <1>1, <1>2

\* Passing a file appends it to what the cursor has passed.
LEMMA PassedGrows ==
  ASSUME TypeOK, HasNext, updateNext, UNCHANGED list
  PROVE  /\ Passed' = Append(Passed, list[next])
         /\ next' \in 0..Len(list)
<1>1. next \in 1..Len(list) /\ Len(list) \in Nat
  BY DEF TypeOK, HasNext
<1>2. next' = IF next = Len(list) THEN 0 ELSE next + 1
  BY <1>1, NextOf DEF updateNext
<1>3. SubSeq(list, 1, next) = SubSeq(list, 1, next - 1) \o <<list[next]>>
  BY <1>1, SubSeqRecursiveSecond DEF TypeOK
<1>4. /\ SubSeq(list, 1, next - 1) \in Seq(Node)
      /\ list[next] \in Node
  BY <1>1, SubSeqProperties, ElementOfSeq DEF TypeOK
<1>5. SubSeq(list, 1, next) = Append(Passed, list[next])
  BY <1>1, <1>3, <1>4, AppendIsConcat DEF Passed
<1>6. SubSeq(list, 1, Len(list)) = list
  BY SubSeqFull DEF TypeOK
<1>7. CASE next = Len(list)
  BY <1>1, <1>2, <1>5, <1>6, <1>7 DEF Passed
<1>8. CASE next # Len(list)
  BY <1>1, <1>2, <1>5, <1>8 DEF Passed
<1> QED BY <1>7, <1>8
\* Erasing the node at i removes its path and no other.
LEMMA WithoutIsRemoval ==
  ASSUME NEW s \in Seq(Node), Unique(s), NEW i \in 1..Len(s)
  PROVE  /\ Unique(Without(s, i))
         /\ \A p \in Paths :
              EntryAt(Without(s, i), p) = IF p = s[i].path THEN NoFile ELSE EntryAt(s, p)
<1> DEFINE t == Without(s, i)
<1>1. /\ t \in Seq(Node) /\ Len(t) = Len(s) - 1
      /\ \A j \in 1..Len(s) - 1 : t[j] = IF j < i THEN s[j] ELSE s[j + 1]
  BY WithoutProperties
<1> HIDE DEF t
<1>2. \A j \in 1..Len(t) : \E k \in 1..Len(s) \ {i} :
        t[j] = s[k] /\ k = IF j < i THEN j ELSE j + 1
  <2> TAKE j \in 1..Len(t)
  <2> DEFINE k == IF j < i THEN j ELSE j + 1
  <2>1. k \in 1..Len(s) \ {i} /\ j \in 1..Len(s) - 1
    BY <1>1
  <2>2. t[j] = s[k]
    BY <1>1, <2>1
  <2> QED BY <2>1, <2>2
<1>3. Unique(t)
  <2> SUFFICES ASSUME NEW j \in 1..Len(t), NEW k \in 1..Len(t), t[j].path = t[k].path
               PROVE  j = k
    BY <1>1 DEF Unique
  <2>1. PICK a \in 1..Len(s) \ {i} : t[j] = s[a] /\ a = IF j < i THEN j ELSE j + 1
    BY <1>2
  <2>2. PICK b \in 1..Len(s) \ {i} : t[k] = s[b] /\ b = IF k < i THEN k ELSE k + 1
    BY <1>2
  <2>3. a = b
    BY <2>1, <2>2 DEF Unique
  <2> QED BY <2>1, <2>2, <2>3
<1>4. ASSUME NEW p \in Paths
      PROVE  EntryAt(t, p) = IF p = s[i].path THEN NoFile ELSE EntryAt(s, p)
  <2>1. CASE p = s[i].path
    <3>1. \A j \in 1..Len(t) : t[j].path # p
      BY <1>2, <2>1 DEF Unique
    <3>2. Positions(t, p) = {}
      BY <1>1, <3>1 DEF Positions
    <3> QED BY <2>1, <3>2 DEF EntryAt
  <2>2. CASE p # s[i].path /\ Positions(s, p) = {}
    <3>1. \A j \in 1..Len(t) : t[j].path # p
      BY <1>2, <2>2 DEF Positions
    <3>2. Positions(t, p) = {}
      BY <1>1, <3>1 DEF Positions
    <3> QED BY <2>2, <3>2 DEF EntryAt
  <2>3. CASE p # s[i].path /\ Positions(s, p) # {}
    <3>1. PICK k \in 1..Len(s) : s[k].path = p
      BY <2>3 DEF Positions
    <3>2. PICK j \in 1..Len(t) : t[j] = s[k]
      <4>1. k # i
        BY <2>3, <3>1
      <4>2. CASE k < i
        BY <1>1, <4>2
      <4>3. CASE k > i
        <5>1. k - 1 \in 1..Len(s) - 1 /\ ~ (k - 1 < i) /\ (k - 1) + 1 = k
          BY <4>3
        <5> QED BY <1>1, <5>1
      <4> QED BY <4>1, <4>2, <4>3
    <3> QED BY <1>1, <1>3, <2>3, <3>1, <3>2, PlaceOf
  <2> QED BY <2>1, <2>2, <2>3
<1> QED BY <1>3, <1>4 DEF t

\* Moving every file to the next version moves it in the set of files.
Moved(s, v) == [i \in DOMAIN s |-> [s[i] EXCEPT !.ver = v]]

LEMMA MovedProperties ==
  ASSUME NEW s \in Seq(Node), Unique(s), NEW v \in Nat
  PROVE  /\ Moved(s, v) \in Seq(Node)
         /\ Len(Moved(s, v)) = Len(s)
         /\ Unique(Moved(s, v))
         /\ \A p \in Paths :
              EntryAt(Moved(s, v), p) =
                IF EntryAt(s, p) = NoFile THEN NoFile
                ELSE [EntryAt(s, p) EXCEPT !.ver = v]
<1> DEFINE t == Moved(s, v)
           n == Len(s)
<1>1. n \in Nat /\ DOMAIN s = 1..n
  OBVIOUS
<1>2. \A i \in 1..n : s[i] \in Node
  BY ElementOfSeq
<1>3. ASSUME NEW m \in Node
      PROVE  /\ [m EXCEPT !.ver = v] \in Node
             /\ [m EXCEPT !.ver = v].path = m.path
             /\ EntryOf([m EXCEPT !.ver = v]) = [EntryOf(m) EXCEPT !.ver = v]
  BY DEF EntryOf, Node
<1>4. t \in [1..n -> Node]
  BY <1>1, <1>2, <1>3 DEF Moved
<1>5. t \in Seq(Node)
  BY <1>1, <1>4, SeqDef
<1>6. Len(t) = n /\ DOMAIN t = 1..n /\ \A i \in 1..n : t[i] = [s[i] EXCEPT !.ver = v]
  BY <1>1, <1>4, <1>5 DEF Moved
<1> HIDE DEF t
<1>7. \A i \in 1..n : t[i].path = s[i].path /\ EntryOf(t[i]) = [EntryOf(s[i]) EXCEPT !.ver = v]
  BY <1>2, <1>3, <1>6
<1>8. Unique(t)
  BY <1>1, <1>6, <1>7 DEF Unique
<1>9. ASSUME NEW p \in Paths
      PROVE  EntryAt(t, p) = IF EntryAt(s, p) = NoFile THEN NoFile
                             ELSE [EntryAt(s, p) EXCEPT !.ver = v]
  <2>1. CASE Positions(s, p) = {}
    <3>1. Positions(t, p) = {}
      BY <1>1, <1>6, <1>7, <2>1 DEF Positions
    <3> QED BY <2>1, <3>1 DEF EntryAt
  <2>2. CASE Positions(s, p) # {}
    <3>1. PICK i \in 1..n : s[i].path = p
      BY <2>2 DEF Positions
    <3>2. EntryAt(s, p) = EntryOf(s[i]) /\ EntryAt(t, p) = EntryOf(t[i])
      BY <1>5, <1>6, <1>7, <1>8, <3>1, PlaceOf
    <3>3. EntryAt(s, p) # NoFile
      BY <2>2, Listing
    <3> QED BY <1>7, <3>2, <3>3
  <2> QED BY <2>1, <2>2
<1> QED BY <1>5, <1>6, <1>8, <1>9 DEF t

------------------------------------------------------------------------------
(* The invariant, action by action.                                        *)

LEMMA Lists ==
  ASSUME TypeOK
  PROVE  /\ Len(list) \in Nat
         /\ list = <<>> <=> Len(list) = 0
         /\ PathsUnique <=> Unique(list)
BY DEF TypeOK, PathsUnique, Unique

LEMMA InitIInv == Init => IInv
<1> SUFFICES ASSUME Init PROVE IInv
  OBVIOUS
<1>1. unread \in Rows
  BY BaseAssumption DEF Init, Stored, Rows, Row
<1>2. TypeOK
  <2>1. id \in Nat
    BY BaseAssumption DEF Init, NO_VERSION
  <2>2. <<>> \in Seq(Node)
    BY EmptySeq
  <2> QED BY <1>1, <2>1, <2>2 DEF Init, TypeOK, Stages
<1>3. \A p : Positions(list, p) = {}
  BY DEF Init, Positions
<1> QED
  BY <1>2, <1>3 DEF Init, IInv, CursorValid, PathsUnique, CursorInv, UnreadInv, PassedInv

\* A file that is added while the cursor is at the front leaves it there.
LEMMA AddFileStep ==
  ASSUME IInv, stage \in {"loading", "open"}, NEW n \in Node, addFile(n)
  PROVE  /\ list' \in Seq(Node)
         /\ list' # <<>>
         /\ next' = 1
         /\ 1 \in 0..Len(list')
         /\ Unique(list')
         /\ \A p \in Paths :
              EntryAt(list', p) = IF p = n.path THEN EntryOf(n) ELSE EntryAt(list, p)
<1>1. Unique(list) /\ list \in Seq(Node)
  BY Lists DEF IInv, TypeOK
<1>2. next' = 1
  BY DEF addFile, IInv, CursorInv
<1>3. list' = Put(list, n)
  BY DEF addFile
<1>4. /\ list' \in Seq(Node) /\ list' # <<>> /\ Unique(list')
      /\ Len(list') >= 1
      /\ \A p \in Paths :
           EntryAt(list', p) = IF p = n.path THEN EntryOf(n) ELSE EntryAt(list, p)
  BY <1>1, <1>3, PutProperties
<1>5. 1 \in 0..Len(list')
  BY <1>4
<1> QED BY <1>2, <1>4, <1>5

LEMMA ReadRowStep ==
  ASSUME IInv, ReadRow
  PROVE  IInv'
<1> USE DEF IInv
<1>1. PICK p \in Paths :
        /\ unread[p] # NoFile
        /\ addFile([path |-> p, dir |-> unread[p].dir, ver |-> id, date |-> unread[p].date])
        /\ unread' = [unread EXCEPT ![p] = NoFile]
  BY DEF ReadRow, Listed
<1> DEFINE n == [path |-> p, dir |-> unread[p].dir, ver |-> id, date |-> unread[p].date]
<1>2. stage = "loading" /\ UNCHANGED <<kind, id, removed, stage, tx, accepted>>
  BY DEF ReadRow
<1>3. unread[p] \in Row
  BY <1>1 DEF TypeOK, Rows
<1>4. n \in Node
  BY <1>3 DEF Node, Row, TypeOK
<1>5. /\ list' \in Seq(Node) /\ list' # <<>> /\ next' = 1 /\ 1 \in 0..Len(list')
      /\ Unique(list')
      /\ \A q \in Paths :
           EntryAt(list', q) = IF q = p THEN EntryOf(n) ELSE EntryAt(list, q)
  BY <1>1, <1>2, <1>4, AddFileStep
<1>6. unread' \in Rows
  BY <1>1 DEF TypeOK, Rows
<1>7. TypeOK'
  BY <1>2, <1>5, <1>6 DEF TypeOK
<1>8. \A q \in Paths : unread'[q] # NoFile => Positions(list', q) = {}
  <2> TAKE q \in Paths
  <2> HAVE unread'[q] # NoFile
  <2>1. q # p /\ unread[q] # NoFile
    BY <1>1 DEF TypeOK, Rows
  <2>2. Positions(list, q) = {}
    BY <2>1 DEF UnreadInv
  <2>3. EntryAt(list', q) = NoFile
    BY <1>5, <2>1, <2>2 DEF EntryAt
  <2> QED BY <1>5, <2>3, Listing
<1>9. PathsUnique' /\ CursorValid'
  BY <1>5, DanglingAssumption DEF PathsUnique, Unique, CursorValid
<1> QED BY <1>2, <1>5, <1>7, <1>8, <1>9 DEF CursorInv, UnreadInv, PassedInv

LEMMA StartSessionStep ==
  ASSUME IInv, StartSession
  PROVE  IInv'
<1> USE DEF IInv
<1>1. Passed = <<>>
  <2>1. CASE list = <<>>
    BY <2>1, Lists DEF Passed
  <2>2. CASE list # <<>>
    <3>1. next = 1 /\ SubSeq(list, 1, 0) = <<>>
      BY <2>2, SubSeqEmpty DEF StartSession, CursorInv
    <3>2. next \in 1..Len(list) /\ next - 1 = 0
      BY <2>2, <3>1, Lists
    <3> QED BY <3>1, <3>2 DEF Passed
  <2> QED BY <2>1, <2>2
<1>2. Passed' = <<>>
  BY <1>1 DEF Passed, StartSession
<1> QED
  BY <1>2 DEF StartSession, TypeOK, Stages, CursorValid, PathsUnique, Positions,
     CursorInv, UnreadInv, PassedInv

\* A new file of the session's version, put into the list.
LEMMA ChangeList ==
  ASSUME IInv, stage = "open", list' \in Seq(Node), next' \in 0..Len(list') \cup {Dangling},
         removed' \in BOOLEAN,
         list' # <<>> => next' = 1, Unique(list'),
         UNCHANGED <<kind, unread, id, stage, tx, accepted>>
  PROVE  IInv'
<1> USE DEF IInv
<1>1. TypeOK'
  BY DEF TypeOK
<1>2. CursorValid' /\ PathsUnique'
  BY DanglingAssumption DEF CursorValid, PathsUnique, Unique
<1>3. UnreadInv'
  BY DEF UnreadInv, NoRows
<1> QED BY <1>1, <1>2, <1>3 DEF CursorInv, PassedInv

LEMMA NewNodeType ==
  ASSUME TypeOK, NEW p \in Paths, NEW d \in Data
  PROVE  NewNode(p, d) \in Node /\ NewNode(p, d).path = p
BY DEF NewNode, Node, TypeOK

LEMMA AddNewFileStep ==
  ASSUME IInv, AddNewFile
  PROVE  IInv'
<1>1. PICK p \in Paths, d \in Data : addFile(NewNode(p, d))
  BY DEF AddNewFile
<1>2. NewNode(p, d) \in Node
  BY NewNodeType DEF IInv
<1>3. stage = "open" /\ UNCHANGED <<kind, unread, id, removed, stage, tx, accepted>>
  BY DEF AddNewFile
<1> QED BY <1>1, <1>2, <1>3, AddFileStep, ChangeList DEF IInv, TypeOK

LEMMA UpdateListedFileStep ==
  ASSUME IInv, UpdateListedFile
  PROVE  IInv'
<1>1. PICK p \in Paths, d \in Data : updateFile(NewNode(p, d))
  BY DEF UpdateListedFile
<1> DEFINE n == NewNode(p, d)
<1>2. n \in Node
  BY NewNodeType DEF IInv
<1> HIDE DEF n
<1>3. stage = "open" /\ UNCHANGED <<kind, unread, next, id, removed, stage, tx, accepted>>
  BY DEF UpdateListedFile
<1>4. list \in Seq(Node) /\ Unique(list) /\ Len(list) \in Nat
  BY Lists DEF IInv, TypeOK
<1>5. CASE Positions(list, n.path) = {}
  <2>1. list' = list
    BY <1>1, <1>5 DEF updateFile, n
  <2> QED BY <1>3, <1>4, <2>1, ChangeList DEF IInv, TypeOK, CursorInv
<1>6. CASE Positions(list, n.path) # {}
  <2>1. list' = Put(list, n)
    BY <1>1, <1>6 DEF updateFile, n
  <2>2. list' \in Seq(Node) /\ Unique(list') /\ Len(list') >= Len(list)
    BY <1>2, <1>4, <2>1, PutProperties
  <2>3. list # <<>>
    BY <1>6 DEF Positions
  <2>4. next' = 1 /\ 1 \in 0..Len(list')
    BY <1>3, <1>4, <2>2, <2>3, Lists DEF IInv, CursorInv
  <2> QED BY <1>3, <2>2, <2>4, ChangeList DEF IInv, TypeOK
<1> QED BY <1>5, <1>6

\* Erasing a file sets the cursor to the front again, or empties the list.
LEMMA RemoveFileStep ==
  ASSUME IInv, stage = "open", NEW p \in Paths, removeFile(p)
  PROVE  /\ list' \in Seq(Node)
         /\ next' \in 0..Len(list') \cup {Dangling}
         /\ list' # <<>> => next' = 1
         /\ Unique(list')
         /\ removed' = (removed \/ EntryAt(list, p) # NoFile)
         /\ \A q \in Paths :
              EntryAt(list', q) = IF q = p THEN NoFile ELSE EntryAt(list, q)
<1>1. /\ list \in Seq(Node) /\ Unique(list) /\ Len(list) \in Nat
      /\ next \in 0..Len(list) \cup {Dangling} /\ removed \in BOOLEAN
      /\ list # <<>> => next = 1
  BY Lists DEF IInv, TypeOK, CursorInv
<1>2. CASE Positions(list, p) = {}
  BY <1>1, <1>2 DEF removeFile, EntryAt
<1>3. CASE Positions(list, p) # {}
  <2> DEFINE i == First(list, p)
  <2>1. /\ i \in 1..Len(list) /\ list[i].path = p /\ EntryAt(list, p) # NoFile
    BY <1>1, <1>3, Listing
  <2>2. /\ list' = Without(list, i) /\ removed' = TRUE
        /\ next' = IF Len(list) > 1 THEN 1 ELSE Erased(1)
    BY <1>3 DEF removeFile
  <2> HIDE DEF i
  <2>3. /\ list' \in Seq(Node) /\ Unique(list') /\ Len(list') = Len(list) - 1
        /\ \A q \in Paths :
             EntryAt(list', q) = IF q = p THEN NoFile ELSE EntryAt(list, q)
    BY <1>1, <2>1, <2>2, WithoutProperties, WithoutIsRemoval
  <2>4. CASE Len(list) > 1
    <3>1. next' = 1 /\ 1 \in 0..Len(list')
      BY <1>1, <2>2, <2>3, <2>4
    <3> QED BY <2>1, <2>2, <2>3, <3>1
  <2>5. CASE ~ (Len(list) > 1)
    <3>1. Len(list) = 1 /\ list # <<>> /\ Len(list') = 0
      BY <1>1, <2>1, <2>3, <2>5
    <3>2. next' = Dangling /\ list' = <<>>
      BY <1>1, <2>2, <2>3, <2>5, <3>1 DEF Erased
    <3> QED BY <2>1, <2>2, <2>3, <3>2
  <2> QED BY <2>4, <2>5
<1> QED BY <1>2, <1>3

LEMMA RemoveListedFileStep ==
  ASSUME IInv, RemoveListedFile
  PROVE  IInv'
<1>1. PICK p \in Paths : removeFile(p)
  BY DEF RemoveListedFile
<1>2. stage = "open" /\ UNCHANGED <<kind, unread, id, stage, tx, accepted>>
  BY DEF RemoveListedFile
<1>3. removed' \in BOOLEAN
  BY <1>1, <1>2, RemoveFileStep DEF IInv, TypeOK
<1> QED BY <1>1, <1>2, <1>3, RemoveFileStep, ChangeList

LEMMA StopUpdateStep ==
  ASSUME IInv, StopUpdate
  PROVE  IInv'
<1> USE DEF IInv
<1>1. stage = "open" /\ UNCHANGED <<kind, unread, next, removed, tx, accepted>>
  BY DEF StopUpdate
<1>2. CASE isValid /\ terminateWithSuccess /\ stage' = "inserting"
  <2>1. id' \in Nat /\ list' = Moved(list, id')
    BY <1>2 DEF terminateWithSuccess, Moved, TypeOK
  <2>2. /\ list' \in Seq(Node) /\ Len(list') = Len(list) /\ Unique(list')
    BY <2>1, MovedProperties, Lists DEF TypeOK
  <2>3. TypeOK'
    BY <1>1, <1>2, <2>1, <2>2 DEF TypeOK, Stages
  <2>4. list # <<>> /\ next = 1 /\ Len(list) >= 1 /\ Len(list) \in Nat
    BY <1>1, <1>2, Lists DEF isValid, CursorInv
  <2>5. next' = 1 /\ next' \in 1..Len(list') /\ SubSeq(list', 1, 0) = <<>>
    BY <1>1, <2>2, <2>4, SubSeqEmpty
  <2>6. Passed' = <<>>
    BY <2>5 DEF Passed
  <2>7. CursorValid' /\ PathsUnique'
    BY <2>2, <2>5, DanglingAssumption DEF CursorValid, PathsUnique, Unique
  <2>8. UnreadInv'
    BY <1>1 DEF UnreadInv, NoRows
  <2> QED BY <1>1, <1>2, <2>3, <2>6, <2>7, <2>8 DEF CursorInv, PassedInv
<1>3. CASE stage' = "refused" /\ UNCHANGED <<id, list>>
  BY <1>1, <1>3 DEF TypeOK, Stages, CursorValid, PathsUnique, Positions,
     CursorInv, UnreadInv, PassedInv, NoRows
<1> QED BY <1>2, <1>3 DEF StopUpdate

LEMMA HasNextNode ==
  ASSUME TypeOK, HasNext
  PROVE  list[next] \in Node
BY ElementOfSeq DEF TypeOK, HasNext

LEMMA InsertFileStep ==
  ASSUME IInv, InsertFile
  PROVE  IInv'
<1> USE DEF IInv
<1>1. /\ stage = "inserting" /\ HasNext /\ tx' = Append(tx, list[next]) /\ updateNext
      /\ UNCHANGED <<kind, unread, list, id, removed, stage, accepted>>
  BY DEF InsertFile
<1>2. Passed' = tx' /\ next' \in 0..Len(list)
  BY <1>1, PassedGrows DEF PassedInv
<1>3. tx' \in Seq(Node)
  BY <1>1, HasNextNode, AppendProperties DEF TypeOK
<1>4. TypeOK'
  BY <1>1, <1>2, <1>3 DEF TypeOK
<1>5. CursorValid' /\ PathsUnique'
  BY <1>1, <1>2, DanglingAssumption, Lists DEF CursorValid, PathsUnique
<1>6. UnreadInv'
  BY <1>1 DEF UnreadInv, Positions, NoRows
<1> QED BY <1>1, <1>2, <1>4, <1>5, <1>6 DEF CursorInv, PassedInv

\* At its end the cursor has passed every file.
LEMMA PassedAll ==
  ASSUME TypeOK, AtEnd
  PROVE  Passed = list
<1>1. ~ (next \in 1..Len(list))
  BY Lists DEF AtEnd
<1> QED BY <1>1 DEF Passed

LEMMA CommitFilesStep ==
  ASSUME IInv, CommitFiles
  PROVE  IInv'
BY PassedAll DEF IInv, CommitFiles, TypeOK, Stages, CursorValid, PathsUnique, Positions,
   CursorInv, UnreadInv, PassedInv, NoRows

LEMMA SendNextFileStep ==
  ASSUME IInv, SendNextFile
  PROVE  IInv'
<1> USE DEF IInv
<1>1. stage = "sending" /\ UNCHANGED <<kind, unread, list, next, id, removed, tx, accepted>>
  BY DEF SendNextFile
<1>2. CASE HasNext /\ stage' = "waiting"
  BY <1>1, <1>2 DEF HasNext, Passed, TypeOK, Stages, CursorValid, PathsUnique, Positions,
     CursorInv, UnreadInv, PassedInv, NoRows
<1>3. CASE AtEnd /\ stage' = "restored"
  BY <1>1, <1>3, PassedAll DEF TypeOK, Stages, CursorValid, PathsUnique, Positions,
     CursorInv, UnreadInv, PassedInv, NoRows
<1> QED BY <1>2, <1>3 DEF SendNextFile

LEMMA RestoreFileAckStep ==
  ASSUME IInv, RestoreFileAck
  PROVE  IInv'
<1> USE DEF IInv
<1>1. /\ stage = "waiting" /\ stage' = "sending"
      /\ UNCHANGED <<kind, unread, list, id, removed, tx>>
  BY DEF RestoreFileAck
<1>2. CASE updateNext /\ accepted' = Append(accepted, list[next])
  <2>1. HasNext
    BY <1>1 DEF CursorInv
  <2>2. Passed' = accepted' /\ next' \in 0..Len(list)
    BY <1>1, <1>2, <2>1, PassedGrows DEF PassedInv
  <2>3. accepted' \in Seq(Node)
    BY <1>2, <2>1, HasNextNode, AppendProperties DEF TypeOK
  <2>4. TypeOK'
    BY <1>1, <2>2, <2>3 DEF TypeOK, Stages
  <2>5. CursorValid' /\ PathsUnique'
    BY <1>1, <2>2, DanglingAssumption, Lists DEF CursorValid, PathsUnique
  <2>6. UnreadInv'
    BY <1>1 DEF UnreadInv, Positions, NoRows
  <2> QED BY <1>1, <2>2, <2>4, <2>5, <2>6 DEF CursorInv, PassedInv
<1>3. CASE UNCHANGED <<next, accepted>>
  BY <1>1, <1>3 DEF Passed, TypeOK, Stages, CursorValid, PathsUnique, Positions,
     CursorInv, UnreadInv, PassedInv, NoRows
<1> QED BY <1>2, <1>3 DEF RestoreFileAck

\* The inductive invariant of the object.
THEOREM Inductive == Spec => []IInv
<1>1. IInv /\ [Next]_vars => IInv'
  <2> SUFFICES ASSUME IInv, [Next]_vars PROVE IInv'
    OBVIOUS
  <2>1. CASE UNCHANGED vars
    BY <2>1 DEF vars, IInv, TypeOK, CursorValid, PathsUnique, CursorInv, UnreadInv,
       PassedInv, Passed, Positions, HasNext
  <2> QED
    BY <2>1, ReadRowStep, StartSessionStep, AddNewFileStep, UpdateListedFileStep,
       RemoveListedFileStep, StopUpdateStep, InsertFileStep, CommitFilesStep,
       SendNextFileStep, RestoreFileAckStep DEF Next
<1> QED BY <1>1, InitIInv, PTL DEF Spec

\* Every variable keeps its type, the cursor among them: it is a position of
\* the list or its end, whatever is added, erased and walked.
THEOREM TypeCorrect == Spec => []TypeOK
BY Inductive, PTL DEF IInv

\* getNextFile and updateNext never follow an iterator whose node is gone.
THEOREM CursorStaysValid == Spec => []CursorValid
BY Inductive, PTL DEF IInv

\* Rows in any order and requests of any number list a path once.
THEOREM NoPathTwice == Spec => []PathsUnique
BY Inductive, PTL DEF IInv

\* A restore that ends has sent every file once, however often one was refused.
THEOREM RestoresAreComplete == Spec => []RestoreComplete
<1>1. IInv => RestoreComplete
  BY DEF IInv, PassedInv, RestoreComplete
<1> QED BY <1>1, Inductive, PTL

------------------------------------------------------------------------------
(* The object implements VersionDraft.                                     *)

\* VersionDraft's operators on versions are those of Version.
LEMMA SameOperators ==
  ASSUME NEW v
  PROVE  /\ \A p, f : Abstract!AddFile(v, p, f) = AddFile(v, p, f)
         /\ \A p, f : Abstract!UpdateFile(v, p, f) = UpdateFile(v, p, f)
         /\ \A p : Abstract!RemoveFile(v, p) = RemoveFile(v, p)
         /\ \A b, d : Abstract!NewFile(b, d) = NewFile(b, d)
         /\ Abstract!IsValid(v) = IsValid(v)
         /\ Abstract!TerminateWithSuccess(v) = TerminateWithSuccess(v)
         /\ Abstract!RowsOf(v) = RowsOf(v)
BY DEF Abstract!AddFile, AddFile, Abstract!UpdateFile, UpdateFile, Abstract!RemoveFile,
   RemoveFile, Abstract!NewFile, NewFile, Abstract!IsValid, IsValid,
   Abstract!TerminateWithSuccess, TerminateWithSuccess, Abstract!RowsOf, RowsOf,
   Abstract!Listed, Listed

\* Once the rows are read, the draft is the list.
LEMMA DraftOfList ==
  ASSUME IInv, unread = NoRows
  PROVE  /\ Draft = [id |-> id, removed |-> removed,
                     files |-> [p \in Paths |-> EntryAt(list, p)]]
         /\ \A p \in Paths : Draft.files[p] = EntryAt(list, p)
         /\ Listed(Draft) = {p \in Paths : EntryAt(list, p) # NoFile}
BY DEF Draft, NoRows, Listed

\* Rows are seen when they are committed.
LEMMA NoDraftRows ==
  ASSUME stage # "written"
  PROVE  DraftRows = NoRows
BY DEF DraftRows, NoRows

LEMMA RowsUnchanged ==
  ASSUME stage # "written", stage' # "written"
  PROVE  UNCHANGED DraftRows
BY DEF DraftRows

LEMMA InitDraft == Init => Abstract!Init
<1> SUFFICES ASSUME Init PROVE Abstract!Init
  OBVIOUS
<1>1. \A p \in Paths : EntryAt(list, p) = NoFile
  BY DEF Init, EntryAt, Positions
<1>2. CASE unread = NoRows
  <2>1. Draft = NewVersion(NO_VERSION)
    BY <1>1, <1>2 DEF Draft, NewVersion, Init, NoRows
  <2> QED BY <2>1 DEF Abstract!Init, Abstract!NoRows, Init, DraftStage, DraftRows
<1>3. CASE unread # NoRows
  <2>1. Draft = LoadVersion(BaseVersion, unread)
    BY <1>1, <1>3 DEF Draft, LoadVersion, Init, UnreadEntry
  <2>2. unread \in Stored \ {NoRows}
    BY <1>3 DEF Init
  <2> QED BY <2>1, <2>2 DEF Abstract!Init, Abstract!NoRows, Init, DraftStage, DraftRows
<1> QED BY <1>2, <1>3

LEMMA ReadRowDraft ==
  ASSUME IInv, ReadRow
  PROVE  UNCHANGED Abstract!vars
<1>1. PICK p \in Paths :
        /\ unread[p] # NoFile
        /\ addFile([path |-> p, dir |-> unread[p].dir, ver |-> id, date |-> unread[p].date])
        /\ unread' = [unread EXCEPT ![p] = NoFile]
  BY DEF ReadRow, Listed
<1> DEFINE n == [path |-> p, dir |-> unread[p].dir, ver |-> id, date |-> unread[p].date]
<1>2. stage = "loading" /\ UNCHANGED <<kind, id, removed, stage, tx, accepted>>
  BY DEF ReadRow
<1>3. unread[p] \in Row
  BY <1>1 DEF IInv, TypeOK, Rows
<1>4. n \in Node
  BY <1>3 DEF Node, Row, IInv, TypeOK
<1>5. \A q \in Paths : EntryAt(list', q) = IF q = p THEN EntryOf(n) ELSE EntryAt(list, q)
  BY <1>1, <1>2, <1>4, AddFileStep
<1>6. EntryOf(n) = UnreadEntry(p)
  BY DEF EntryOf, UnreadEntry
<1>7. unread'[p] = NoFile /\ \A q \in Paths \ {p} : unread'[q] = unread[q]
  BY <1>1 DEF IInv, TypeOK, Rows
<1> HIDE DEF n
<1>8. \A q \in Paths : (IF unread'[q] # NoFile THEN UnreadEntry(q)' ELSE EntryAt(list', q))
                       = IF unread[q] # NoFile THEN UnreadEntry(q) ELSE EntryAt(list, q)
  BY <1>1, <1>2, <1>5, <1>6, <1>7 DEF UnreadEntry
<1>9. Draft' = Draft
  BY <1>2, <1>8 DEF Draft
<1> QED BY <1>2, <1>9, RowsUnchanged DEF Abstract!vars, DraftStage

\* The entry of a new node is the new file of the draft.
LEMMA NewEntry ==
  ASSUME NEW p \in Paths, NEW d \in Data
  PROVE  EntryOf(NewNode(p, d)) = NewFile(Draft.id, d)
BY DEF EntryOf, NewNode, NewFile, Draft

LEMMA AddNewFileDraft ==
  ASSUME IInv, AddNewFile
  PROVE  Abstract!Change
<1>1. PICK p \in Paths, d \in Data : addFile(NewNode(p, d))
  BY DEF AddNewFile
<1>2. stage = "open" /\ UNCHANGED <<kind, unread, id, removed, stage, tx, accepted>>
  BY DEF AddNewFile
<1>3. NewNode(p, d) \in Node /\ NewNode(p, d).path = p
  BY NewNodeType DEF IInv
<1>4. \A q \in Paths : EntryAt(list', q) =
        IF q = p THEN NewFile(Draft.id, d) ELSE EntryAt(list, q)
  BY <1>1, <1>2, <1>3, AddFileStep, NewEntry
<1>5. unread = NoRows /\ unread' = NoRows
  BY <1>2 DEF IInv, UnreadInv
<1>6. Draft' = AddFile(Draft, p, NewFile(Draft.id, d))
  <2>1. Draft' = [id |-> id, removed |-> removed,
                  files |-> [q \in Paths |-> EntryAt(list', q)]]
    BY <1>2, <1>5 DEF Draft, NoRows
  <2>2. Draft = [id |-> id, removed |-> removed,
                 files |-> [q \in Paths |-> EntryAt(list, q)]]
    BY <1>5, DraftOfList
  <2> QED BY <1>4, <2>1, <2>2 DEF AddFile
<1>7. DraftStage = "open" /\ DraftStage' = DraftStage
  BY <1>2 DEF DraftStage
<1> QED BY <1>2, <1>6, <1>7, RowsUnchanged, SameOperators DEF Abstract!Change

\* A change of the draft, given as a change of the list.
LEMMA DraftChange ==
  ASSUME IInv, stage = "open", UNCHANGED <<unread, id, stage>>
  PROVE  /\ Draft = [id |-> id, removed |-> removed,
                     files |-> [q \in Paths |-> EntryAt(list, q)]]
         /\ Draft' = [id |-> id, removed |-> removed',
                      files |-> [q \in Paths |-> EntryAt(list', q)]]
         /\ Listed(Draft) = {q \in Paths : EntryAt(list, q) # NoFile}
         /\ DraftStage = "open"
         /\ UNCHANGED <<DraftStage, DraftRows>>
<1>1. unread = NoRows /\ unread' = NoRows
  BY DEF IInv, UnreadInv
<1>2. UNCHANGED DraftRows
  BY RowsUnchanged
<1> QED BY <1>1, <1>2, DraftOfList DEF Draft, DraftStage, NoRows

LEMMA UpdateListedFileDraft ==
  ASSUME IInv, UpdateListedFile
  PROVE  Abstract!Change
<1>1. PICK p \in Paths, d \in Data : updateFile(NewNode(p, d))
  BY DEF UpdateListedFile
<1>2. stage = "open" /\ UNCHANGED <<kind, unread, next, id, removed, stage, tx, accepted>>
  BY DEF UpdateListedFile
<1>3. NewNode(p, d) \in Node /\ NewNode(p, d).path = p
  BY NewNodeType DEF IInv
<1>4. Unique(list) /\ list \in Seq(Node)
  BY Lists DEF IInv, TypeOK
<1>5. \A q \in Paths : EntryAt(list', q) =
        IF q = p /\ EntryAt(list, p) # NoFile THEN NewFile(Draft.id, d) ELSE EntryAt(list, q)
  <2>1. CASE Positions(list, p) = {}
    BY <1>1, <1>3, <2>1 DEF updateFile, EntryAt
  <2>2. CASE Positions(list, p) # {}
    <3>1. EntryAt(list, p) # NoFile
      BY <1>4, <2>2, Listing
    <3>2. list' = Put(list, NewNode(p, d))
      BY <1>1, <1>3, <2>2 DEF updateFile
    <3>3. EntryOf(NewNode(p, d)) = NewFile(Draft.id, d)
      BY NewEntry
    <3>4. \A q \in Paths : EntryAt(list', q) =
            IF q = p THEN EntryOf(NewNode(p, d)) ELSE EntryAt(list, q)
      BY <1>3, <1>4, <3>2, PutProperties
    <3> QED BY <3>1, <3>3, <3>4
  <2> QED BY <2>1, <2>2
<1>6. Draft' = UpdateFile(Draft, p, NewFile(Draft.id, d))
  BY <1>2, <1>5, DraftChange DEF UpdateFile, AddFile
<1> QED BY <1>2, <1>6, DraftChange, SameOperators DEF Abstract!Change

LEMMA RemoveListedFileDraft ==
  ASSUME IInv, RemoveListedFile
  PROVE  Abstract!Change
<1>1. PICK p \in Paths : removeFile(p)
  BY DEF RemoveListedFile
<1>2. stage = "open" /\ UNCHANGED <<kind, unread, id, stage, tx, accepted>>
  BY DEF RemoveListedFile
<1>3. /\ removed' = (removed \/ EntryAt(list, p) # NoFile)
      /\ \A q \in Paths : EntryAt(list', q) = IF q = p THEN NoFile ELSE EntryAt(list, q)
  BY <1>1, <1>2, RemoveFileStep
<1>4. Draft' = RemoveFile(Draft, p)
  <2>1. CASE EntryAt(list, p) # NoFile
    <3>1. removed' = TRUE
      BY <1>3, <2>1
    <3>2. p \in Listed(Draft)
      BY <1>2, <2>1, DraftChange
    <3> DEFINE files == [q \in Paths |-> EntryAt(list, q)]
    <3>3. Draft = [id |-> id, removed |-> removed, files |-> files]
      BY <1>2, DraftChange
    <3>4. [q \in Paths |-> EntryAt(list', q)] = [files EXCEPT ![p] = NoFile]
      BY <1>3
    <3>5. Draft' = [id |-> id, removed |-> TRUE, files |-> [files EXCEPT ![p] = NoFile]]
      BY <1>2, <3>1, <3>4, DraftChange
    <3> HIDE DEF files
    <3> QED BY <3>2, <3>3, <3>5 DEF RemoveFile
  <2>2. CASE EntryAt(list, p) = NoFile
    <3>1. removed' = removed
      BY <1>3, <2>2 DEF IInv, TypeOK
    <3> QED BY <1>2, <1>3, <2>2, <3>1, DraftChange DEF RemoveFile
  <2> QED BY <2>1, <2>2
<1> QED BY <1>2, <1>4, DraftChange, SameOperators DEF Abstract!Change

\* The list and the draft are worth committing at the same time.
LEMMA ValidDraft ==
  ASSUME IInv, stage = "open"
  PROVE  isValid <=> IsValid(Draft)
<1>1. /\ list \in Seq(Node) /\ Unique(list) /\ unread = NoRows
      /\ Len(list) \in Nat /\ (list = <<>> <=> Len(list) = 0)
  BY Lists DEF IInv, TypeOK, UnreadInv
<1>2. /\ Draft.id = id /\ Draft.removed = removed
      /\ \A p \in Paths : Draft.files[p] = EntryAt(list, p)
      /\ Listed(Draft) = {p \in Paths : EntryAt(list, p) # NoFile}
  BY <1>1, DraftOfList
<1>3. ASSUME NEW i \in 1..Len(list)
      PROVE  /\ list[i].path \in Listed(Draft)
             /\ Draft.files[list[i].path].ver = list[i].ver
  <2>1. list[i] \in Node
    BY <1>1, ElementOfSeq
  <2>2. EntryAt(list, list[i].path) = EntryOf(list[i])
    BY <1>1, PlaceOf
  <2>3. EntryOf(list[i]) \in Entry /\ EntryOf(list[i]).ver = list[i].ver
    BY <2>1 DEF EntryOf, Entry, Node
  <2>4. list[i].path \in Paths
    BY <2>1 DEF Node
  <2> QED BY <1>2, <2>2, <2>3, <2>4, NoEntryAssumption
<1>4. ASSUME NEW p \in Listed(Draft)
      PROVE  \E i \in 1..Len(list) : list[i].path = p
  BY <1>1, <1>2, Listing
<1>5. list # <<>> <=> Listed(Draft) # {}
  BY <1>1, <1>3, <1>4
<1>6. (\E i \in DOMAIN list : list[i].ver > id)
        <=> \E p \in Listed(Draft) : Draft.files[p].ver > Draft.id
  <2>1. DOMAIN list = 1..Len(list)
    BY <1>1
  <2> QED BY <1>2, <1>3, <1>4, <2>1
<1> QED BY <1>2, <1>5, <1>6 DEF isValid, IsValid

LEMMA StopUpdateDraft ==
  ASSUME IInv, StopUpdate
  PROVE  Abstract!Refuse \/ Abstract!Close
<1>1. stage = "open" /\ UNCHANGED <<kind, unread, next, removed, tx, accepted>>
  BY DEF StopUpdate
<1>2. unread = NoRows /\ unread' = NoRows /\ list \in Seq(Node) /\ Unique(list) /\ id \in Nat
  BY <1>1, Lists DEF IInv, TypeOK, UnreadInv
<1>3. DraftStage = "open"
  BY <1>1 DEF DraftStage
<1>4. Draft = [id |-> id, removed |-> removed,
               files |-> [q \in Paths |-> EntryAt(list, q)]]
  BY <1>2, DraftOfList
<1>5. CASE isValid /\ terminateWithSuccess /\ stage' = "inserting"
  <2>1. id' = id + 1 /\ list' = Moved(list, id + 1)
    BY <1>5 DEF terminateWithSuccess, Moved
  <2>2. \A p \in Paths : EntryAt(list', p) =
          IF EntryAt(list, p) = NoFile THEN NoFile ELSE [EntryAt(list, p) EXCEPT !.ver = id + 1]
    BY <1>2, <2>1, MovedProperties
  <2>3. Draft' = [id |-> id + 1, removed |-> removed,
                  files |-> [q \in Paths |-> EntryAt(list', q)]]
    BY <1>1, <1>2, <2>1 DEF Draft, NoRows
  <2>4. Draft' = TerminateWithSuccess(Draft)
    BY <1>4, <2>2, <2>3 DEF TerminateWithSuccess, Listed
  <2>5. DraftStage' = "closed" /\ UNCHANGED DraftRows
    BY <1>1, <1>5, RowsUnchanged DEF DraftStage
  <2> QED BY <1>1, <1>3, <1>5, <2>4, <2>5, ValidDraft, SameOperators DEF Abstract!Close
<1>6. CASE ~ isValid /\ stage' = "refused" /\ UNCHANGED <<id, list>>
  <2>1. UNCHANGED Draft
    BY <1>1, <1>6 DEF Draft, UnreadEntry
  <2>2. DraftStage' = "refused" /\ UNCHANGED DraftRows
    BY <1>1, <1>6, RowsUnchanged DEF DraftStage
  <2> QED BY <1>1, <1>3, <1>6, <2>1, <2>2, ValidDraft, SameOperators DEF Abstract!Refuse
<1> QED BY <1>1, <1>5, <1>6 DEF StopUpdate

\* The rows of a list without a path twice are the rows of its set of files.
LEMMA RowsOfDraft ==
  ASSUME IInv, unread = NoRows
  PROVE  [p \in Paths |-> RowAt(list, p)] = RowsOf(Draft)
<1>1. list \in Seq(Node) /\ Unique(list)
  BY Lists DEF IInv, TypeOK
<1>2. ASSUME NEW p \in Paths
      PROVE  RowAt(list, p) = IF EntryAt(list, p) # NoFile
                              THEN [dir |-> EntryAt(list, p).dir, date |-> EntryAt(list, p).date]
                              ELSE NoFile
  BY <1>1, Listing DEF EntryOf, RowOf
<1> QED BY <1>2, DraftOfList DEF RowsOf

LEMMA CommitFilesDraft ==
  ASSUME IInv, CommitFiles
  PROVE  Abstract!Write
<1>1. /\ stage = "inserting" /\ AtEnd /\ stage' = "written"
      /\ UNCHANGED <<kind, unread, list, next, id, removed, tx, accepted>>
  BY DEF CommitFiles
<1>2. tx' = list
  BY <1>1, PassedAll DEF IInv, PassedInv
<1>3. unread = NoRows
  BY <1>1 DEF IInv, UnreadInv
<1>4. DraftRows' = RowsOf(Draft)
  BY <1>1, <1>2, <1>3, RowsOfDraft DEF DraftRows
<1>5. UNCHANGED Draft
  BY <1>1 DEF Draft, UnreadEntry
<1>6. DraftStage = "closed" /\ DraftStage' = "written"
  BY <1>1 DEF DraftStage
<1> QED BY <1>4, <1>5, <1>6, SameOperators DEF Abstract!Write

\* Opening the session, a step of the loop and those of a restore do not show.
LEMMA OtherStepsDraft ==
  ASSUME StartSession \/ InsertFile \/ SendNextFile \/ RestoreFileAck
  PROVE  UNCHANGED Abstract!vars
<1>1. UNCHANGED <<unread, list, id, removed>>
  BY DEF StartSession, InsertFile, SendNextFile, RestoreFileAck
<1>2. stage # "written" /\ stage' # "written" /\ UNCHANGED DraftStage
  BY DEF StartSession, InsertFile, SendNextFile, RestoreFileAck, DraftStage
<1>3. UNCHANGED Draft
  BY <1>1 DEF Draft, UnreadEntry
<1> QED BY <1>2, <1>3, RowsUnchanged DEF Abstract!vars

\* For any paths and stored version, the list with its cursor is a set of files
\* that is changed path by path, and InsertNewVersion writes exactly its rows.
THEOREM RefinesDraft == Spec => ImplementsDraft
<1>1. ASSUME IInv, [Next]_vars
      PROVE  [Abstract!Next]_(Abstract!vars)
  <2>1. CASE UNCHANGED vars
    BY <2>1 DEF vars, Abstract!vars, Draft, UnreadEntry, DraftStage, DraftRows
  <2> QED
    BY <1>1, <2>1, ReadRowDraft, AddNewFileDraft, UpdateListedFileDraft,
       RemoveListedFileDraft, StopUpdateDraft, CommitFilesDraft, OtherStepsDraft
       DEF Next, Abstract!Next
<1> QED BY <1>1, InitDraft, Inductive, PTL DEF Spec, ImplementsDraft, Abstract!Spec

===============================================================================
