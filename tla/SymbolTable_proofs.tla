-------------------------- MODULE SymbolTable_proofs --------------------------
(***************************************************************************)
(* Proofs about SymbolTable, for every set of symbols and values, every    *)
(* number of buckets and every assignment of buckets to keys.              *)
(***************************************************************************)
EXTENDS SymbolTable, Extrema, SequenceTheorems, TLAPS

-----------------------------------------------------------------------------
(***************************************************************************)
(* The inductive invariant says that there is a log of the table: the      *)
(* binders L that are in it, or were before the dump that is on, in the    *)
(* order in which they were entered, and the tables T that there were, T[m]*)
(* with the first m of them.                                               *)
(***************************************************************************)
Buckets == [Bucket -> Seq(Binder)]

Empty == [b \in Bucket |-> <<>>]

\* The table t with one more binder.
With(t, binder) == [t EXCEPT ![hash[binder.key]] = <<binder>> \o @]

TopOf(L, m) == IF m = 0 THEN NULL ELSE L[m].key

Log(L, T) ==
  /\ L \in Seq(Binder)
  /\ T \in [0 .. Len(L) -> Buckets]
  /\ T[0] = Empty
  /\ \A m \in 1 .. Len(L) : T[m] = With(T[m - 1], L[m]) /\ L[m].prevtop = TopOf(L, m - 1)

\* What is entered stays in its bucket, behind what is entered later.
Kept(L, T) ==
  \A m \in 1 .. Len(L) : \A k \in m .. Len(L) :
    \E p \in DOMAIN T[k][hash[L[m].key]] : T[k][hash[L[m].key]][p] = L[m]

\* What can be looked up in a table t.
PlacesIn(t, key) == {p \in DOMAIN t[hash[key]] : t[hash[key]][p].key = key}

VisibleIn(t) ==
  [s \in Symbol |-> IF PlacesIn(t, s) = {} THEN NULL ELSE t[hash[s]][Min(PlacesIn(t, s))].value]

(***************************************************************************)
(* M are the places of the marks in the log, one for each scope that is    *)
(* saved, and what is saved could be looked up before the mark.            *)
(***************************************************************************)
Base == IF Idle THEN saved ELSE Front(saved)

Marks(L, M) ==
  /\ M \in Seq(1 .. Len(L))
  /\ \A a, b \in 1 .. Len(M) : a < b => M[a] < M[b]
  /\ \A m \in 1 .. Len(L) : L[m].key = marksym <=> \E a \in 1 .. Len(M) : M[a] = m

Opened(T, M, base) ==
  /\ Len(base) = Len(M)
  /\ \A a \in 1 .. Len(M) : base[a] = VisibleIn(T[M[a] - 1])

(***************************************************************************)
(* A dump goes down the log, and each of its calls remembers one binder    *)
(* and the bucket without it.                                              *)
(***************************************************************************)
Depth(L) == Len(L) - Len(calls)

Dumping(L, T) ==
  /\ Len(calls) <= Len(L)
  /\ \A c \in 1 .. Len(calls) :
       /\ calls[c].b = L[Len(L) - c + 1]
       /\ calls[c].k = L[Len(L) - c + 1].key
       /\ calls[c].next = T[Len(L) - c][hash[calls[c].k]]
  /\ calls # <<>> => Last(saved) = VisibleIn(T[Len(L)])

Current(L, T) == table = T[Depth(L)] /\ top = TopOf(L, Depth(L))

Modes ==
  /\ closing => calls = <<>> /\ Len(saved) >= 2
  /\ calls # <<>> => Len(saved) >= 1
  /\ showing => calls # <<>>

Logged(L, T, M) ==
  /\ Log(L, T)
  /\ Kept(L, T)
  /\ Marks(L, M)
  /\ Opened(T, M, Base)
  /\ Dumping(L, T)
  /\ Current(L, T)

SInv == TypeOK /\ Modes /\ \E L, T, M : Logged(L, T, M)

-----------------------------------------------------------------------------
\* Linking a binder in front of a bucket moves the others up by one place.
LEMMA Linked ==
  ASSUME NEW S, NEW x \in S, NEW s \in Seq(S)
  PROVE  /\ <<x>> \o s \in Seq(S)
         /\ <<x>> \o s # <<>>
         /\ Len(<<x>> \o s) = Len(s) + 1
         /\ (<<x>> \o s)[1] = x
         /\ \A p \in 1 .. Len(s) : (<<x>> \o s)[p + 1] = s[p]
         /\ Head(<<x>> \o s) = x
         /\ Tail(<<x>> \o s) = s
<1>1. <<x>> \in Seq(S) /\ Len(<<x>>) = 1 /\ <<x>>[1] = x
  OBVIOUS
<1>2. Len(s) \in Nat
  OBVIOUS
<1>3. /\ <<x>> \o s \in Seq(S)
      /\ Len(<<x>> \o s) = 1 + Len(s)
      /\ \A i \in 1 .. 1 + Len(s) : (<<x>> \o s)[i] = IF i <= 1 THEN x ELSE s[i - 1]
  BY <1>1, ConcatProperties
<1>4. (<<x>> \o s)[1] = x
  BY <1>2, <1>3
<1>5. \A p \in 1 .. Len(s) : (<<x>> \o s)[p + 1] = s[p]
  BY <1>2, <1>3
<1>6. <<x>> \o s # <<>>
  BY <1>2, <1>3
<1>7. Head(<<x>> \o s) = x
  BY <1>3, <1>4, <1>6
<1>8. /\ Tail(<<x>> \o s) \in Seq(S)
      /\ Len(Tail(<<x>> \o s)) = Len(s)
      /\ \A i \in 1 .. Len(s) : Tail(<<x>> \o s)[i] = (<<x>> \o s)[i + 1]
  BY <1>2, <1>3, <1>6, HeadTailProperties
<1>9. Tail(<<x>> \o s) = s
  BY <1>5, <1>8, SeqEqual
<1> QED
  BY <1>2, <1>3, <1>4, <1>5, <1>6, <1>7, <1>9

\* One element more, and one less, at the end of a sequence.
LEMMA Lengthened ==
  ASSUME NEW S, NEW s \in Seq(S), NEW x \in S
  PROVE  /\ Append(s, x) \in Seq(S)
         /\ Len(Append(s, x)) = Len(s) + 1
         /\ \A i \in 1 .. Len(s) : Append(s, x)[i] = s[i]
         /\ Append(s, x)[Len(s) + 1] = x
         /\ Last(Append(s, x)) = x
         /\ Front(Append(s, x)) = s
<1>1. Len(s) \in Nat
  OBVIOUS
<1>2. /\ Append(s, x) \in Seq(S)
      /\ Len(Append(s, x)) = Len(s) + 1
      /\ \A i \in 1 .. Len(s) : Append(s, x)[i] = s[i]
      /\ Append(s, x)[Len(s) + 1] = x
  BY AppendProperties
<1>3. \A i \in 1 .. Len(s) : Append(s, x)[i] \in S
  BY <1>2, ElementOfSeq
<1>4. /\ SubSeq(Append(s, x), 1, Len(s)) \in Seq(S)
      /\ Len(SubSeq(Append(s, x), 1, Len(s))) = Len(s)
      /\ \A i \in 1 .. Len(s) : SubSeq(Append(s, x), 1, Len(s))[i] = Append(s, x)[i]
  <2>1. /\ SubSeq(Append(s, x), 1, Len(s)) \in Seq(S)
        /\ Len(SubSeq(Append(s, x), 1, Len(s))) = IF 1 <= Len(s) THEN Len(s) - 1 + 1 ELSE 0
        /\ \A i \in 1 .. Len(s) - 1 + 1 :
             SubSeq(Append(s, x), 1, Len(s))[i] = Append(s, x)[1 + i - 1]
    BY <1>1, <1>3, SubSeqProperties
  <2> QED
    BY <1>1, <2>1
<1>5. SubSeq(Append(s, x), 1, Len(s)) = s
  BY <1>2, <1>4, SeqEqual
<1>6. Front(Append(s, x)) = s
  BY <1>1, <1>2, <1>5 DEF Front
<1> QED
  BY <1>2, <1>6 DEF Last

LEMMA Shortened ==
  ASSUME NEW S, NEW s \in Seq(S), s # <<>>
  PROVE  /\ Len(s) \in Nat \ {0}
         /\ Front(s) \in Seq(S)
         /\ Len(Front(s)) = Len(s) - 1
         /\ \A i \in 1 .. Len(s) - 1 : Front(s)[i] = s[i]
         /\ Last(s) \in S
         /\ s = Append(Front(s), Last(s))
<1>1. PICK r \in Seq(S), x \in S : s = Append(r, x)
  BY SequenceEmptyOrAppend
<1>2. /\ Len(s) = Len(r) + 1
      /\ \A i \in 1 .. Len(r) : s[i] = r[i]
      /\ Last(s) = x
      /\ Front(s) = r
  BY <1>1, Lengthened
<1>3. Len(r) \in Nat
  OBVIOUS
<1>4. Len(s) - 1 = Len(r)
  BY <1>2, <1>3
<1> QED
  BY <1>1, <1>2, <1>3, <1>4

-----------------------------------------------------------------------------
\* A sequence has the type its elements have.
LEMMA Narrowed ==
  ASSUME NEW S, NEW s \in Seq(S), NEW R, \A i \in 1 .. Len(s) : s[i] \in R
  PROVE  s \in Seq(R)
<1>1. Len(s) \in Nat /\ s \in [1 .. Len(s) -> S]
  BY LenProperties
<1>2. s \in [1 .. Len(s) -> R]
  BY <1>1
<1> QED
  BY <1>1, <1>2, SeqDef

LEMMA BinderType ==
  ASSUME NEW binder \in Binder
  PROVE  /\ binder.key \in Key /\ binder.value \in Value \cup {NULL}
         /\ binder.prevtop \in Key \cup {NULL}
  BY DEF Binder

LEMMA EmptyTable == Empty \in Buckets /\ \A b \in Bucket : Empty[b] = <<>>
  BY DEF Empty, Buckets

\* Entering a binder puts it at the head of its bucket.
LEMMA WithBinder ==
  ASSUME hash \in [Key -> Bucket], NEW t \in Buckets, NEW binder \in Binder
  PROVE  /\ With(t, binder) \in Buckets
         /\ With(t, binder)[hash[binder.key]] = <<binder>> \o t[hash[binder.key]]
         /\ \A b \in Bucket \ {hash[binder.key]} : With(t, binder)[b] = t[b]
<1>1. hash[binder.key] \in Bucket
  BY BinderType
<1>2. t[hash[binder.key]] \in Seq(Binder)
  BY <1>1 DEF Buckets
<1>3. <<binder>> \o t[hash[binder.key]] \in Seq(Binder)
  BY <1>2, Linked
<1> QED
  BY <1>1, <1>3 DEF With, Buckets

\* Taking it off again brings the table back.
LEMMA Unlinked ==
  ASSUME hash \in [Key -> Bucket], NEW t \in Buckets, NEW binder \in Binder
  PROVE  /\ With(t, binder)[hash[binder.key]] # <<>>
         /\ Head(With(t, binder)[hash[binder.key]]) = binder
         /\ Tail(With(t, binder)[hash[binder.key]]) = t[hash[binder.key]]
         /\ [With(t, binder) EXCEPT ![hash[binder.key]] = Tail(@)] = t
<1> DEFINE h == hash[binder.key]
<1>1. h \in Bucket
  BY BinderType
<1>2. t[h] \in Seq(Binder)
  BY <1>1 DEF Buckets
<1>3. /\ With(t, binder) \in Buckets
      /\ With(t, binder)[h] = <<binder>> \o t[h]
      /\ \A b \in Bucket \ {h} : With(t, binder)[b] = t[b]
  BY WithBinder
<1>4. /\ With(t, binder)[h] # <<>>
      /\ Head(With(t, binder)[h]) = binder
      /\ Tail(With(t, binder)[h]) = t[h]
  BY <1>2, <1>3, Linked
<1>5. [With(t, binder) EXCEPT ![h] = Tail(@)] = t
  <2> HIDE DEF h
  <2> QED
    BY <1>1, <1>3, <1>4 DEF Buckets
<1> QED
  BY <1>4, <1>5

\* What is seen afterwards: the key entered has its value, every other symbol what it had.
LEMMA EnterSeen ==
  ASSUME hash \in [Key -> Bucket], NEW t \in Buckets, NEW binder \in Binder, NEW s \in Symbol
  PROVE  VisibleIn(With(t, binder))[s] =
           IF s = binder.key THEN binder.value ELSE VisibleIn(t)[s]
<1> DEFINE u == With(t, binder)
           h == hash[binder.key]
<1>1. s \in Key /\ binder.key \in Key /\ hash[s] \in Bucket /\ h \in Bucket
  BY BinderType DEF Key
<1>2. t[h] \in Seq(Binder) /\ t[hash[s]] \in Seq(Binder)
  BY <1>1 DEF Buckets
<1>3. /\ u[h] = <<binder>> \o t[h]
      /\ \A b \in Bucket \ {h} : u[b] = t[b]
  BY WithBinder
<1>4. /\ VisibleIn(u)[s] = IF PlacesIn(u, s) = {} THEN NULL
                            ELSE u[hash[s]][Min(PlacesIn(u, s))].value
      /\ VisibleIn(t)[s] = IF PlacesIn(t, s) = {} THEN NULL
                            ELSE t[hash[s]][Min(PlacesIn(t, s))].value
  BY DEF VisibleIn
<1> HIDE DEF u
<1>5. CASE hash[s] # h
  <2>1. u[hash[s]] = t[hash[s]] /\ s # binder.key
    BY <1>1, <1>3, <1>5
  <2>2. PlacesIn(u, s) = PlacesIn(t, s)
    BY <2>1 DEF PlacesIn
  <2>3. VisibleIn(u)[s] = VisibleIn(t)[s]
    BY <1>4, <2>1, <2>2
  <2> QED
    BY <2>1, <2>3 DEF u
<1>6. CASE hash[s] = h
  <2>1. /\ Len(t[h]) \in Nat
        /\ DOMAIN u[h] = 1 .. Len(t[h]) + 1
        /\ DOMAIN t[h] = 1 .. Len(t[h])
        /\ u[h][1] = binder
        /\ \A p \in 1 .. Len(t[h]) : u[h][p + 1] = t[h][p]
    BY <1>2, <1>3, Linked
  <2>2. PlacesIn(u, s) \subseteq Nat /\ PlacesIn(t, s) \subseteq Nat
    BY <1>6, <2>1 DEF PlacesIn
  <2>3. CASE s = binder.key
    <3>1. 1 \in PlacesIn(u, s)
      BY <1>6, <2>1, <2>3 DEF PlacesIn
    <3>2. \A p \in PlacesIn(u, s) : 1 <= p
      BY <1>6, <2>1 DEF PlacesIn
    <3>3. /\ Min(PlacesIn(u, s)) \in PlacesIn(u, s)
          /\ \A p \in PlacesIn(u, s) : Min(PlacesIn(u, s)) <= p
      BY <2>2, <3>1, MinIn
    <3>4. Min(PlacesIn(u, s)) = 1
      BY <2>2, <3>1, <3>2, <3>3
    <3> QED
      BY <1>4, <1>6, <2>1, <2>3, <3>1, <3>4 DEF u
  <2>4. CASE s # binder.key
    <3>1. \A p \in 1 .. Len(t[h]) : p + 1 \in PlacesIn(u, s) <=> p \in PlacesIn(t, s)
      BY <1>6, <2>1 DEF PlacesIn
    <3>2. 1 \notin PlacesIn(u, s)
      BY <1>6, <2>1, <2>4 DEF PlacesIn
    <3>3. PlacesIn(t, s) \subseteq 1 .. Len(t[h]) /\ PlacesIn(u, s) \subseteq 1 .. Len(t[h]) + 1
      BY <1>6, <2>1 DEF PlacesIn
    <3>4. \A p \in PlacesIn(u, s) : p - 1 \in PlacesIn(t, s)
      <4> TAKE p \in PlacesIn(u, s)
      <4>1. p \in 1 .. Len(t[h]) + 1 /\ p # 1
        BY <3>2, <3>3
      <4>2. p - 1 \in 1 .. Len(t[h]) /\ (p - 1) + 1 = p
        BY <2>1, <4>1
      <4> QED
        BY <3>1, <4>2
    <3>5. CASE PlacesIn(t, s) = {}
      <4>1. PlacesIn(u, s) = {}
        BY <3>4, <3>5
      <4> QED
        BY <1>4, <2>4, <3>5, <4>1 DEF u
    <3>6. CASE PlacesIn(t, s) # {}
      <4> DEFINE m == Min(PlacesIn(t, s))
                 n == Min(PlacesIn(u, s))
      <4>1. m \in PlacesIn(t, s) /\ \A p \in PlacesIn(t, s) : m <= p
        BY <2>2, <3>6, MinIn
      <4>2. m \in 1 .. Len(t[h]) /\ m + 1 \in PlacesIn(u, s)
        BY <3>1, <3>3, <4>1
      <4>3. n \in PlacesIn(u, s) /\ \A p \in PlacesIn(u, s) : n <= p
        BY <2>2, <4>2, MinIn
      <4>4. n \in 1 .. Len(t[h]) + 1 /\ n - 1 \in PlacesIn(t, s)
        BY <3>3, <3>4, <4>3
      <4>5. n <= m + 1 /\ m <= n - 1
        BY <4>1, <4>2, <4>3, <4>4
      <4>6. n = m + 1
        <5> HIDE DEF m, n
        <5> QED
          BY <2>1, <4>2, <4>4, <4>5
      <4>7. u[hash[s]][n] = t[hash[s]][m]
        BY <1>6, <2>1, <4>2, <4>6
      <4>8. VisibleIn(u)[s] = VisibleIn(t)[s]
        BY <1>4, <3>6, <4>2, <4>7
      <4> QED
        BY <2>4, <4>8 DEF u
    <3> QED
      BY <3>5, <3>6
  <2> QED
    BY <2>3, <2>4
<1> QED
  BY <1>5, <1>6

\* As a function; a mark changes nothing that is seen.
LEMMA EnterVisible ==
  ASSUME hash \in [Key -> Bucket], NEW t \in Buckets, NEW binder \in Binder
  PROVE  VisibleIn(With(t, binder)) =
           [s \in Symbol |-> IF s = binder.key THEN binder.value ELSE VisibleIn(t)[s]]
<1>1. \A s \in Symbol : VisibleIn(With(t, binder))[s] =
                          IF s = binder.key THEN binder.value ELSE VisibleIn(t)[s]
  BY EnterSeen
<1>2. VisibleIn(With(t, binder)) = [s \in Symbol |-> VisibleIn(With(t, binder))[s]]
  BY DEF VisibleIn
<1> HIDE DEF VisibleIn
<1> QED
  BY <1>1, <1>2

LEMMA MarkUnseen ==
  ASSUME hash \in [Key -> Bucket], NEW t \in Buckets, NEW binder \in Binder,
         binder.key = marksym
  PROVE  VisibleIn(With(t, binder)) = VisibleIn(t)
<1>1. \A s \in Symbol : s # marksym
  BY SymbolTableAssumption
<1>2. VisibleIn(With(t, binder)) =
        [s \in Symbol |-> IF s = binder.key THEN binder.value ELSE VisibleIn(t)[s]]
  BY EnterVisible
<1>3. VisibleIn(With(t, binder)) = [s \in Symbol |-> VisibleIn(t)[s]]
  BY <1>1, <1>2
<1>4. VisibleIn(t) = [s \in Symbol |-> VisibleIn(t)[s]]
  BY DEF VisibleIn
<1> QED
  BY <1>3, <1>4

LEMMA VisibleType ==
  ASSUME hash \in [Key -> Bucket], NEW t \in Buckets
  PROVE  VisibleIn(t) \in [Symbol -> Value \cup {NULL}]
<1> SUFFICES ASSUME NEW s \in Symbol
             PROVE  (IF PlacesIn(t, s) = {} THEN NULL
                     ELSE t[hash[s]][Min(PlacesIn(t, s))].value) \in Value \cup {NULL}
  BY DEF VisibleIn
<1>1. hash[s] \in Bucket /\ t[hash[s]] \in Seq(Binder)
  BY DEF Buckets, Key
<1>2. PlacesIn(t, s) \subseteq DOMAIN t[hash[s]] /\ DOMAIN t[hash[s]] \subseteq Nat
  BY <1>1 DEF PlacesIn
<1>3. CASE PlacesIn(t, s) # {}
  <2>1. Min(PlacesIn(t, s)) \in DOMAIN t[hash[s]]
    BY <1>2, <1>3, MinIn
  <2>2. t[hash[s]][Min(PlacesIn(t, s))] \in Binder
    BY <1>1, <2>1, ElementOfSeq
  <2> QED
    BY <1>3, <2>2, BinderType
<1> QED
  BY <1>3

LEMMA VisibleIsVisibleIn == Visible = VisibleIn(table)
  BY DEF Visible, VisibleIn, TAB_look, Look, Places, PlacesIn

LEMMA VisibleNext ==
  ASSUME hash' = hash
  PROVE  Visible' = VisibleIn(table')
BY DEF Visible, VisibleIn, TAB_look, Look, Places, PlacesIn

-----------------------------------------------------------------------------
LEMMA LogTypes ==
  ASSUME NEW L, NEW T, Log(L, T)
  PROVE  /\ L \in Seq(Binder) /\ Len(L) \in Nat
         /\ \A m \in 1 .. Len(L) : /\ L[m] \in Binder /\ L[m].key \in Key
                                   /\ L[m].key # NULL
         /\ \A m \in 0 .. Len(L) : /\ T[m] \in Buckets
                                   /\ TopOf(L, m) \in Key \cup {NULL}
                                   /\ TopOf(L, m) = NULL <=> m = 0
<1>1. L \in Seq(Binder) /\ Len(L) \in Nat
  BY DEF Log
<1>2. \A m \in 1 .. Len(L) : L[m] \in Binder /\ L[m].key \in Key /\ L[m].key # NULL
  BY <1>1, ElementOfSeq, BinderType, SymbolTableAssumption
<1>3. \A m \in 0 .. Len(L) : T[m] \in Buckets
  BY DEF Log
<1>4. \A m \in 0 .. Len(L) : m = 0 \/ m \in 1 .. Len(L)
  BY <1>1
<1> QED
  BY <1>1, <1>2, <1>3, <1>4 DEF TopOf

\* What stands behind top after the first d binders, and what is left when it is unlinked.
LEMMA Behind ==
  ASSUME hash \in [Key -> Bucket], NEW L, NEW T, Log(L, T), NEW d \in 0 .. Len(L),
         table = T[d], top = TopOf(L, d)
  PROVE  /\ d = 0 => top = NULL /\ table = Empty /\ table[BucketOf(top)] = <<>>
         /\ d > 0 => /\ top = L[d].key /\ top \in Key /\ top # NULL
                     /\ BucketOf(top) = hash[top]
                     /\ table[hash[top]] # <<>>
                     /\ Head(table[hash[top]]) = L[d]
                     /\ Tail(table[hash[top]]) = T[d - 1][hash[top]]
                     /\ Unlink => table' = T[d - 1] /\ top' = TopOf(L, d - 1)
<1>1. CASE d = 0
  <2>1. top = NULL /\ table = Empty /\ BucketOf(top) = 0
    BY <1>1 DEF TopOf, Log, BucketOf
  <2>2. 0 \in Bucket
    BY SymbolTableAssumption DEF Bucket
  <2> QED
    BY <1>1, <2>1, <2>2, EmptyTable
<1>2. CASE d > 0
  <2>1. d \in 1 .. Len(L) /\ d - 1 \in 0 .. Len(L)
    BY <1>2, LogTypes
  <2>2. /\ L[d] \in Binder /\ L[d].key \in Key /\ L[d].key # NULL
        /\ T[d - 1] \in Buckets
        /\ T[d] = With(T[d - 1], L[d])
        /\ L[d].prevtop = TopOf(L, d - 1)
    BY <2>1, LogTypes DEF Log
  <2>3. top = L[d].key /\ BucketOf(top) = hash[top]
    BY <1>2, <2>2 DEF TopOf, BucketOf
  <2>4. /\ table[hash[top]] # <<>>
        /\ Head(table[hash[top]]) = L[d]
        /\ Tail(table[hash[top]]) = T[d - 1][hash[top]]
        /\ [table EXCEPT ![hash[top]] = Tail(@)] = T[d - 1]
    BY <2>2, <2>3, Unlinked
  <2>5. Unlink => table' = T[d - 1] /\ top' = TopOf(L, d - 1)
    BY <2>2, <2>3, <2>4 DEF Unlink
  <2> QED
    BY <1>2, <2>2, <2>3, <2>4, <2>5
<1> QED
  BY <1>1, <1>2

-----------------------------------------------------------------------------
\* The log with one binder more.
Grown(L, T, binder) ==
  [m \in 0 .. Len(L) + 1 |-> IF m <= Len(L) THEN T[m] ELSE With(T[Len(L)], binder)]

LEMMA GrownLog ==
  ASSUME hash \in [Key -> Bucket], NEW L, NEW T, Log(L, T), Kept(L, T),
         NEW binder \in Binder, binder.prevtop = TopOf(L, Len(L)), NEW U, U = Grown(L, T, binder)
  PROVE  /\ Log(Append(L, binder), U)
         /\ Kept(Append(L, binder), U)
         /\ U[Len(L) + 1] = With(T[Len(L)], binder)
         /\ \A m \in 0 .. Len(L) : U[m] = T[m]
<1> DEFINE n == Len(L)
           A == Append(L, binder)
<1>1. L \in Seq(Binder) /\ n \in Nat /\ \A m \in 0 .. n : T[m] \in Buckets
  BY LogTypes
<1>2. /\ A \in Seq(Binder) /\ Len(A) = n + 1 /\ A[n + 1] = binder
      /\ \A i \in 1 .. n : A[i] = L[i]
  BY <1>1, Lengthened
<1>3. U[n + 1] = With(T[n], binder) /\ \A m \in 0 .. n : U[m] = T[m]
  BY <1>1 DEF Grown
<1>4. With(T[n], binder) \in Buckets
  <2>1. T[n] \in Buckets
    BY <1>1
  <2> QED
    BY <2>1, WithBinder
<1>5. U \in [0 .. n + 1 -> Buckets]
  BY <1>1, <1>4 DEF Grown
<1> HIDE DEF A, n
<1>6. \A m \in 1 .. n + 1 : m \in 1 .. n \/ m = n + 1
  BY <1>1
<1>7. \A m \in 0 .. n : TopOf(A, m) = TopOf(L, m)
  BY <1>1, <1>2 DEF TopOf
<1>8. Log(A, U)
  <2>1. U[0] = Empty
    BY <1>1, <1>3 DEF Log, n
  <2>2. \A m \in 1 .. n : U[m] = With(U[m - 1], A[m]) /\ A[m].prevtop = TopOf(A, m - 1)
    <3> TAKE m \in 1 .. n
    <3>1. m \in 0 .. n /\ m - 1 \in 0 .. n
      BY <1>1
    <3>2. T[m] = With(T[m - 1], L[m]) /\ L[m].prevtop = TopOf(L, m - 1)
      BY DEF Log, n
    <3> QED
      BY <1>2, <1>3, <1>7, <3>1, <3>2
  <2>3. U[n + 1] = With(U[n], A[n + 1]) /\ A[n + 1].prevtop = TopOf(A, n)
    BY <1>1, <1>2, <1>3, <1>7 DEF n
  <2>4. \A m \in 1 .. n + 1 : U[m] = With(U[m - 1], A[m]) /\ A[m].prevtop = TopOf(A, m - 1)
    <3>1. (n + 1) - 1 = n
      BY <1>1
    <3> QED
      BY <1>6, <2>2, <2>3, <3>1
  <2> QED
    BY <1>2, <1>5, <2>1, <2>4 DEF Log
<1>9. Kept(A, U)
  <2> SUFFICES ASSUME NEW m \in 1 .. n + 1, NEW k \in m .. n + 1
               PROVE  \E p \in DOMAIN U[k][hash[A[m].key]] : U[k][hash[A[m].key]][p] = A[m]
    BY <1>2 DEF Kept
  <2>1. CASE k <= n
    <3>1. m \in 1 .. n /\ k \in m .. n /\ k \in 0 .. n
      BY <1>1, <2>1
    <3>2. \E p \in DOMAIN T[k][hash[L[m].key]] : T[k][hash[L[m].key]][p] = L[m]
      BY <3>1 DEF Kept, n
    <3>3. A[m] = L[m] /\ U[k] = T[k]
      BY <1>2, <1>3, <3>1
    <3> QED
      BY <3>2, <3>3
  <2>2. CASE k = n + 1
    <3> DEFINE h == hash[binder.key]
    <3>1. h \in Bucket /\ T[n] \in Buckets /\ T[n][h] \in Seq(Binder)
      BY <1>1, BinderType DEF Buckets
    <3>2. /\ U[k][h] = <<binder>> \o T[n][h]
          /\ \A b \in Bucket \ {h} : U[k][b] = T[n][b]
      <4>1. U[k] = With(T[n], binder)
        BY <1>3, <2>2
      <4>2. /\ With(T[n], binder)[h] = <<binder>> \o T[n][h]
            /\ \A b \in Bucket \ {h} : With(T[n], binder)[b] = T[n][b]
        BY <3>1, WithBinder
      <4> QED
        BY <4>1, <4>2
    <3>3. /\ DOMAIN U[k][h] = 1 .. Len(T[n][h]) + 1
          /\ Len(T[n][h]) \in Nat
          /\ DOMAIN T[n][h] = 1 .. Len(T[n][h])
          /\ U[k][h][1] = binder
          /\ \A p \in 1 .. Len(T[n][h]) : U[k][h][p + 1] = T[n][h][p]
      BY <3>1, <3>2, Linked
    <3>4. CASE m = n + 1
      <4>1. 1 \in DOMAIN U[k][h]
        BY <3>3
      <4>2. A[m] = binder
        BY <1>2, <3>4
      <4> QED
        BY <3>3, <4>1, <4>2
    <3>5. CASE m \in 1 .. n
      <4>1. A[m] = L[m] /\ hash[A[m].key] \in Bucket
        <5>1. L[m] \in Binder /\ L[m].key \in Key
          BY <3>5, LogTypes DEF n
        <5> QED
          BY <1>2, <3>5, <5>1
      <4>2. n \in m .. n
        BY <1>1, <3>5
      <4>3. PICK p \in DOMAIN T[n][hash[A[m].key]] : T[n][hash[A[m].key]][p] = A[m]
        BY <3>5, <4>1, <4>2 DEF Kept, n
      <4>4. CASE hash[A[m].key] # h
        BY <3>2, <4>1, <4>3, <4>4
      <4>5. CASE hash[A[m].key] = h
        <5>1. p \in 1 .. Len(T[n][h]) /\ p + 1 \in DOMAIN U[k][h]
          BY <3>3, <4>3, <4>5
        <5>2. U[k][h][p + 1] = A[m]
          BY <3>3, <4>3, <4>5, <5>1
        <5> QED
          BY <4>5, <5>1, <5>2
      <4> QED
        BY <4>4, <4>5
    <3> QED
      BY <1>6, <3>4, <3>5
  <2> QED
    BY <1>1, <2>1, <2>2
<1> QED
  BY <1>3, <1>8, <1>9 DEF A, n

\* The log with one binder less.
Shrunk(L, T) == [m \in 0 .. Len(L) - 1 |-> T[m]]

LEMMA ShrunkLog ==
  ASSUME NEW L, NEW T, Log(L, T), Kept(L, T), L # <<>>, NEW U, U = Shrunk(L, T)
  PROVE  /\ Log(Front(L), U)
         /\ Kept(Front(L), U)
         /\ \A m \in 0 .. Len(L) - 1 : U[m] = T[m]
<1> DEFINE n == Len(L) - 1
           F == Front(L)
<1>1. L \in Seq(Binder) /\ n \in Nat /\ Len(L) = n + 1
  BY LogTypes, Shortened
<1>2. F \in Seq(Binder) /\ Len(F) = n /\ \A i \in 1 .. n : F[i] = L[i]
  BY <1>1, Shortened
<1>3. \A m \in 0 .. n : U[m] = T[m]
  BY DEF Shrunk
<1>4. U \in [0 .. n -> Buckets]
  <2>1. \A m \in 0 .. n : T[m] \in Buckets
    BY <1>1, LogTypes
  <2> QED
    BY <2>1 DEF Shrunk
<1>5. U = [m \in 0 .. n |-> T[m]]
  BY DEF Shrunk
<1> HIDE DEF n, F
<1>6. Log(F, U)
  <2>1. U[0] = Empty
    BY <1>1, <1>3 DEF Log
  <2>2. \A m \in 1 .. n : U[m] = With(U[m - 1], F[m]) /\ F[m].prevtop = TopOf(F, m - 1)
    <3> TAKE m \in 1 .. n
    <3>1. m \in 0 .. n /\ m - 1 \in 0 .. n /\ m \in 1 .. Len(L)
      BY <1>1
    <3>2. T[m] = With(T[m - 1], L[m]) /\ L[m].prevtop = TopOf(L, m - 1)
      BY <3>1 DEF Log
    <3>3. TopOf(F, m - 1) = TopOf(L, m - 1)
      BY <1>1, <1>2 DEF TopOf
    <3> QED
      BY <1>2, <1>3, <3>1, <3>2, <3>3
  <2> QED
    BY <1>2, <1>4, <2>1, <2>2 DEF Log
<1>7. Kept(F, U)
  <2> SUFFICES ASSUME NEW m \in 1 .. n, NEW k \in m .. n
               PROVE  \E p \in DOMAIN U[k][hash[F[m].key]] : U[k][hash[F[m].key]][p] = F[m]
    BY <1>2 DEF Kept
  <2>1. m \in 1 .. Len(L) /\ k \in m .. Len(L) /\ k \in 0 .. n
    BY <1>1
  <2>2. \E p \in DOMAIN T[k][hash[L[m].key]] : T[k][hash[L[m].key]][p] = L[m]
    BY <2>1 DEF Kept
  <2>3. F[m] = L[m] /\ U[k] = T[k]
    BY <1>2, <1>3, <2>1
  <2> QED
    BY <2>2, <2>3
<1> QED
  BY <1>3, <1>6, <1>7 DEF n, F

-----------------------------------------------------------------------------
\* A binder that is no mark leaves the places of the marks as they are.
LEMMA MarksKept ==
  ASSUME NEW L, NEW M, L \in Seq(Binder), Marks(L, M),
         NEW binder \in Binder, binder.key # marksym
  PROVE  Marks(Append(L, binder), M)
<1> DEFINE n == Len(L)
           A == Append(L, binder)
<1>1. n \in Nat /\ Len(A) = n + 1 /\ A[n + 1] = binder /\ \A i \in 1 .. n : A[i] = L[i]
  BY Lengthened
<1>2. M \in Seq(1 .. n) /\ \A a \in 1 .. Len(M) : M[a] \in 1 .. n
  BY ElementOfSeq DEF Marks
<1> HIDE DEF A
<1>3. 1 .. n \subseteq 1 .. n + 1
  BY <1>1
<1>4. M \in Seq(1 .. n + 1)
  <2> HIDE DEF n
  <2> QED
    BY <1>2, <1>3, SeqMonotonic
<1>5. \A m \in 1 .. n + 1 : A[m].key = marksym <=> \E a \in 1 .. Len(M) : M[a] = m
  <2> TAKE m \in 1 .. n + 1
  <2>1. CASE m \in 1 .. n
    BY <1>1, <2>1 DEF Marks
  <2>2. CASE m = n + 1
    <3>1. \A a \in 1 .. Len(M) : M[a] # m
      BY <1>1, <1>2, <2>2
    <3> QED
      BY <1>1, <2>2, <3>1
  <2> QED
    BY <1>1, <2>1, <2>2
<1> QED
  BY <1>1, <1>4, <1>5 DEF Marks, A

LEMMA MarkAdded ==
  ASSUME NEW L, NEW M, L \in Seq(Binder), Marks(L, M),
         NEW binder \in Binder, binder.key = marksym
  PROVE  Marks(Append(L, binder), Append(M, Len(L) + 1))
<1> DEFINE n == Len(L)
           A == Append(L, binder)
           N == Append(M, n + 1)
<1>1. n \in Nat /\ Len(A) = n + 1 /\ A[n + 1] = binder /\ \A i \in 1 .. n : A[i] = L[i]
  BY Lengthened
<1>2. M \in Seq(1 .. n) /\ Len(M) \in Nat /\ \A a \in 1 .. Len(M) : M[a] \in 1 .. n
  BY ElementOfSeq DEF Marks
<1> HIDE DEF A, n
<1>3. 1 .. n \subseteq 1 .. n + 1 /\ n + 1 \in 1 .. n + 1
  BY <1>1
<1>4. M \in Seq(1 .. n + 1)
  BY <1>2, <1>3, SeqMonotonic
<1>5. /\ N \in Seq(1 .. n + 1) /\ Len(N) = Len(M) + 1 /\ N[Len(M) + 1] = n + 1
      /\ \A a \in 1 .. Len(M) : N[a] = M[a]
  BY <1>3, <1>4, Lengthened
<1> HIDE DEF N
<1>6. \A a \in 1 .. Len(N) : a \in 1 .. Len(M) \/ a = Len(M) + 1
  BY <1>2, <1>5
<1>7. \A a, b \in 1 .. Len(N) : a < b => N[a] < N[b]
  <2> SUFFICES ASSUME NEW a \in 1 .. Len(N), NEW b \in 1 .. Len(N), a < b
               PROVE  N[a] < N[b]
    OBVIOUS
  <2>1. a \in 1 .. Len(M)
    BY <1>2, <1>5
  <2>2. CASE b \in 1 .. Len(M)
    BY <1>5, <2>1, <2>2 DEF Marks
  <2>3. CASE b = Len(M) + 1
    <3>1. N[a] \in 1 .. n /\ N[b] = n + 1
      BY <1>2, <1>5, <2>1, <2>3
    <3> QED
      BY <1>1, <3>1
  <2> QED
    BY <1>6, <2>2, <2>3
<1>8. \A m \in 1 .. n + 1 : A[m].key = marksym <=> \E a \in 1 .. Len(N) : N[a] = m
  <2> TAKE m \in 1 .. n + 1
  <2>1. CASE m \in 1 .. n
    <3>1. m # n + 1
      BY <1>1, <2>1
    <3>2. (\E a \in 1 .. Len(N) : N[a] = m) <=> (\E a \in 1 .. Len(M) : M[a] = m)
      <4>1. \A a \in 1 .. Len(M) : a \in 1 .. Len(N)
        BY <1>2, <1>5
      <4> QED
        BY <1>5, <1>6, <3>1, <4>1
    <3>3. A[m].key = marksym <=> \E a \in 1 .. Len(M) : M[a] = m
      BY <1>1, <2>1 DEF Marks, n
    <3> QED
      BY <3>2, <3>3
  <2>2. CASE m = n + 1
    <3>1. Len(M) + 1 \in 1 .. Len(N) /\ N[Len(M) + 1] = m
      BY <1>2, <1>5, <2>2
    <3> QED
      BY <1>1, <2>2, <3>1
  <2> QED
    BY <1>1, <2>1, <2>2
<1> QED
  BY <1>1, <1>5, <1>7, <1>8 DEF Marks, A, N, n

\* Taking off a binder that is no mark, and one that is: it is the last of the marks.
LEMMA MarksLeft ==
  ASSUME NEW L, NEW M, L \in Seq(Binder), Marks(L, M), L # <<>>, L[Len(L)].key # marksym
  PROVE  Marks(Front(L), M)
<1> DEFINE n == Len(L) - 1
           F == Front(L)
<1>1. n \in Nat /\ Len(L) = n + 1 /\ Len(F) = n /\ \A i \in 1 .. n : F[i] = L[i]
  BY Shortened
<1> HIDE DEF n, F
<1>2. /\ M \in Seq(1 .. n + 1) /\ Len(M) \in Nat
      /\ \A a \in 1 .. Len(M) : M[a] \in 1 .. n + 1
  BY <1>1, ElementOfSeq DEF Marks
<1>3. \A a \in 1 .. Len(M) : M[a] # n + 1
  <2>1. n + 1 \in 1 .. Len(L)
    BY <1>1
  <2> QED
    BY <1>1, <2>1 DEF Marks
<1>4. \A a \in 1 .. Len(M) : M[a] \in 1 .. n
  BY <1>1, <1>2, <1>3
<1>5. M \in Seq(1 .. n)
  BY <1>2, <1>4, Narrowed
<1>6. \A m \in 1 .. n : F[m].key = marksym <=> \E a \in 1 .. Len(M) : M[a] = m
  <2>1. \A m \in 1 .. Len(L) : L[m].key = marksym <=> \E a \in 1 .. Len(M) : M[a] = m
    BY DEF Marks
  <2>2. \A m \in 1 .. n : m \in 1 .. Len(L) /\ F[m] = L[m]
    BY <1>1
  <2> QED
    BY <2>1, <2>2
<1> QED
  BY <1>1, <1>5, <1>6 DEF Marks, F

LEMMA MarkTaken ==
  ASSUME NEW L, NEW M, L \in Seq(Binder), Marks(L, M), L # <<>>, L[Len(L)].key = marksym
  PROVE  /\ M # <<>> /\ M[Len(M)] = Len(L)
         /\ Marks(Front(L), Front(M))
<1> DEFINE n == Len(L) - 1
           F == Front(L)
           N == Front(M)
           l == Len(M) - 1
<1>1. n \in Nat /\ Len(L) = n + 1 /\ Len(F) = n /\ \A i \in 1 .. n : F[i] = L[i]
  BY Shortened
<1>2. M \in Seq(1 .. Len(L)) /\ Len(M) \in Nat
  BY DEF Marks
<1> HIDE DEF n, F
<1>3. PICK z \in 1 .. Len(M) : M[z] = n + 1
  <2>1. n + 1 \in 1 .. Len(L)
    BY <1>1
  <2> QED
    BY <1>1, <2>1 DEF Marks
<1>4. M # <<>>
  BY <1>2, <1>3
<1>5. l \in Nat /\ Len(M) = l + 1 /\ Len(N) = l /\ \A a \in 1 .. l : N[a] = M[a]
  <2>1. /\ Len(M) \in Nat \ {0}
        /\ Len(Front(M)) = Len(M) - 1
        /\ \A a \in 1 .. Len(M) - 1 : Front(M)[a] = M[a]
    BY <1>2, <1>4, Shortened
  <2> QED
    BY <2>1
<1> HIDE DEF N, l
<1>6. \A a \in 1 .. l + 1 : M[a] \in 1 .. n + 1
  <2>1. \A a \in 1 .. Len(M) : M[a] \in 1 .. Len(L)
    BY <1>2, ElementOfSeq
  <2> QED
    BY <1>1, <1>5, <2>1
<1>7. z = l + 1
  <2>1. z < l + 1 => M[z] < M[l + 1]
    <3>1. l + 1 \in 1 .. Len(M)
      BY <1>5
    <3> QED
      BY <1>5, <3>1 DEF Marks
  <2>2. M[l + 1] \in 1 .. n + 1
    BY <1>5, <1>6
  <2> QED
    BY <1>1, <1>3, <1>5, <2>1, <2>2
<1>8. \A a \in 1 .. l : M[a] \in 1 .. n
  <2> TAKE a \in 1 .. l
  <2>1. a \in 1 .. Len(M) /\ l + 1 \in 1 .. Len(M) /\ a < l + 1
    BY <1>5
  <2>2. M[a] < M[l + 1]
    BY <2>1 DEF Marks
  <2>3. M[a] \in 1 .. n + 1
    BY <1>5, <1>6, <2>1
  <2> QED
    BY <1>1, <1>3, <1>7, <2>2, <2>3
<1>9. N \in Seq(1 .. n)
  <2>1. N \in Seq(1 .. Len(L))
    BY <1>2, <1>4, Shortened DEF N
  <2>2. \A a \in 1 .. Len(N) : N[a] \in 1 .. n
    BY <1>5, <1>8
  <2> QED
    BY <2>1, <2>2, Narrowed
<1>10. \A a, b \in 1 .. l : a < b => N[a] < N[b]
  <2>1. \A a, b \in 1 .. Len(M) : a < b => M[a] < M[b]
    BY DEF Marks
  <2>2. \A a \in 1 .. l : a \in 1 .. Len(M) /\ N[a] = M[a]
    BY <1>5
  <2> QED
    BY <2>1, <2>2
<1>11. \A m \in 1 .. n : F[m].key = marksym <=> \E a \in 1 .. l : N[a] = m
  <2> TAKE m \in 1 .. n
  <2>1. m \in 1 .. Len(L) /\ m # n + 1
    BY <1>1
  <2>2. F[m].key = marksym <=> \E a \in 1 .. Len(M) : M[a] = m
    BY <1>1, <2>1 DEF Marks
  <2>3. \A a \in 1 .. Len(M) : a \in 1 .. l \/ a = z
    BY <1>5, <1>7
  <2>4. \A a \in 1 .. l : a \in 1 .. Len(M)
    BY <1>5
  <2> QED
    BY <1>3, <1>5, <2>1, <2>2, <2>3, <2>4
<1>12. M[Len(M)] = Len(L)
  BY <1>1, <1>3, <1>5, <1>7
<1> QED
  BY <1>1, <1>4, <1>5, <1>9, <1>10, <1>11, <1>12 DEF Marks, F, N

-----------------------------------------------------------------------------
\* What the invariant says of the state, read off for the steps.
LEMMA Reading ==
  ASSUME TypeOK, Modes, NEW L, NEW T, NEW M, Logged(L, T, M)
  PROVE  /\ hash \in [Key -> Bucket]
         /\ Log(L, T) /\ Kept(L, T) /\ Marks(L, M) /\ Opened(T, M, Base) /\ Dumping(L, T)
         /\ Depth(L) \in 0 .. Len(L)
         /\ table = T[Depth(L)] /\ table \in Buckets
         /\ top = TopOf(L, Depth(L))
         /\ Visible = VisibleIn(T[Depth(L)])
         /\ Visible \in [Symbol -> Value \cup {NULL}]
         /\ calls = <<>> => Depth(L) = Len(L)
         /\ Idle => Base = saved
         /\ closing => calls = <<>> /\ Base = Front(saved)
         /\ calls # <<>> => Base = Front(saved)
<1>1. /\ Log(L, T) /\ Kept(L, T) /\ Marks(L, M) /\ Opened(T, M, Base) /\ Dumping(L, T)
      /\ table = T[Depth(L)] /\ top = TopOf(L, Depth(L))
  BY DEF Logged, Current
<1>2. hash \in [Key -> Bucket] /\ table \in Buckets /\ Len(calls) \in Nat
      /\ (calls = <<>> => Len(calls) = 0)
  BY DEF TypeOK, Buckets
<1>3. Len(L) \in Nat /\ Len(calls) <= Len(L)
  BY <1>1, LogTypes DEF Dumping
<1>4. Depth(L) \in 0 .. Len(L) /\ (calls = <<>> => Depth(L) = Len(L))
  BY <1>2, <1>3 DEF Depth
<1>5. Visible = VisibleIn(T[Depth(L)]) /\ Visible \in [Symbol -> Value \cup {NULL}]
  BY <1>1, <1>2, VisibleIsVisibleIn, VisibleType
<1>6. /\ Idle => Base = saved
      /\ closing => calls = <<>> /\ Base = Front(saved)
      /\ calls # <<>> => Base = Front(saved)
  BY DEF Base, Idle, Modes
<1> QED
  BY <1>1, <1>2, <1>4, <1>5, <1>6

\* What the table was built from is the same as long as the buckets of the keys are.
LEMMA Carried ==
  ASSUME hash' = hash, NEW L, NEW T, NEW M
  PROVE  /\ Log(L, T)' <=> Log(L, T)
         /\ Kept(L, T)' <=> Kept(L, T)
         /\ \A t : VisibleIn(t)' = VisibleIn(t)
<1>1. \A t, b : With(t, b)' = With(t, b)
  BY DEF With
<1>2. Log(L, T)' <=> Log(L, T)
  BY <1>1 DEF Log
<1>3. Kept(L, T)' <=> Kept(L, T)
  BY DEF Kept
<1>4. \A t : VisibleIn(t)' = VisibleIn(t)
  BY DEF VisibleIn, PlacesIn
<1> QED
  BY <1>2, <1>3, <1>4

\* A step that ends outside of a dump: the whole log is in the table.
LEMMA LoggedOutside ==
  ASSUME hash' = hash, calls' = <<>>, NEW L, NEW T, NEW M,
         Log(L, T), Kept(L, T), Marks(L, M), Opened(T, M, Base'),
         table' = T[Len(L)], top' = TopOf(L, Len(L))
  PROVE  Logged(L, T, M)'
<1>1. Log(L, T)' /\ Kept(L, T)' /\ Marks(L, M)'
  BY Carried DEF Marks
<1>2. Opened(T, M, Base)'
  <2>1. \A t : VisibleIn(t)' = VisibleIn(t)
    BY Carried
  <2> QED
    BY <2>1 DEF Opened
<1>3. Len(L) \in Nat /\ Len(calls') = 0
  BY LogTypes
<1>4. Depth(L)' = Len(L)
  BY <1>3 DEF Depth
<1>5. Dumping(L, T)'
  BY <1>3 DEF Dumping
<1>6. Current(L, T)'
  BY <1>4 DEF Current, TopOf
<1> QED
  BY <1>1, <1>2, <1>5, <1>6 DEF Logged

\* A step of a dump: the log is the same, only how far down it the table is changes.
LEMMA LoggedWithin ==
  ASSUME hash' = hash, NEW L, NEW T, NEW M, Logged(L, T, M), Base' = Base,
         Len(calls') <= Len(L),
         \A c \in 1 .. Len(calls') : /\ calls'[c].b = L[Len(L) - c + 1]
                                     /\ calls'[c].k = L[Len(L) - c + 1].key
                                     /\ calls'[c].next = T[Len(L) - c][hash[calls'[c].k]],
         calls' # <<>> => Last(saved') = VisibleIn(T[Len(L)]),
         table' = T[Len(L) - Len(calls')], top' = TopOf(L, Len(L) - Len(calls'))
  PROVE  Logged(L, T, M)'
<1>1. Log(L, T)' /\ Kept(L, T)' /\ Marks(L, M)'
  BY Carried DEF Marks, Logged
<1>2. \A t : VisibleIn(t)' = VisibleIn(t)
  BY Carried
<1>3. Opened(T, M, Base)'
  <2>1. Opened(T, M, Base)
    BY DEF Logged
  <2> QED
    BY <1>2, <2>1 DEF Opened
<1>4. Dumping(L, T)'
  <2>1. calls' # <<>> => Last(saved') = VisibleIn(T[Len(L)])'
    BY <1>2
  <2> QED
    BY <2>1 DEF Dumping
<1>5. Current(L, T)'
  BY DEF Current, Depth, TopOf
<1> QED
  BY <1>1, <1>3, <1>4, <1>5 DEF Logged

LEMMA OpenedAlike ==
  ASSUME NEW T, NEW M, NEW base, Opened(T, M, base), NEW U, NEW n \in Nat, M \in Seq(1 .. n),
         \A m \in 0 .. n - 1 : U[m] = T[m]
  PROVE  Opened(U, M, base)
<1>1. \A a \in 1 .. Len(M) : M[a] - 1 \in 0 .. n - 1
  <2>1. \A a \in 1 .. Len(M) : M[a] \in 1 .. n
    BY ElementOfSeq
  <2> QED
    BY <2>1
<1> QED
  BY <1>1 DEF Opened

-----------------------------------------------------------------------------
LEMMA EnterType ==
  ASSUME TypeOK, NEW key \in Key, NEW value \in Value \cup {NULL}, Enter(key, value)
  PROVE  /\ [key |-> key, value |-> value, prevtop |-> top] \in Binder
         /\ table' = With(table, [key |-> key, value |-> value, prevtop |-> top])
         /\ table' \in Buckets
         /\ top' = key /\ top' \in Key \cup {NULL}
<1>1. [key |-> key, value |-> value, prevtop |-> top] \in Binder
  BY DEF TypeOK, Binder
<1>2. table' = With(table, [key |-> key, value |-> value, prevtop |-> top])
  BY DEF Enter, With
<1>3. table' \in Buckets
  <2>1. hash \in [Key -> Bucket] /\ table \in Buckets
    BY DEF TypeOK, Buckets
  <2> QED
    BY <1>1, <1>2, <2>1, WithBinder
<1> QED
  BY <1>1, <1>2, <1>3 DEF Enter

LEMMA S_enterStep ==
  ASSUME TypeOK, Modes, NEW L, NEW T, NEW M, Logged(L, T, M),
         NEW s \in Symbol, NEW v \in Value, S_enter(s, v)
  PROVE  SInv' /\ Visible' = [Visible EXCEPT ![s] = v]
<1> DEFINE n == Len(L)
<1> PICK binder : binder = [key |-> s, value |-> v, prevtop |-> top]
  OBVIOUS
<1> PICK A : A = Append(L, binder)
  OBVIOUS
<1>1. /\ Idle /\ Enter(s, v) /\ hash' = hash /\ closing' = closing /\ calls' = calls
      /\ showing' = showing /\ saved' = saved
  BY DEF S_enter
<1>2. s \in Key /\ s # marksym /\ v \in Value \cup {NULL}
  BY SymbolTableAssumption DEF Key
<1>3. /\ binder \in Binder /\ table' = With(table, binder) /\ table' \in Buckets
      /\ top' = s /\ top' \in Key \cup {NULL}
  BY <1>1, <1>2, EnterType
<1>4. /\ hash \in [Key -> Bucket]
      /\ Log(L, T) /\ Kept(L, T) /\ Marks(L, M) /\ Opened(T, M, Base)
      /\ table = T[n] /\ table \in Buckets /\ top = TopOf(L, n) /\ n \in Nat /\ L \in Seq(Binder)
  BY <1>1, Reading, LogTypes DEF Idle
<1>5. binder.key = s /\ binder.value = v /\ binder.prevtop = top
  OBVIOUS
<1>6. PICK U : U = Grown(L, T, binder)
  OBVIOUS
<1>7. /\ Log(A, U) /\ Kept(A, U) /\ U[n + 1] = table' /\ \A m \in 0 .. n : U[m] = T[m]
  BY <1>3, <1>4, <1>5, <1>6, GrownLog
<1>8. Len(A) = n + 1 /\ A[n + 1] = binder
  BY <1>3, <1>4, Lengthened
<1>9. Marks(A, M)
  BY <1>2, <1>3, <1>4, <1>5, MarksKept
<1>10. Opened(U, M, Base')
  <2>1. Base' = Base
    BY <1>1 DEF Base, Idle
  <2>2. M \in Seq(1 .. n)
    BY <1>4 DEF Marks
  <2>3. \A m \in 0 .. n - 1 : U[m] = T[m]
    BY <1>4, <1>7
  <2> QED
    BY <1>4, <2>1, <2>2, <2>3, OpenedAlike
<1>11. TopOf(A, n + 1) = s
  BY <1>4, <1>5, <1>8 DEF TopOf
<1>12. calls' = <<>>
  BY <1>1 DEF Idle
<1>13. Logged(A, U, M)'
  <2> HIDE DEF n
  <2> QED
    BY <1>1, <1>3, <1>7, <1>8, <1>9, <1>10, <1>11, <1>12, LoggedOutside
<1>14. TypeOK'
  BY <1>1, <1>3 DEF TypeOK, Buckets
<1>15. Modes'
  BY <1>1 DEF Modes
<1>16. Visible' = [Visible EXCEPT ![s] = v]
  <2>1. Visible' = VisibleIn(table')
    BY <1>1, VisibleNext
  <2>2. VisibleIn(table') = [q \in Symbol |-> IF q = s THEN v ELSE VisibleIn(table)[q]]
    BY <1>3, <1>4, <1>5, EnterVisible
  <2>3. VisibleIn(table) \in [Symbol -> Value \cup {NULL}] /\ Visible = VisibleIn(table)
    BY <1>4, VisibleType, VisibleIsVisibleIn
  <2> QED
    BY <2>1, <2>2, <2>3
<1> QED
  BY <1>13, <1>14, <1>15, <1>16 DEF SInv

LEMMA S_beginScopeStep ==
  ASSUME TypeOK, Modes, NEW L, NEW T, NEW M, Logged(L, T, M), S_beginScope
  PROVE  SInv' /\ Visible' = Visible
<1> DEFINE n == Len(L)
<1> PICK binder : binder = [key |-> marksym, value |-> NULL, prevtop |-> top]
  OBVIOUS
<1> PICK A : A = Append(L, binder)
  OBVIOUS
<1>1. /\ Idle /\ Enter(marksym, NULL) /\ hash' = hash /\ closing' = closing /\ calls' = calls
      /\ showing' = showing /\ saved' = Append(saved, Visible)
  BY DEF S_beginScope
<1>2. marksym \in Key /\ NULL \in Value \cup {NULL}
  BY DEF Key
<1>3. /\ binder \in Binder /\ table' = With(table, binder) /\ table' \in Buckets
      /\ top' = marksym /\ top' \in Key \cup {NULL}
  BY <1>1, <1>2, EnterType
<1>4. /\ hash \in [Key -> Bucket]
      /\ Log(L, T) /\ Kept(L, T) /\ Marks(L, M) /\ Opened(T, M, Base) /\ Base = saved
      /\ table = T[n] /\ table \in Buckets /\ top = TopOf(L, n) /\ n \in Nat /\ L \in Seq(Binder)
      /\ Visible = VisibleIn(T[n]) /\ Visible \in [Symbol -> Value \cup {NULL}]
  BY <1>1, Reading, LogTypes DEF Idle
<1>5. binder.key = marksym /\ binder.value = NULL /\ binder.prevtop = top
  OBVIOUS
<1>6. PICK U : U = Grown(L, T, binder)
  OBVIOUS
<1>7. /\ Log(A, U) /\ Kept(A, U) /\ U[n + 1] = table' /\ \A m \in 0 .. n : U[m] = T[m]
  BY <1>3, <1>4, <1>5, <1>6, GrownLog
<1>8. Len(A) = n + 1 /\ A[n + 1] = binder
  BY <1>3, <1>4, Lengthened
<1>9. PICK N : N = Append(M, n + 1)
  OBVIOUS
<1>10. Marks(A, N)
  BY <1>3, <1>4, <1>5, <1>9, MarkAdded
<1>11. saved \in Seq([Symbol -> Value \cup {NULL}])
  BY DEF TypeOK
<1>12. /\ saved' \in Seq([Symbol -> Value \cup {NULL}])
       /\ Len(saved') = Len(saved) + 1 /\ saved'[Len(saved) + 1] = Visible
       /\ \A i \in 1 .. Len(saved) : saved'[i] = saved[i]
  BY <1>1, <1>4, <1>11, Lengthened
<1>13. Base' = saved'
  BY <1>1 DEF Base, Idle
<1>14. Opened(U, N, Base')
  <2>1. M \in Seq(1 .. n) /\ Len(M) \in Nat
    BY <1>4 DEF Marks
  <2>2. \A m \in 0 .. n - 1 : U[m] = T[m]
    BY <1>4, <1>7
  <2>3. Opened(U, M, saved)
    BY <1>4, <2>1, <2>2, OpenedAlike
  <2>4. /\ Len(N) = Len(M) + 1 /\ N[Len(M) + 1] = n + 1
        /\ \A a \in 1 .. Len(M) : N[a] = M[a]
    <3>1. 1 .. n \subseteq 1 .. n + 1 /\ n + 1 \in 1 .. n + 1
      BY <1>4
    <3>2. M \in Seq(1 .. n + 1)
      BY <2>1, <3>1, SeqMonotonic
    <3> QED
      BY <1>9, <3>1, <3>2, Lengthened
  <2>5. Len(saved') = Len(N) /\ Len(saved) = Len(M)
    BY <1>12, <2>3, <2>4 DEF Opened
  <2>6. \A a \in 1 .. Len(N) : saved'[a] = VisibleIn(U[N[a] - 1])
    <3> TAKE a \in 1 .. Len(N)
    <3>1. CASE a \in 1 .. Len(M)
      <4>1. saved[a] = VisibleIn(U[M[a] - 1])
        BY <2>3, <3>1 DEF Opened
      <4> QED
        BY <1>12, <2>4, <2>5, <3>1, <4>1
    <3>2. CASE a = Len(M) + 1
      <4>1. N[a] - 1 = n /\ U[n] = T[n]
        BY <1>4, <1>7, <2>4, <3>2
      <4>2. saved'[a] = VisibleIn(T[n])
        BY <1>4, <1>12, <2>5, <3>2
      <4> QED
        BY <4>1, <4>2
    <3> QED
      BY <2>1, <2>4, <3>1, <3>2
  <2> QED
    BY <1>13, <2>5, <2>6 DEF Opened
<1>15. TopOf(A, n + 1) = marksym
  BY <1>4, <1>5, <1>8 DEF TopOf
<1>16. calls' = <<>>
  BY <1>1 DEF Idle
<1>17. Logged(A, U, N)'
  <2> HIDE DEF n
  <2> QED
    BY <1>1, <1>3, <1>7, <1>8, <1>10, <1>14, <1>15, <1>16, LoggedOutside
<1>18. TypeOK'
  BY <1>1, <1>3, <1>12 DEF TypeOK, Buckets
<1>19. Modes'
  BY <1>1 DEF Modes, Idle
<1>20. Visible' = Visible
  BY <1>1, <1>3, <1>4, <1>5, MarkUnseen, VisibleNext
<1> QED
  BY <1>17, <1>18, <1>19, <1>20 DEF SInv

LEMMA S_endScopeStep ==
  ASSUME TypeOK, Modes, NEW L, NEW T, NEW M, Logged(L, T, M), S_endScope
  PROVE  SInv'
<1>1. /\ Idle /\ saved # <<>> /\ closing' = TRUE /\ saved' = Append(saved, Visible)
      /\ hash' = hash /\ table' = table /\ top' = top /\ calls' = calls /\ showing' = showing
  BY DEF S_endScope
<1>2. /\ Log(L, T) /\ Kept(L, T) /\ Marks(L, M) /\ Opened(T, M, saved)
      /\ table = T[Len(L)] /\ top = TopOf(L, Len(L))
      /\ Visible \in [Symbol -> Value \cup {NULL}]
  BY <1>1, Reading DEF Idle
<1>3. saved \in Seq([Symbol -> Value \cup {NULL}])
  BY DEF TypeOK
<1>4. /\ saved' \in Seq([Symbol -> Value \cup {NULL}])
      /\ Len(saved') = Len(saved) + 1 /\ Front(saved') = saved
  BY <1>1, <1>2, <1>3, Lengthened
<1>5. Base' = saved
  BY <1>1, <1>4 DEF Base, Idle
<1>6. Logged(L, T, M)'
  BY <1>1, <1>2, <1>5, LoggedOutside DEF Idle
<1>7. TypeOK'
  BY <1>1, <1>4 DEF TypeOK
<1>8. Modes'
  <2>1. Len(saved) >= 1
    BY <1>1, <1>3, EmptySeq
  <2>2. Len(saved) \in Nat
    BY <1>3
  <2> QED
    BY <1>1, <1>4, <2>1, <2>2 DEF Modes, Idle
<1> QED
  BY <1>6, <1>7, <1>8 DEF SInv

\* The loop of S_endScope ends at the mark, and what is seen then was seen before it.
LEMMA TAB_popStep ==
  ASSUME TypeOK, Modes, NEW L, NEW T, NEW M, Logged(L, T, M), TAB_pop
  PROVE  /\ SInv'
         /\ Head(table[hash[top]]).key = marksym => Visible' = Last(Front(saved))
<1> DEFINE n == Len(L)
<1> PICK F : F = Front(L)
  OBVIOUS
<1>1. /\ closing /\ Unlink /\ hash' = hash /\ calls' = calls /\ showing' = showing
  BY DEF TAB_pop
<1>2. /\ hash \in [Key -> Bucket]
      /\ Log(L, T) /\ Kept(L, T) /\ Marks(L, M) /\ Opened(T, M, Base)
      /\ calls = <<>> /\ Base = Front(saved)
      /\ table = T[n] /\ top = TopOf(L, n) /\ n \in Nat /\ L \in Seq(Binder)
  BY <1>1, Reading, LogTypes
<1>3. /\ saved \in Seq([Symbol -> Value \cup {NULL}]) /\ Len(saved) >= 2 /\ saved # <<>>
      /\ Front(saved) \in Seq([Symbol -> Value \cup {NULL}])
      /\ Len(Front(saved)) = Len(saved) - 1 /\ Len(Front(saved)) >= 1 /\ Front(saved) # <<>>
  <2>1. saved \in Seq([Symbol -> Value \cup {NULL}]) /\ Len(saved) >= 2
    BY <1>1 DEF TypeOK, Modes
  <2>2. saved # <<>> /\ Len(saved) \in Nat
    BY <2>1, EmptySeq
  <2>3. /\ Front(saved) \in Seq([Symbol -> Value \cup {NULL}])
        /\ Len(Front(saved)) = Len(saved) - 1
    BY <2>1, <2>2, Shortened
  <2>4. Len(Front(saved)) >= 1
    BY <2>1, <2>2, <2>3
  <2>5. Front(saved) # <<>>
    BY <2>4, EmptySeq
  <2> QED
    BY <2>1, <2>2, <2>3, <2>4, <2>5
<1>4. n > 0 /\ L # <<>>
  <2>1. Len(M) >= 1
    BY <1>2, <1>3 DEF Opened
  <2>2. M \in Seq(1 .. n)
    BY <1>2 DEF Marks
  <2>3. M[1] \in 1 .. n
    BY <2>1, <2>2, ElementOfSeq
  <2>4. n > 0
    BY <1>2, <2>3
  <2> QED
    BY <1>2, <2>4, EmptySeq
<1>5. /\ Head(table[hash[top]]) = L[n] /\ table' = T[n - 1] /\ top' = TopOf(L, n - 1)
  <2>1. n \in 0 .. Len(L)
    BY <1>2
  <2> QED
    BY <1>1, <1>2, <1>4, <2>1, Behind
<1>6. PICK U : U = Shrunk(L, T)
  OBVIOUS
<1>7. Log(F, U) /\ Kept(F, U) /\ \A m \in 0 .. n - 1 : U[m] = T[m]
  BY <1>2, <1>4, <1>6, ShrunkLog
<1>8. Len(F) = n - 1 /\ \A i \in 1 .. n - 1 : F[i] = L[i]
  BY <1>2, <1>4, Shortened
<1>9. table' = U[Len(F)] /\ top' = TopOf(F, Len(F))
  BY <1>2, <1>4, <1>5, <1>7, <1>8 DEF TopOf
<1>10. table' \in [Bucket -> Seq(Binder)] /\ top' \in Key \cup {NULL}
  <2>1. n - 1 \in 0 .. n
    BY <1>2, <1>4
  <2> QED
    BY <1>2, <1>5, <2>1, LogTypes DEF Buckets
<1>11. CASE L[n].key = marksym
  <2>1. closing' = FALSE /\ saved' = Front(Front(saved))
    BY <1>5, <1>11 DEF TAB_pop
  <2>2. Base' = Front(Front(saved))
    BY <1>1, <1>2, <2>1 DEF Base, Idle
  <2>3. PICK N : N = Front(M)
    OBVIOUS
  <2>4. M # <<>> /\ M[Len(M)] = n /\ Marks(F, N)
    BY <1>2, <1>4, <1>11, <2>3, MarkTaken
  <2>5. M \in Seq(1 .. n)
    BY <1>2 DEF Marks
  <2>6. /\ Len(M) \in Nat \ {0} /\ Len(N) = Len(M) - 1
        /\ \A a \in 1 .. Len(M) - 1 : N[a] = M[a]
    BY <2>3, <2>4, <2>5, Shortened
  <2>7. Opened(T, M, Front(saved)) /\ Len(Front(saved)) = Len(M)
    BY <1>2 DEF Opened
  <2>8. Opened(U, M, Front(saved))
    BY <1>2, <1>7, <2>5, <2>7, OpenedAlike
  <2>9. /\ Front(Front(saved)) \in Seq([Symbol -> Value \cup {NULL}])
        /\ Len(Front(Front(saved))) = Len(M) - 1
        /\ \A a \in 1 .. Len(M) - 1 : Front(Front(saved))[a] = Front(saved)[a]
    <3>1. /\ Front(Front(saved)) \in Seq([Symbol -> Value \cup {NULL}])
          /\ Len(Front(Front(saved))) = Len(Front(saved)) - 1
          /\ \A a \in 1 .. Len(Front(saved)) - 1 : Front(Front(saved))[a] = Front(saved)[a]
      BY <1>3, Shortened
    <3> QED
      BY <2>7, <3>1
  <2>10. Opened(U, N, Base')
    <3>1. \A a \in 1 .. Len(N) : a \in 1 .. Len(M) - 1 /\ a \in 1 .. Len(M)
      BY <2>6
    <3>2. \A a \in 1 .. Len(M) : Front(saved)[a] = VisibleIn(U[M[a] - 1])
      BY <2>8 DEF Opened
    <3>3. \A a \in 1 .. Len(N) : Front(Front(saved))[a] = VisibleIn(U[N[a] - 1])
      BY <2>6, <2>9, <3>1, <3>2
    <3> QED
      BY <2>2, <2>6, <2>9, <3>3 DEF Opened
  <2>11. Logged(F, U, N)'
    <3> HIDE DEF n
    <3> QED
      BY <1>1, <1>2, <1>7, <1>9, <2>4, <2>10, LoggedOutside
  <2>12. TypeOK'
    BY <1>1, <1>10, <2>1, <2>9 DEF TypeOK
  <2>13. Modes'
    BY <1>1, <1>2, <2>1 DEF Modes
  <2>14. Visible' = Last(Front(saved))
    <3>1. Visible' = VisibleIn(T[n - 1])
      BY <1>1, <1>5, VisibleNext
    <3>2. Len(M) \in 1 .. Len(M)
      BY <2>6
    <3>3. Front(saved)[Len(M)] = VisibleIn(T[M[Len(M)] - 1])
      BY <2>7, <3>2 DEF Opened
    <3> QED
      BY <2>4, <2>7, <3>1, <3>3 DEF Last
  <2> QED
    BY <2>11, <2>12, <2>13, <2>14 DEF SInv
<1>12. CASE L[n].key # marksym
  <2>1. closing' = closing /\ saved' = saved
    BY <1>5, <1>12 DEF TAB_pop
  <2>2. Base' = Base
    BY <1>1, <2>1 DEF Base, Idle
  <2>3. Marks(F, M)
    BY <1>2, <1>4, <1>12, MarksLeft
  <2>4. M \in Seq(1 .. n)
    BY <1>2 DEF Marks
  <2>5. Opened(U, M, Base')
    BY <1>2, <1>7, <2>2, <2>4, OpenedAlike
  <2>6. Logged(F, U, M)'
    <3> HIDE DEF n
    <3> QED
      BY <1>1, <1>2, <1>7, <1>9, <2>3, <2>5, LoggedOutside
  <2>7. TypeOK'
    BY <1>1, <1>10, <2>1 DEF TypeOK
  <2>8. Modes'
    BY <1>1, <1>2, <2>1 DEF Modes
  <2> QED
    BY <1>5, <1>12, <2>6, <2>7, <2>8 DEF SInv
<1> QED
  BY <1>11, <1>12

-----------------------------------------------------------------------------
\* One call more of TAB_dump goes one binder further down the log.
LEMMA TakeAndShowStep ==
  ASSUME TypeOK, Modes, NEW L, NEW T, NEW M, Logged(L, T, M), TakeAndShow,
         Base' = Base, Last(saved') = VisibleIn(T[Len(L)])
  PROVE  /\ Logged(L, T, M)'
         /\ calls' \in Seq(Call) /\ calls' # <<>>
         /\ table' \in [Bucket -> Seq(Binder)] /\ top' \in Key \cup {NULL}
<1> DEFINE n == Len(L)
           d == Depth(L)
           call == [k |-> top, b |-> Head(table[BucketOf(top)]), next |-> Tail(table[BucketOf(top)])]
<1>1. /\ table[BucketOf(top)] # <<>> /\ Unlink /\ hash' = hash
      /\ calls' = Append(calls, call)
  BY DEF TakeAndShow
<1>2. /\ hash \in [Key -> Bucket]
      /\ Log(L, T) /\ d \in 0 .. n /\ table = T[d] /\ top = TopOf(L, d)
      /\ n \in Nat /\ L \in Seq(Binder) /\ Dumping(L, T)
  BY Reading, LogTypes
<1>3. calls \in Seq(Call) /\ Len(calls) \in Nat /\ d = n - Len(calls)
  BY DEF TypeOK, Depth
<1>4. /\ d > 0
      /\ top = L[d].key /\ top \in Key
      /\ Head(table[BucketOf(top)]) = L[d]
      /\ Tail(table[BucketOf(top)]) = T[d - 1][hash[top]]
      /\ table' = T[d - 1] /\ top' = TopOf(L, d - 1)
  <2> HIDE DEF d
  <2>1. d > 0
    BY <1>1, <1>2, Behind
  <2> QED
    BY <1>1, <1>2, <2>1, Behind
<1>5. call.k = top /\ call.b = L[d] /\ call.next = T[d - 1][hash[top]]
  BY <1>4
<1>6. L[d] \in Binder /\ d - 1 \in 0 .. n /\ T[d - 1] \in Buckets /\ hash[top] \in Bucket
  <2>1. d \in 1 .. n /\ d - 1 \in 0 .. n
    <3> HIDE DEF d
    <3> QED
      BY <1>2, <1>4
  <2> QED
    BY <1>2, <1>4, <2>1, LogTypes
<1>7. call \in Call
  BY <1>4, <1>6 DEF Call, Buckets
<1> HIDE DEF call
<1>8. /\ calls' \in Seq(Call) /\ Len(calls') = Len(calls) + 1
      /\ \A c \in 1 .. Len(calls) : calls'[c] = calls[c]
      /\ calls'[Len(calls) + 1] = call
  BY <1>1, <1>3, <1>7, Lengthened
<1>9. n - Len(calls') = d - 1 /\ Len(calls') <= n /\ n - (Len(calls) + 1) + 1 = d
  <2> HIDE DEF d
  <2> QED
    BY <1>2, <1>3, <1>4, <1>8
<1>10. \A c \in 1 .. Len(calls') : /\ calls'[c].b = L[n - c + 1]
                                   /\ calls'[c].k = L[n - c + 1].key
                                   /\ calls'[c].next = T[n - c][hash[calls'[c].k]]
  <2> TAKE c \in 1 .. Len(calls')
  <2>1. CASE c \in 1 .. Len(calls)
    <3>1. /\ calls[c].b = L[n - c + 1]
          /\ calls[c].k = L[n - c + 1].key
          /\ calls[c].next = T[n - c][hash[calls[c].k]]
      BY <1>2, <2>1 DEF Dumping
    <3> QED
      BY <1>8, <2>1, <3>1
  <2>2. CASE c = Len(calls) + 1
    <3>1. n - c + 1 = d /\ n - c = d - 1
      BY <1>8, <1>9, <2>2
    <3> QED
      BY <1>4, <1>5, <1>8, <2>2, <3>1
  <2> QED
    BY <1>3, <1>8, <2>1, <2>2
<1>11. Logged(L, T, M)'
  <2> HIDE DEF n, d
  <2>1. table' = T[n - Len(calls')] /\ top' = TopOf(L, n - Len(calls'))
    BY <1>4, <1>9
  <2> QED
    BY <1>1, <1>9, <1>10, <2>1, LoggedWithin DEF n
<1>12. table' \in [Bucket -> Seq(Binder)] /\ top' \in Key \cup {NULL}
  BY <1>2, <1>4, <1>6, LogTypes DEF Buckets
<1>13. calls' # <<>>
  BY <1>3, <1>8, EmptySeq
<1> QED
  BY <1>8, <1>11, <1>12, <1>13

LEMMA TAB_dumpStep ==
  ASSUME TypeOK, Modes, NEW L, NEW T, NEW M, Logged(L, T, M), TAB_dump
  PROVE  SInv' /\ ~Idle'
<1>1. /\ Idle /\ TakeAndShow /\ showing' = TRUE /\ saved' = Append(saved, Visible)
      /\ hash' = hash /\ closing' = closing
  BY DEF TAB_dump, TakeAndShow
<1>2. /\ Base = saved /\ Visible = VisibleIn(T[Len(L)])
      /\ Visible \in [Symbol -> Value \cup {NULL}]
  BY <1>1, Reading DEF Idle
<1>3. saved \in Seq([Symbol -> Value \cup {NULL}]) /\ Len(saved) \in Nat
  BY DEF TypeOK
<1>4. /\ saved' \in Seq([Symbol -> Value \cup {NULL}]) /\ Len(saved') = Len(saved) + 1
      /\ Front(saved') = saved /\ Last(saved') = Visible
  BY <1>1, <1>2, <1>3, Lengthened
<1>5. calls' # <<>>
  <2>1. calls \in Seq(Call)
    BY DEF TypeOK
  <2> QED
    BY <1>1, <2>1 DEF TakeAndShow
<1>6. ~Idle' /\ Base' = Base
  BY <1>2, <1>4, <1>5 DEF Base, Idle
<1>7. /\ Logged(L, T, M)'
      /\ calls' \in Seq(Call)
      /\ table' \in [Bucket -> Seq(Binder)] /\ top' \in Key \cup {NULL}
  BY <1>1, <1>2, <1>4, <1>6, TakeAndShowStep
<1>8. TypeOK'
  BY <1>1, <1>4, <1>7 DEF TypeOK
<1>9. Modes'
  BY <1>1, <1>3, <1>4, <1>5 DEF Modes, Idle
<1> QED
  BY <1>6, <1>7, <1>8, <1>9 DEF SInv

LEMMA DumpRestStep ==
  ASSUME TypeOK, Modes, NEW L, NEW T, NEW M, Logged(L, T, M), DumpRest
  PROVE  SInv' /\ ~Idle /\ ~Idle'
<1>1. /\ showing /\ TakeAndShow /\ showing' = showing /\ saved' = saved
      /\ hash' = hash /\ closing' = closing
  BY DEF DumpRest, TakeAndShow
<1>2. calls # <<>> /\ calls \in Seq(Call)
  BY <1>1 DEF Modes, TypeOK
<1>3. calls' # <<>>
  BY <1>1, <1>2 DEF TakeAndShow
<1>4. ~Idle /\ ~Idle' /\ Base' = Base
  BY <1>1, <1>2, <1>3 DEF Base, Idle
<1>5. Last(saved') = VisibleIn(T[Len(L)])
  BY <1>1, <1>2, Reading DEF Dumping
<1>6. /\ Logged(L, T, M)'
      /\ calls' \in Seq(Call)
      /\ table' \in [Bucket -> Seq(Binder)] /\ top' \in Key \cup {NULL}
  BY <1>1, <1>4, <1>5, TakeAndShowStep
<1>7. TypeOK'
  BY <1>1, <1>6 DEF TypeOK
<1>8. Modes'
  BY <1>1, <1>2, <1>3 DEF Modes
<1> QED
  BY <1>4, <1>6, <1>7, <1>8 DEF SInv

\* A step that changes no more than showing.
LEMMA NothingLeftStep ==
  ASSUME TypeOK, Modes, NEW L, NEW T, NEW M, Logged(L, T, M),
         UNCHANGED <<hash, table, top, closing, calls, saved>>,
         showing' = FALSE \/ showing' = showing
  PROVE  SInv' /\ Visible' = Visible /\ (Idle' <=> Idle)
<1>1. /\ hash' = hash /\ table' = table /\ top' = top /\ closing' = closing
      /\ calls' = calls /\ saved' = saved
  OBVIOUS
<1>2. Base' = Base /\ (Idle' <=> Idle)
  BY <1>1 DEF Base, Idle
<1>3. /\ Dumping(L, T) /\ table = T[Depth(L)] /\ top = TopOf(L, Depth(L))
  BY Reading
<1>4. Logged(L, T, M)'
  BY <1>1, <1>2, <1>3, LoggedWithin DEF Dumping, Depth
<1>5. TypeOK'
  BY <1>1 DEF TypeOK
<1>6. Modes'
  BY <1>1 DEF Modes
<1>7. Visible' = Visible
  BY <1>1, VisibleIsVisibleIn, VisibleNext
<1> QED
  BY <1>2, <1>4, <1>5, <1>6, <1>7 DEF SInv

\* Each return of TAB_dump links one binder again.
LEMMA PutBackStep ==
  ASSUME TypeOK, Modes, NEW L, NEW T, NEW M, Logged(L, T, M), PutBack
  PROVE  /\ SInv' /\ ~Idle /\ saved # <<>>
         /\ IF Len(calls) = 1 THEN Idle' /\ saved' = Front(saved) /\ Visible' = Last(saved)
                              ELSE ~Idle' /\ saved' = saved
<1> DEFINE n == Len(L)
           d == Depth(L)
           c == Len(calls)
           call == calls[c]
<1>1. /\ calls # <<>> /\ ~showing
      /\ table' = [table EXCEPT ![BucketOf(call.k)] = <<call.b>> \o call.next]
      /\ top' = call.k /\ calls' = Front(calls)
      /\ saved' = IF Len(calls) = 1 THEN Front(saved) ELSE saved
      /\ hash' = hash /\ closing' = closing /\ showing' = showing
  BY DEF PutBack, Last
<1>2. /\ hash \in [Key -> Bucket]
      /\ Log(L, T) /\ d \in 0 .. n /\ table = T[d] /\ T[d] \in Buckets /\ Dumping(L, T)
      /\ Base = Front(saved)
      /\ n \in Nat /\ L \in Seq(Binder) /\ ~closing
  BY <1>1, Reading, LogTypes
<1>3. /\ calls \in Seq(Call) /\ c \in Nat \ {0} /\ d = n - c
      /\ Front(calls) \in Seq(Call) /\ Len(Front(calls)) = c - 1
      /\ \A e \in 1 .. c - 1 : Front(calls)[e] = calls[e]
  <2>1. calls \in Seq(Call)
    BY DEF TypeOK
  <2> QED
    BY <1>1, <2>1, Shortened DEF Depth
<1>4. d + 1 \in 1 .. n /\ n - c + 1 = d + 1 /\ (d + 1) - 1 = d /\ c <= n
  <2> HIDE DEF n, d, c
  <2> QED
    BY <1>2, <1>3
<1>5. call.b = L[d + 1] /\ call.k = L[d + 1].key /\ call.next = T[d][hash[call.k]]
  <2>1. c \in 1 .. Len(calls)
    BY <1>3
  <2>2. /\ call.b = L[n - c + 1] /\ call.k = L[n - c + 1].key
        /\ call.next = T[n - c][hash[call.k]]
    BY <1>2, <2>1 DEF Dumping
  <2> QED
    BY <1>3, <1>4, <2>2
<1>6. L[d + 1] \in Binder /\ L[d + 1].key \in Key /\ L[d + 1].key # NULL
  BY <1>2, <1>4, LogTypes
<1>7. T[d + 1] = With(T[d], L[d + 1])
  BY <1>2, <1>4 DEF Log
<1>8. table' = T[d + 1]
  <2>1. BucketOf(call.k) = hash[L[d + 1].key]
    BY <1>5, <1>6 DEF BucketOf
  <2>2. table' = [T[d] EXCEPT ![hash[L[d + 1].key]] = <<L[d + 1]>> \o T[d][hash[L[d + 1].key]]]
    BY <1>1, <1>2, <1>5, <2>1
  <2> QED
    BY <1>7, <2>2 DEF With
<1>9. top' = TopOf(L, d + 1)
  <2>1. d + 1 # 0
    BY <1>4
  <2> QED
    BY <1>1, <1>5, <2>1 DEF TopOf
<1>10. /\ Len(calls') = c - 1 /\ Len(calls') <= n /\ n - Len(calls') = d + 1
       /\ calls' \in Seq(Call)
       /\ \A e \in 1 .. Len(calls') : calls'[e] = calls[e] /\ e \in 1 .. Len(calls)
  <2>1. Len(calls') = c - 1 /\ calls' \in Seq(Call)
        /\ \A e \in 1 .. Len(calls') : calls'[e] = calls[e] /\ e \in 1 .. Len(calls)
    BY <1>1, <1>3
  <2>2. Len(calls') <= n /\ n - Len(calls') = d + 1
    <3> HIDE DEF n, d, c
    <3> QED
      BY <1>2, <1>3, <1>4, <2>1
  <2> QED
    BY <2>1, <2>2
<1>11. /\ saved \in Seq([Symbol -> Value \cup {NULL}]) /\ saved # <<>>
       /\ Front(saved) \in Seq([Symbol -> Value \cup {NULL}])
       /\ Len(saved) \in Nat /\ Len(saved) >= 1
  <2>1. saved \in Seq([Symbol -> Value \cup {NULL}]) /\ Len(saved) >= 1
    BY <1>1 DEF TypeOK, Modes
  <2>2. saved # <<>>
    BY <2>1, EmptySeq
  <2> QED
    BY <2>1, <2>2, Shortened
<1>12. c = 1 <=> calls' = <<>>
  <2> HIDE DEF c
  <2> QED
    BY <1>3, <1>10, EmptySeq
<1>13. ~Idle /\ Base' = Base
       /\ IF c = 1 THEN Idle' /\ saved' = Front(saved) ELSE ~Idle' /\ saved' = saved
  BY <1>1, <1>2, <1>12 DEF Base, Idle
<1>14. \A e \in 1 .. Len(calls') : /\ calls'[e].b = L[n - e + 1]
                                   /\ calls'[e].k = L[n - e + 1].key
                                   /\ calls'[e].next = T[n - e][hash[calls'[e].k]]
  BY <1>2, <1>10 DEF Dumping
<1>15. Last(saved) = VisibleIn(T[n])
  BY <1>1, <1>2 DEF Dumping
<1>16. Logged(L, T, M)'
  <2>1. table' = T[n - Len(calls')] /\ top' = TopOf(L, n - Len(calls'))
    BY <1>8, <1>9, <1>10
  <2>2. calls' # <<>> => Last(saved') = VisibleIn(T[n])
    BY <1>12, <1>13, <1>15
  <2>3. Len(calls') <= n
    BY <1>10
  <2> HIDE DEF c, d
  <2> QED
    BY <1>1, <1>13, <1>14, <2>1, <2>2, <2>3, LoggedWithin DEF n
<1>17. TypeOK'
  <2>1. d + 1 \in 0 .. n
    BY <1>4
  <2>2. table' \in [Bucket -> Seq(Binder)] /\ top' \in Key \cup {NULL}
    BY <1>2, <1>8, <1>9, <2>1, LogTypes DEF Buckets
  <2>3. saved' \in Seq([Symbol -> Value \cup {NULL}])
    BY <1>1, <1>11
  <2> QED
    BY <1>1, <1>10, <2>2, <2>3 DEF TypeOK
<1>18. Modes'
  <2>1. calls' # <<>> => Len(saved') >= 1
    BY <1>11, <1>12, <1>13
  <2> QED
    BY <1>1, <1>2, <2>1 DEF Modes
<1>19. c = 1 => Visible' = Last(saved)
  <2>1. c = 1 => d + 1 = n
    <3> HIDE DEF n, d, c
    <3> QED
      BY <1>2, <1>3
  <2> QED
    BY <1>1, <1>8, <1>15, <2>1, VisibleNext
<1> QED
  BY <1>11, <1>13, <1>16, <1>17, <1>18, <1>19 DEF SInv

-----------------------------------------------------------------------------
LEMMA InitInv ==
  ASSUME Init
  PROVE  SInv
<1>1. /\ hash \in [Key -> Bucket] /\ table = Empty /\ top = NULL /\ closing = FALSE
      /\ calls = <<>> /\ showing = FALSE /\ saved = <<>>
  BY DEF Init, Empty
<1>2. TypeOK
  <2>1. calls \in Seq(Call)
    BY <1>1
  <2>2. saved \in Seq([Symbol -> Value \cup {NULL}])
    BY <1>1
  <2>3. table \in [Bucket -> Seq(Binder)]
    BY <1>1, EmptyTable DEF Buckets
  <2> QED
    BY <1>1, <2>1, <2>2, <2>3 DEF TypeOK
<1>3. Modes
  BY <1>1 DEF Modes
<1>4. PICK T : T = [m \in 0 .. 0 |-> Empty]
  OBVIOUS
<1>5. 0 \in 0 .. 0 /\ 1 .. 0 = {} /\ Len(<<>>) = 0
  OBVIOUS
<1>6. T[0] = Empty /\ T \in [0 .. 0 -> Buckets]
  BY <1>4, <1>5, EmptyTable
<1>7. Log(<<>>, T)
  BY <1>5, <1>6 DEF Log
<1>8. Kept(<<>>, T)
  BY <1>5 DEF Kept
<1>9. Marks(<<>>, <<>>)
  BY <1>5 DEF Marks
<1>10. Opened(T, <<>>, Base)
  BY <1>1, <1>5 DEF Opened, Base, Idle
<1>11. Dumping(<<>>, T)
  BY <1>1, <1>5 DEF Dumping
<1>12. Current(<<>>, T)
  <2>1. Depth(<<>>) = 0
    BY <1>1, <1>5 DEF Depth
  <2> QED
    BY <1>1, <1>6, <2>1 DEF Current, TopOf
<1>13. Logged(<<>>, T, <<>>)
  BY <1>7, <1>8, <1>9, <1>10, <1>11, <1>12 DEF Logged
<1> QED
  BY <1>2, <1>3, <1>13 DEF SInv

LEMMA NextInv ==
  ASSUME SInv, [Next]_vars
  PROVE  SInv'
<1>1. PICK L, T, M : Logged(L, T, M)
  BY DEF SInv
<1>2. TypeOK /\ Modes
  BY DEF SInv
<1>3. ASSUME NEW s \in Symbol, NEW v \in Value, S_enter(s, v) PROVE SInv'
  BY <1>1, <1>2, <1>3, S_enterStep
<1>4. CASE S_beginScope
  BY <1>1, <1>2, <1>4, S_beginScopeStep
<1>5. CASE S_endScope
  BY <1>1, <1>2, <1>5, S_endScopeStep
<1>6. CASE TAB_pop
  BY <1>1, <1>2, <1>6, TAB_popStep
<1>7. CASE TAB_dump
  BY <1>1, <1>2, <1>7, TAB_dumpStep
<1>8. CASE DumpRest
  BY <1>1, <1>2, <1>8, DumpRestStep
<1>9. CASE NothingLeft
  <2>1. UNCHANGED <<hash, table, top, closing, calls, saved>> /\ showing' = FALSE
    BY <1>9 DEF NothingLeft
  <2> QED
    BY <1>1, <1>2, <2>1, NothingLeftStep
<1>10. CASE PutBack
  BY <1>1, <1>2, <1>10, PutBackStep
<1>11. CASE UNCHANGED vars
  <2>1. UNCHANGED <<hash, table, top, closing, calls, saved>> /\ showing' = showing
    BY <1>11 DEF vars
  <2> QED
    BY <1>1, <1>2, <2>1, NothingLeftStep
<1> QED
  BY <1>3, <1>4, <1>5, <1>6, <1>7, <1>8, <1>9, <1>10, <1>11 DEF Next

(***************************************************************************)
(* At all times the table is what entering the binders of a log, one after *)
(* the other, makes of the empty table (table.c: TAB_enter undone by       *)
(* TAB_pop and, call by call, by TAB_dump).                                *)
(***************************************************************************)
THEOREM SymbolTableInvariance == Spec => []SInv
<1>1. Init => SInv
  BY InitInv
<1>2. SInv /\ [Next]_vars => SInv'
  BY NextInv
<1> QED
  BY <1>1, <1>2, PTL DEF Spec

\* Every variable of the table, of the loop of S_endScope and of TAB_dump has its type.
THEOREM SymbolTableTypeCorrect == Spec => []TypeOK
<1>1. SInv => TypeOK
  BY DEF SInv
<1> QED
  BY <1>1, SymbolTableInvariance, PTL

LEMMA InvPops ==
  ASSUME SInv
  PROVE  PopsFindTheirKey
<1>1. PICK L, T, M : TypeOK /\ Modes /\ Logged(L, T, M)
  BY DEF SInv
<1> DEFINE d == Depth(L)
<1>2. /\ hash \in [Key -> Bucket]
      /\ Log(L, T) /\ Kept(L, T) /\ Marks(L, M) /\ Opened(T, M, Base)
      /\ d \in 0 .. Len(L) /\ table = T[d] /\ top = TopOf(L, d)
      /\ (calls = <<>> => d = Len(L))
      /\ (closing => calls = <<>> /\ Base = Front(saved))
  BY <1>1, Reading
<1> HIDE DEF d
<1>3. top # NULL => table[hash[top]] # <<>> /\ Head(table[hash[top]]).key = top
  <2>1. d = 0 => top = NULL
    BY <1>2, Behind
  <2>2. d > 0 => /\ table[hash[top]] # <<>> /\ Head(table[hash[top]]) = L[d]
                 /\ top = L[d].key
    BY <1>2, Behind
  <2>3. Len(L) \in Nat
    BY <1>2, LogTypes
  <2> QED
    BY <1>2, <2>1, <2>2, <2>3
<1>4. top = NULL => \A b \in Bucket : table[b] = <<>>
  <2>1. top = NULL => d = 0
    BY <1>2, LogTypes
  <2>2. d = 0 => table = Empty
    BY <1>2, Behind
  <2> QED
    BY <2>1, <2>2, EmptyTable
<1>5. ASSUME closing
      PROVE  \E p \in DOMAIN table[hash[marksym]] : table[hash[marksym]][p].key = marksym
  <2>1. saved \in Seq([Symbol -> Value \cup {NULL}]) /\ Len(saved) >= 2
    BY <1>1, <1>5 DEF TypeOK, Modes
  <2>2. Len(M) >= 1
    <3>1. saved # <<>> /\ Len(saved) \in Nat
      BY <2>1, EmptySeq
    <3>2. Len(Front(saved)) = Len(saved) - 1
      BY <2>1, <3>1, Shortened
    <3> QED
      BY <1>2, <1>5, <2>1, <3>1, <3>2 DEF Opened
  <2>3. M \in Seq(1 .. Len(L)) /\ 1 \in 1 .. Len(M)
    BY <1>2, <2>2 DEF Marks
  <2>4. M[1] \in 1 .. Len(L)
    BY <2>3, ElementOfSeq
  <2>5. L[M[1]].key = marksym
    BY <1>2, <2>3, <2>4 DEF Marks
  <2>6. Len(L) \in M[1] .. Len(L)
    BY <1>2, <2>4, LogTypes
  <2>7. \E p \in DOMAIN T[Len(L)][hash[L[M[1]].key]] :
          T[Len(L)][hash[L[M[1]].key]][p] = L[M[1]]
    BY <1>2, <2>4, <2>6 DEF Kept
  <2>8. table = T[Len(L)]
    BY <1>2, <1>5
  <2> QED
    BY <2>5, <2>7, <2>8
<1> QED
  BY <1>3, <1>4, <1>5 DEF PopsFindTheirKey

(***************************************************************************)
(* The assertions of TAB_pop hold, and S_endScope finds its mark, in every *)
(* state, those within the loop and within a dump included (table.c:62-74, *)
(* symbol.c:67-72).                                                        *)
(***************************************************************************)
THEOREM PopsCorrect == Spec => []PopsFindTheirKey
BY InvPops, SymbolTableInvariance, PTL

LEMMA InvDump ==
  ASSUME SInv
  PROVE  DumpUndone
<1>1. PICK L, T, M : TypeOK /\ Modes /\ Logged(L, T, M)
  BY DEF SInv
<1> DEFINE d == Depth(L)
           c == Len(calls)
<1>2. /\ hash \in [Key -> Bucket]
      /\ Log(L, T) /\ Dumping(L, T)
      /\ d \in 0 .. Len(L) /\ table = T[d] /\ top = TopOf(L, d)
  BY <1>1, Reading
<1>3. calls \in Seq(Call) /\ c \in Nat /\ d = Len(L) - c /\ Len(L) \in Nat
  BY <1>1, <1>2, LogTypes DEF TypeOK, Depth
<1>4. ASSUME calls # <<>>
      PROVE  /\ top = Last(calls).b.prevtop
             /\ table[BucketOf(Last(calls).k)] = Last(calls).next
  <2>1. c \in 1 .. Len(calls)
    BY <1>3, <1>4, EmptySeq
  <2>2. /\ calls[c].b = L[Len(L) - c + 1] /\ calls[c].k = L[Len(L) - c + 1].key
        /\ calls[c].next = T[Len(L) - c][hash[calls[c].k]]
    BY <1>2, <2>1 DEF Dumping
  <2>3. d + 1 \in 1 .. Len(L) /\ (d + 1) - 1 = d
    <3> HIDE DEF d, c
    <3>1. c >= 1
      BY <2>1
    <3> QED
      BY <1>2, <1>3, <3>1
  <2>4. Len(L) - c + 1 = d + 1
    BY <1>3
  <2>5. L[d + 1].prevtop = TopOf(L, d) /\ L[d + 1].key # NULL
    BY <1>2, <2>3, LogTypes DEF Log
  <2>6. top = calls[c].b.prevtop
    BY <1>2, <2>2, <2>4, <2>5
  <2>7. table[BucketOf(calls[c].k)] = calls[c].next
    BY <1>2, <1>3, <2>2, <2>4, <2>5 DEF BucketOf
  <2> QED
    BY <2>6, <2>7 DEF Last
<1>5. table[BucketOf(top)] = <<>> => \A b \in Bucket : table[b] = <<>>
  <2> HIDE DEF d
  <2>1. table[BucketOf(top)] = <<>> => d = 0
    BY <1>2, <1>3, Behind
  <2>2. d = 0 => table = Empty
    BY <1>2, Behind
  <2> QED
    BY <2>1, <2>2, EmptyTable
<1> QED
  BY <1>4, <1>5 DEF DumpUndone

\* The assertion of TAB_dump holds at each of its returns, and every binder is shown.
THEOREM DumpCorrect == Spec => []DumpUndone
BY InvDump, SymbolTableInvariance, PTL

\* A symbol that is entered is found, and no other look-up changes (TAB_enter, TAB_look).
THEOREM EnterCorrect == Spec => EnteredIsFound
<1>1. ASSUME SInv, [Next]_vars
      PROVE  [\A s \in Symbol, v \in Value :
                S_enter(s, v) => Visible' = [Visible EXCEPT ![s] = v]]_vars
  <2>1. PICK L, T, M : TypeOK /\ Modes /\ Logged(L, T, M)
    BY <1>1 DEF SInv
  <2> SUFFICES ASSUME NEW s \in Symbol, NEW v \in Value, S_enter(s, v)
               PROVE  Visible' = [Visible EXCEPT ![s] = v]
    OBVIOUS
  <2> QED
    BY <2>1, S_enterStep
<1> QED
  BY <1>1, SymbolTableInvariance, PTL DEF Spec, EnteredIsFound

-----------------------------------------------------------------------------
\* The stack of scopes that the table stands for.
Scopes == IF Idle THEN Append(saved, Visible) ELSE saved

Outlook == [Symbol -> Value \cup {NULL}]

LEMMA EnterOnStack ==
  ASSUME NEW base \in Seq(Outlook), NEW f \in Outlook, NEW g \in Outlook
  PROVE  [Append(base, f) EXCEPT ![Len(Append(base, f))] = g] = Append(base, g)
<1> DEFINE A == Append(base, f)
           B == Append(base, g)
<1>1. /\ A \in Seq(Outlook) /\ Len(A) = Len(base) + 1 /\ \A i \in 1 .. Len(base) : A[i] = base[i]
      /\ B \in Seq(Outlook) /\ Len(B) = Len(base) + 1 /\ \A i \in 1 .. Len(base) : B[i] = base[i]
      /\ B[Len(base) + 1] = g /\ Len(base) \in Nat
  BY Lengthened
<1> HIDE DEF A, B
<1>2. Len(A) \in 1 .. Len(A)
  BY <1>1
<1> DEFINE E == [A EXCEPT ![Len(A)] = g]
<1>3. /\ E \in Seq(Outlook) /\ Len(E) = Len(A)
      /\ \A i \in 1 .. Len(A) : E[i] = IF i = Len(A) THEN g ELSE A[i]
  BY <1>1, <1>2, ExceptSeq
<1> HIDE DEF E
<1>4. \A i \in 1 .. Len(E) : E[i] = B[i]
  BY <1>1, <1>3
<1>5. E = B
  BY <1>1, <1>3, <1>4, SeqEqual
<1> QED
  BY <1>5 DEF A, B, E

LEMMA EnterRefines ==
  ASSUME SInv, NEW s \in Symbol, NEW v \in Value, S_enter(s, v)
  PROVE  Scopes' = [Scopes EXCEPT ![Len(Scopes)] = [@ EXCEPT ![s] = v]]
<1>1. PICK L, T, M : TypeOK /\ Modes /\ Logged(L, T, M)
  BY DEF SInv
<1>2. Visible' = [Visible EXCEPT ![s] = v]
  BY <1>1, S_enterStep
<1>3. /\ Idle /\ closing' = closing /\ calls' = calls /\ saved' = saved
  BY DEF S_enter
<1>4. Idle'
  BY <1>3 DEF Idle
<1>5. saved \in Seq(Outlook) /\ Visible \in Outlook
  BY <1>1, Reading DEF TypeOK, Outlook
<1>6. [Visible EXCEPT ![s] = v] \in Outlook
  BY <1>5 DEF Outlook
<1>7. Scopes = Append(saved, Visible) /\ Scopes' = Append(saved, [Visible EXCEPT ![s] = v])
  BY <1>2, <1>3, <1>4 DEF Scopes
<1>8. Scopes[Len(Scopes)] = Visible
  BY <1>5, <1>7, Lengthened DEF Last
<1>9. [Scopes EXCEPT ![Len(Scopes)] = [Visible EXCEPT ![s] = v]]
        = Append(saved, [Visible EXCEPT ![s] = v])
  BY <1>5, <1>6, <1>7, EnterOnStack
<1> QED
  BY <1>7, <1>8, <1>9

LEMMA BeginRefines ==
  ASSUME SInv, S_beginScope
  PROVE  Scopes' = Append(Scopes, Last(Scopes))
<1>1. PICK L, T, M : TypeOK /\ Modes /\ Logged(L, T, M)
  BY DEF SInv
<1>2. Visible' = Visible
  BY <1>1, S_beginScopeStep
<1>3. Idle /\ closing' = closing /\ calls' = calls /\ saved' = Append(saved, Visible)
  BY DEF S_beginScope
<1>4. Idle'
  BY <1>3 DEF Idle
<1>5. saved \in Seq(Outlook) /\ Visible \in Outlook
  BY <1>1, Reading DEF TypeOK, Outlook
<1>6. Scopes = Append(saved, Visible) /\ Scopes' = Append(Append(saved, Visible), Visible)
  BY <1>2, <1>3, <1>4 DEF Scopes
<1> QED
  BY <1>5, <1>6, Lengthened

\* Closing a scope takes effect when the mark is popped.
LEMMA PopRefines ==
  ASSUME SInv, TAB_pop
  PROVE  IF Head(table[hash[top]]).key = marksym
           THEN Len(Scopes) > 1 /\ Scopes' = Front(Scopes)
           ELSE Scopes' = Scopes
<1>1. PICK L, T, M : TypeOK /\ Modes /\ Logged(L, T, M)
  BY DEF SInv
<1>2. closing /\ calls' = calls /\ Scopes = saved
  BY DEF TAB_pop, Scopes, Idle
<1>3. calls = <<>> /\ saved \in Seq(Outlook) /\ Len(saved) >= 2
  BY <1>1, <1>2 DEF Modes, TypeOK, Outlook
<1>4. CASE Head(table[hash[top]]).key = marksym
  <2>1. closing' = FALSE /\ saved' = Front(Front(saved))
    BY <1>4 DEF TAB_pop
  <2>2. Visible' = Last(Front(saved))
    BY <1>1, <1>4, TAB_popStep
  <2>3. Scopes' = Append(Front(Front(saved)), Last(Front(saved)))
    BY <1>2, <1>3, <2>1, <2>2 DEF Scopes, Idle
  <2>4. saved # <<>> /\ Len(saved) \in Nat
    BY <1>3, EmptySeq
  <2>5. Front(saved) \in Seq(Outlook) /\ Len(Front(saved)) = Len(saved) - 1
    BY <1>3, <2>4, Shortened
  <2>6. Front(saved) # <<>>
    <3>1. Len(Front(saved)) >= 1
      BY <1>3, <2>4, <2>5
    <3> QED
      BY <3>1, EmptySeq
  <2>7. Front(saved) = Append(Front(Front(saved)), Last(Front(saved)))
    BY <2>5, <2>6, Shortened
  <2>8. Len(saved) > 1
    BY <1>3, <2>4
  <2> QED
    BY <1>2, <1>4, <2>3, <2>7, <2>8
<1>5. CASE Head(table[hash[top]]).key # marksym
  <2>1. closing' = closing /\ saved' = saved
    BY <1>5 DEF TAB_pop
  <2> QED
    BY <1>2, <1>5, <2>1 DEF Scopes, Idle
<1> QED
  BY <1>4, <1>5

\* Starting to close a scope, and every step of a dump, shows no difference.
LEMMA OtherStepsStutter ==
  ASSUME SInv, S_endScope \/ TAB_dump \/ DumpRest \/ NothingLeft \/ PutBack \/ UNCHANGED vars
  PROVE  Scopes' = Scopes
<1>1. PICK L, T, M : TypeOK /\ Modes /\ Logged(L, T, M)
  BY DEF SInv
<1>2. CASE S_endScope
  BY <1>2 DEF S_endScope, Scopes, Idle
<1>3. CASE TAB_dump
  <2>1. ~Idle'
    BY <1>1, <1>3, TAB_dumpStep
  <2> QED
    BY <1>3, <2>1 DEF TAB_dump, Scopes
<1>4. CASE DumpRest
  <2>1. ~Idle /\ ~Idle'
    BY <1>1, <1>4, DumpRestStep
  <2> QED
    BY <1>4, <2>1 DEF DumpRest, Scopes
<1>5. ASSUME UNCHANGED <<hash, table, top, closing, calls, saved>>,
             showing' = FALSE \/ showing' = showing
      PROVE  Scopes' = Scopes
  <2>1. Visible' = Visible /\ (Idle' <=> Idle) /\ saved' = saved
    BY <1>1, <1>5, NothingLeftStep
  <2> QED
    BY <2>1 DEF Scopes
<1>6. CASE NothingLeft
  <2>1. UNCHANGED <<hash, table, top, closing, calls, saved>> /\ showing' = FALSE
    BY <1>6 DEF NothingLeft
  <2> QED
    BY <1>5, <2>1
<1>7. CASE UNCHANGED vars
  <2>1. UNCHANGED <<hash, table, top, closing, calls, saved>> /\ showing' = showing
    BY <1>7 DEF vars
  <2> QED
    BY <1>5, <2>1
<1>8. CASE PutBack
  <2>1. /\ ~Idle /\ saved # <<>>
        /\ IF Len(calls) = 1 THEN Idle' /\ saved' = Front(saved) /\ Visible' = Last(saved)
                             ELSE ~Idle' /\ saved' = saved
    BY <1>1, <1>8, PutBackStep
  <2>2. saved \in Seq(Outlook)
    BY <1>1 DEF TypeOK, Outlook
  <2>3. saved = Append(Front(saved), Last(saved))
    BY <2>1, <2>2, Shortened
  <2> QED
    BY <2>1, <2>3 DEF Scopes
<1> QED
  BY <1>2, <1>3, <1>4, <1>6, <1>7, <1>8

(***************************************************************************)
(* The hash table that is changed in place implements the stack of scopes: *)
(* S_enter, S_beginScope and the pop of a mark are its steps, all others   *)
(* leave it as it is (symbol.c:50-72 on top of table.c).                   *)
(***************************************************************************)
THEOREM ScopesRefine == Spec => ImplementsScopedMap
<1>1. ASSUME Init
      PROVE  Abstract!Init
  <2>1. Idle /\ saved = <<>> /\ hash \in [Key -> Bucket] /\ table = Empty
    BY <1>1 DEF Init, Idle, Empty
  <2>2. Visible = [s \in Symbol |-> NULL]
    <3>1. \A s \in Symbol : hash[s] \in Bucket
      BY <2>1 DEF Key
    <3>2. \A s \in Symbol : PlacesIn(Empty, s) = {}
      BY <3>1, EmptyTable DEF PlacesIn
    <3>3. VisibleIn(Empty) = [s \in Symbol |-> NULL]
      BY <3>2 DEF VisibleIn
    <3> QED
      BY <2>1, <3>3, VisibleIsVisibleIn
  <2>3. Append(saved, Visible) = <<[s \in Symbol |-> NULL]>>
    BY <2>1, <2>2
  <2> QED
    BY <2>1, <2>3 DEF Abstract!Init
<1>2. ASSUME SInv, [Next]_vars
      PROVE  [Abstract!Next]_(Scopes)
  <2>1. ASSUME NEW s \in Symbol, NEW v \in Value, S_enter(s, v)
        PROVE  Abstract!Next
    <3>1. Scopes' = [Scopes EXCEPT ![Len(Scopes)] = [@ EXCEPT ![s] = v]]
      BY <1>2, <2>1, EnterRefines
    <3>2. Abstract!Enter(s, v)
      BY <3>1 DEF Abstract!Enter, Scopes
    <3> QED
      BY <3>2 DEF Abstract!Next
  <2>2. CASE S_beginScope
    <3>1. Scopes' = Append(Scopes, Last(Scopes))
      BY <1>2, <2>2, BeginRefines
    <3>2. Abstract!BeginScope
      BY <3>1 DEF Abstract!BeginScope, Abstract!Last, Last, Scopes
    <3> QED
      BY <3>2 DEF Abstract!Next
  <2>3. CASE TAB_pop
    <3>1. (Len(Scopes) > 1 /\ Scopes' = Front(Scopes)) \/ Scopes' = Scopes
      BY <1>2, <2>3, PopRefines
    <3>2. Len(Scopes) > 1 /\ Scopes' = Front(Scopes) => Abstract!EndScope
      BY DEF Abstract!EndScope, Abstract!Front, Front, Scopes
    <3> QED
      BY <3>1, <3>2 DEF Abstract!Next
  <2>4. CASE S_endScope \/ TAB_dump \/ DumpRest \/ NothingLeft \/ PutBack \/ UNCHANGED vars
    BY <1>2, <2>4, OtherStepsStutter
  <2> QED
    BY <1>2, <2>1, <2>2, <2>3, <2>4 DEF Next
<1>3. [Abstract!Next]_(Scopes)
        => [Abstract!Next]_(IF Idle THEN Append(saved, Visible) ELSE saved)
  BY DEF Scopes
<1> QED
  BY <1>1, <1>2, <1>3, SymbolTableInvariance, PTL DEF Spec, ImplementsScopedMap, Abstract!Spec

-----------------------------------------------------------------------------
(***************************************************************************)
(* The passes over the tree do without the table: their environments are   *)
(* stacks of functions (Env). What can be looked up in such a stack, scope *)
(* by scope, is a stack of scopes in the sense of ScopedMap as well.       *)
(***************************************************************************)
Stack == INSTANCE Env

Scope == UNION {[D -> Value] : D \in SUBSET Symbol}

Environments == {env \in Seq(Scope) : env # <<>>}

OutlookOf(scope) == [s \in Symbol |-> IF s \in DOMAIN scope THEN scope[s] ELSE Stack!NULL]

Outlooks(env) == [q \in 1 .. Len(env) |-> OutlookOf(env[q])]

LEMMA ScopeType ==
  ASSUME NEW scope \in Scope
  PROVE  /\ DOMAIN scope \subseteq Symbol
         /\ \A s \in DOMAIN scope : scope[s] \in Value
         /\ OutlookOf(scope) \in [Symbol -> Value \cup {Stack!NULL}]
<1>1. PICK D \in SUBSET Symbol : scope \in [D -> Value]
  BY DEF Scope
<1> QED
  BY <1>1 DEF OutlookOf

LEMMA OutlooksType ==
  ASSUME NEW env \in Seq(Scope)
  PROVE  /\ Outlooks(env) \in Seq([Symbol -> Value \cup {Stack!NULL}])
         /\ Len(Outlooks(env)) = Len(env)
         /\ \A q \in 1 .. Len(env) : Outlooks(env)[q] = OutlookOf(env[q])
<1>1. Len(env) \in Nat /\ \A q \in 1 .. Len(env) : env[q] \in Scope
  BY LenProperties, ElementOfSeq
<1>2. \A q \in 1 .. Len(env) : OutlookOf(env[q]) \in [Symbol -> Value \cup {Stack!NULL}]
  BY <1>1, ScopeType
<1>3. Outlooks(env) \in [1 .. Len(env) -> [Symbol -> Value \cup {Stack!NULL}]]
  BY <1>2 DEF Outlooks
<1> QED
  BY <1>1, <1>3, SeqDef DEF Outlooks

\* The scope with one more binding.
LEMMA BoundInScope ==
  ASSUME NEW scope \in Scope, NEW s \in Symbol, NEW v \in Value
  PROVE  LET bound == [x \in DOMAIN scope \cup {s} |-> IF x = s THEN v ELSE scope[x]] IN
         bound \in Scope /\ OutlookOf(bound) = [OutlookOf(scope) EXCEPT ![s] = v]
<1> DEFINE bound == [x \in DOMAIN scope \cup {s} |-> IF x = s THEN v ELSE scope[x]]
<1>1. /\ DOMAIN scope \subseteq Symbol
      /\ \A x \in DOMAIN scope : scope[x] \in Value
  BY ScopeType
<1>2. bound \in [DOMAIN scope \cup {s} -> Value] /\ DOMAIN scope \cup {s} \in SUBSET Symbol
  BY <1>1
<1>3. bound \in Scope
  BY <1>2 DEF Scope
<1>4. \A x \in Symbol : OutlookOf(bound)[x] = IF x = s THEN v ELSE OutlookOf(scope)[x]
  BY <1>1 DEF OutlookOf
<1>5. OutlookOf(bound) = [OutlookOf(scope) EXCEPT ![s] = v]
  <2>1. OutlookOf(bound) = [x \in Symbol |-> OutlookOf(bound)[x]]
    BY DEF OutlookOf
  <2>2. [OutlookOf(scope) EXCEPT ![s] = v] = [x \in Symbol |-> IF x = s THEN v ELSE OutlookOf(scope)[x]]
    BY DEF OutlookOf
  <2> HIDE DEF bound
  <2> QED
    BY <1>4, <2>1, <2>2
<1> QED
  BY <1>3, <1>5

LEMMA StackEmpty ==
  Stack!S_empty \in Environments /\ Outlooks(Stack!S_empty) = <<[s \in Symbol |-> Stack!NULL]>>
<1>1. <<>> \in Scope
  <2>1. <<>> \in [{} -> Value] /\ {} \in SUBSET Symbol
    OBVIOUS
  <2> QED
    BY <2>1 DEF Scope
<1>2. Stack!S_empty \in Seq(Scope) /\ Len(Stack!S_empty) = 1 /\ Stack!S_empty[1] = <<>>
  BY <1>1 DEF Stack!S_empty
<1>3. Stack!S_empty \in Environments
  BY <1>2, EmptySeq DEF Environments
<1>4. OutlookOf(<<>>) = [s \in Symbol |-> Stack!NULL]
  BY DEF OutlookOf
<1>5. Outlooks(Stack!S_empty) = <<OutlookOf(<<>>)>>
  <2>1. Outlooks(Stack!S_empty) = [q \in 1 .. 1 |-> OutlookOf(<<>>)]
    <3>1. \A q \in 1 .. 1 : Stack!S_empty[q] = <<>>
      BY <1>2
    <3> QED
      BY <1>2, <3>1 DEF Outlooks
  <2>2. <<OutlookOf(<<>>)>> = [q \in 1 .. 1 |-> OutlookOf(<<>>)]
    OBVIOUS
  <2> QED
    BY <2>1, <2>2
<1> QED
  BY <1>3, <1>4, <1>5

LEMMA StackEnter ==
  ASSUME NEW env \in Environments, NEW s \in Symbol, NEW v \in Value
  PROVE  /\ Stack!S_enter(env, s, v) \in Environments
         /\ Outlooks(Stack!S_enter(env, s, v))
              = [Outlooks(env) EXCEPT ![Len(Outlooks(env))] = [@ EXCEPT ![s] = v]]
<1>1. /\ env \in Seq(Scope) /\ Len(env) \in Nat /\ Len(env) \in 1 .. Len(env)
      /\ env[Len(env)] \in Scope
  <2>1. env \in Seq(Scope) /\ env # <<>>
    BY DEF Environments
  <2>2. Len(env) \in Nat /\ Len(env) # 0
    BY <2>1, EmptySeq, LenProperties
  <2>3. Len(env) \in 1 .. Len(env)
    BY <2>2
  <2> QED
    BY <2>1, <2>2, <2>3, ElementOfSeq
<1>2. PICK bound \in Scope :
        /\ bound = [x \in DOMAIN env[Len(env)] \cup {s} |-> IF x = s THEN v ELSE env[Len(env)][x]]
        /\ OutlookOf(bound) = [OutlookOf(env[Len(env)]) EXCEPT ![s] = v]
  BY <1>1, BoundInScope
<1>3. Stack!S_enter(env, s, v) = [env EXCEPT ![Len(env)] = bound]
  BY <1>1, <1>2 DEF Stack!S_enter
<1>4. PICK after \in Seq(Scope) :
        /\ after = Stack!S_enter(env, s, v)
        /\ Len(after) = Len(env)
        /\ \A q \in 1 .. Len(env) : after[q] = IF q = Len(env) THEN bound ELSE env[q]
  BY <1>1, <1>3, ExceptSeq
<1>5. after \in Environments
  BY <1>1, <1>4, EmptySeq DEF Environments
<1> DEFINE A == Outlooks(after)
           B == Outlooks(env)
           C == [B EXCEPT ![Len(B)] = OutlookOf(bound)]
<1>6. /\ A \in Seq([Symbol -> Value \cup {Stack!NULL}]) /\ Len(A) = Len(env)
      /\ \A q \in 1 .. Len(env) : A[q] = OutlookOf(after[q])
      /\ B \in Seq([Symbol -> Value \cup {Stack!NULL}]) /\ Len(B) = Len(env)
      /\ \A q \in 1 .. Len(env) : B[q] = OutlookOf(env[q])
  BY <1>1, <1>4, OutlooksType
<1>7. OutlookOf(bound) \in [Symbol -> Value \cup {Stack!NULL}]
  BY ScopeType
<1>8. /\ C \in Seq([Symbol -> Value \cup {Stack!NULL}]) /\ Len(C) = Len(env)
      /\ \A q \in 1 .. Len(env) : C[q] = IF q = Len(env) THEN OutlookOf(bound) ELSE B[q]
  <2> HIDE DEF B
  <2> QED
    BY <1>1, <1>6, <1>7, ExceptSeq
<1>9. A = C
  <2>1. \A q \in 1 .. Len(env) : A[q] = C[q]
    <3> HIDE DEF A, B, C
    <3> QED
      BY <1>4, <1>6, <1>8
  <2> HIDE DEF A, B, C
  <2> QED
    BY <2>1, <1>6, <1>8, SeqEqual
<1>10. C = [B EXCEPT ![Len(B)] = [@ EXCEPT ![s] = v]]
  BY <1>1, <1>2, <1>6
<1> QED
  BY <1>4, <1>5, <1>9, <1>10

LEMMA StackBegin ==
  ASSUME NEW env \in Environments
  PROVE  /\ Stack!S_beginScope(env) \in Environments
         /\ Outlooks(Stack!S_beginScope(env)) = Append(Outlooks(env), Last(Outlooks(env)))
<1> DEFINE Looks == [Symbol -> Value \cup {Stack!NULL}]
<1>1. env \in Seq(Scope) /\ env # <<>>
  BY DEF Environments
<1>2. /\ Len(env) \in Nat \ {0}
      /\ Last(env) \in Scope /\ Last(env) = env[Len(env)]
  BY <1>1, Shortened DEF Last
<1>3. PICK after : after = Append(env, Last(env))
  OBVIOUS
<1>4. /\ after \in Seq(Scope) /\ Len(after) = Len(env) + 1
      /\ \A q \in 1 .. Len(env) : after[q] = env[q]
      /\ after[Len(env) + 1] = Last(env)
  BY <1>1, <1>2, <1>3, Lengthened
<1>5. after \in Environments
  BY <1>2, <1>4, EmptySeq DEF Environments
<1> DEFINE A == Outlooks(after)
           B == Outlooks(env)
           C == Append(B, Last(B))
<1>6. /\ A \in Seq(Looks) /\ Len(A) = Len(env) + 1
      /\ \A q \in 1 .. Len(env) + 1 : A[q] = OutlookOf(after[q])
      /\ B \in Seq(Looks) /\ Len(B) = Len(env)
      /\ \A q \in 1 .. Len(env) : B[q] = OutlookOf(env[q])
  BY <1>1, <1>4, OutlooksType
<1> HIDE DEF A, B, Looks
<1>7. B # <<>>
  BY <1>2, <1>6, EmptySeq
<1>8. Last(B) \in Looks /\ Last(B) = B[Len(env)]
  BY <1>6, <1>7, Shortened DEF Last
<1>9. /\ C \in Seq(Looks) /\ Len(C) = Len(env) + 1
      /\ \A q \in 1 .. Len(env) : C[q] = B[q]
      /\ C[Len(env) + 1] = Last(B)
  BY <1>6, <1>8, Lengthened
<1> HIDE DEF C
<1>10. \A q \in 1 .. Len(env) + 1 : A[q] = C[q]
  <2>1. Len(env) \in 1 .. Len(env) /\ Len(env) + 1 \in 1 .. Len(env) + 1
    BY <1>2
  <2>2. A[Len(env) + 1] = C[Len(env) + 1]
    BY <2>1, <1>2, <1>4, <1>6, <1>8, <1>9
  <2>3. \A q \in 1 .. Len(env) : A[q] = C[q]
    BY <1>2, <1>4, <1>6, <1>9
  <2> QED
    BY <2>2, <2>3, <1>2
<1>11. A = C
  BY <1>6, <1>9, <1>10, SeqEqual
<1>12. Stack!S_beginScope(env) = after
  BY <1>3 DEF Stack!S_beginScope, Stack!Last, Last
<1> QED
  BY <1>5, <1>11, <1>12 DEF A, B, C

LEMMA StackEnd ==
  ASSUME NEW env \in Environments, Len(env) > 1
  PROVE  /\ Stack!S_endScope(env) \in Environments
         /\ Outlooks(Stack!S_endScope(env)) = Front(Outlooks(env))
<1> DEFINE Looks == [Symbol -> Value \cup {Stack!NULL}]
<1>1. env \in Seq(Scope) /\ env # <<>>
  BY DEF Environments
<1>2. PICK after : after = Front(env)
  OBVIOUS
<1>3. /\ Len(env) \in Nat
      /\ after \in Seq(Scope) /\ Len(after) = Len(env) - 1
      /\ \A q \in 1 .. Len(env) - 1 : after[q] = env[q]
  BY <1>1, <1>2, Shortened
<1>4. after \in Environments
  <2>1. Len(after) # 0
    BY <1>3
  <2> QED
    BY <1>3, <2>1, EmptySeq DEF Environments
<1> DEFINE A == Outlooks(after)
           B == Outlooks(env)
           C == Front(B)
<1>5. /\ A \in Seq(Looks) /\ Len(A) = Len(env) - 1
      /\ \A q \in 1 .. Len(env) - 1 : A[q] = OutlookOf(after[q])
      /\ B \in Seq(Looks) /\ Len(B) = Len(env)
      /\ \A q \in 1 .. Len(env) : B[q] = OutlookOf(env[q])
  BY <1>1, <1>3, OutlooksType
<1> HIDE DEF A, B, Looks
<1>6. B # <<>>
  BY <1>3, <1>5, EmptySeq
<1>7. /\ C \in Seq(Looks) /\ Len(C) = Len(env) - 1
      /\ \A q \in 1 .. Len(env) - 1 : C[q] = B[q]
  BY <1>5, <1>6, Shortened
<1> HIDE DEF C
<1>8. \A q \in 1 .. Len(env) - 1 : A[q] = C[q]
  BY <1>3, <1>5, <1>7
<1>9. A = C
  BY <1>5, <1>7, <1>8, SeqEqual
<1>10. Stack!S_endScope(env) = after
  BY <1>2 DEF Stack!S_endScope, Stack!Front, Front
<1> QED
  BY <1>4, <1>9, <1>10 DEF A, B, C

LEMMA StackLook ==
  ASSUME NEW env \in Environments, NEW s \in Symbol
  PROVE  Stack!S_look(env, s) = Last(Outlooks(env))[s]
<1>1. env \in Seq(Scope) /\ env # <<>>
  BY DEF Environments
<1>2. Len(env) \in Nat \ {0} /\ Last(env) = env[Len(env)]
  BY <1>1, Shortened DEF Last
<1>3. Last(Outlooks(env)) = OutlookOf(env[Len(env)])
  <2>1. Len(Outlooks(env)) = Len(env) /\ Len(env) \in 1 .. Len(env)
    BY <1>1, <1>2, OutlooksType
  <2> QED
    BY <1>1, <2>1, OutlooksType DEF Last
<1>4. Stack!S_look(env, s) = IF s \in DOMAIN Last(env) THEN Last(env)[s] ELSE Stack!NULL
  BY DEF Stack!S_look, Stack!Last, Last
<1> QED
  BY <1>2, <1>3, <1>4 DEF OutlookOf

(***************************************************************************)
(* The environments that the passes over the tree work with keep the same  *)
(* promise as the table: each operation of Env does to what can be looked  *)
(* up what the operation of ScopedMap does that the table's own operation  *)
(* implements (ScopesRefine), and a look-up reads the innermost scope.     *)
(***************************************************************************)
THEOREM StackKeepsPromise ==
  ASSUME NEW env \in Environments
  PROVE  /\ Stack!S_empty \in Environments
         /\ Outlooks(Stack!S_empty) = <<[s \in Symbol |-> Stack!NULL]>>
         /\ \A s \in Symbol, v \in Value :
              /\ Stack!S_enter(env, s, v) \in Environments
              /\ Outlooks(Stack!S_enter(env, s, v))
                   = [Outlooks(env) EXCEPT ![Len(Outlooks(env))] = [@ EXCEPT ![s] = v]]
         /\ Stack!S_beginScope(env) \in Environments
         /\ Outlooks(Stack!S_beginScope(env)) = Append(Outlooks(env), Last(Outlooks(env)))
         /\ Len(env) > 1 => /\ Stack!S_endScope(env) \in Environments
                            /\ Outlooks(Stack!S_endScope(env)) = Front(Outlooks(env))
         /\ \A s \in Symbol : Stack!S_look(env, s) = Last(Outlooks(env))[s]
BY StackEmpty, StackEnter, StackBegin, StackEnd, StackLook
=============================================================================
