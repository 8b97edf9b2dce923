--------------------------- MODULE PageViewProofs ---------------------------
(***************************************************************************)
(* What a page of FilesPage shows: a page that nobody disturbed shows the  *)
(* favourites and the links that the tables hold.  The invariant follows a *)
(* load and the changes after it through their handlers and callbacks.     *)
(***************************************************************************)
EXTENDS FilesPageProofs, WellFoundedInduction

-----------------------------------------------------------------------------
(***************************************************************************)
(* Two lists of badges that have the same rows of a file, in their order.  *)
(***************************************************************************)
FileRows(a, f) == {n \in DOMAIN a : FileOf(a[n].item) = f}

Same(a, b, f) ==
    \E h \in [FileRows(a, f) -> FileRows(b, f)] :
        /\ \A n \in FileRows(a, f) : b[h[n]] = a[n]
        /\ \A n, m \in FileRows(a, f) : n < m => h[n] < h[m]
        /\ \A k \in FileRows(b, f) : \E n \in FileRows(a, f) : h[n] = k

\* b is a, toggled.
Ahead(a, b, f, i) ==
    \E c \in Seq(BadgeRow) : Same(a, c, f) /\ Same(ToggleBadge(c, i), b, f)

KeptRows(a, b, f) ==
    /\ FileRows(b, f) = FileRows(a, f)
    /\ \A n \in FileRows(a, f) : b[n] = a[n]

Shows(a, f) ==
    \E n \in DOMAIN a :
        /\ FileOf(a[n].item) = f /\ a[n].is_favorite
        /\ \A m \in 1..n - 1 : FileOf(a[m].item) # f

LEMMA RowsType ==
    ASSUME NEW a \in Seq(BadgeRow), NEW f
    PROVE  /\ Len(a) \in Nat /\ DOMAIN a = 1..Len(a) /\ FileRows(a, f) \subseteq 1..Len(a)
           /\ \A n \in 1..Len(a) : n \in Nat /\ a[n] \in BadgeRow
           /\ \A n \in FileRows(a, f) : n \in Nat /\ FileOf(a[n].item) = f
<1>1. Len(a) \in Nat /\ DOMAIN a = 1..Len(a)
    BY LenProperties
<1>2. \A n \in 1..Len(a) : n \in Nat /\ a[n] \in BadgeRow
    BY <1>1, ElementOfSeq
<1> QED
    BY <1>1, <1>2 DEF FileRows

LEMMA KeptSame ==
    ASSUME NEW a, NEW b, NEW f, KeptRows(a, b, f)
    PROVE  Same(a, b, f) /\ Same(b, a, f)
<1> DEFINE h == [n \in FileRows(a, f) |-> n]
<1>1. h \in [FileRows(a, f) -> FileRows(b, f)] /\ h \in [FileRows(b, f) -> FileRows(a, f)]
    BY DEF KeptRows
<1>2. Same(a, b, f)
  <2>1. /\ \A n \in FileRows(a, f) : b[h[n]] = a[n]
        /\ \A n, m \in FileRows(a, f) : n < m => h[n] < h[m]
        /\ \A k \in FileRows(b, f) : \E n \in FileRows(a, f) : h[n] = k
    BY DEF KeptRows
  <2> QED
    BY <1>1, <2>1 DEF Same
<1>3. Same(b, a, f)
  <2>1. /\ \A n \in FileRows(b, f) : a[h[n]] = b[n]
        /\ \A n, m \in FileRows(b, f) : n < m => h[n] < h[m]
        /\ \A k \in FileRows(a, f) : \E n \in FileRows(b, f) : h[n] = k
    BY DEF KeptRows
  <2> QED
    BY <1>1, <2>1 DEF Same
<1> QED
    BY <1>2, <1>3

LEMMA SameTrans ==
    ASSUME NEW a, NEW b, NEW c, NEW f, Same(a, b, f), Same(b, c, f)
    PROVE  Same(a, c, f)
<1>1. PICK h \in [FileRows(a, f) -> FileRows(b, f)] :
      /\ \A n \in FileRows(a, f) : b[h[n]] = a[n]
      /\ \A n, m \in FileRows(a, f) : n < m => h[n] < h[m]
      /\ \A k \in FileRows(b, f) : \E n \in FileRows(a, f) : h[n] = k
    BY DEF Same
<1>2. PICK g \in [FileRows(b, f) -> FileRows(c, f)] :
      /\ \A n \in FileRows(b, f) : c[g[n]] = b[n]
      /\ \A n, m \in FileRows(b, f) : n < m => g[n] < g[m]
      /\ \A k \in FileRows(c, f) : \E n \in FileRows(b, f) : g[n] = k
    BY DEF Same
<1> DEFINE hg == [n \in FileRows(a, f) |-> g[h[n]]]
<1>3. hg \in [FileRows(a, f) -> FileRows(c, f)] /\ \A n \in FileRows(a, f) : hg[n] = g[h[n]]
    BY <1>1, <1>2
<1>4. \A n \in FileRows(a, f) : h[n] \in FileRows(b, f)
    BY <1>1
<1> HIDE DEF hg
<1>5. \A n \in FileRows(a, f) : c[hg[n]] = a[n]
    BY <1>1, <1>2, <1>3, <1>4
<1>6. \A n, m \in FileRows(a, f) : n < m => hg[n] < hg[m]
    BY <1>1, <1>2, <1>3, <1>4
<1>7. \A k \in FileRows(c, f) : \E n \in FileRows(a, f) : hg[n] = k
    BY <1>1, <1>2, <1>3, <1>4
<1> QED
    BY <1>3, <1>5, <1>6, <1>7 DEF Same

\* They show the file alike.
LEMMA SameShows ==
    ASSUME NEW a \in Seq(BadgeRow), NEW b \in Seq(BadgeRow), NEW f, Same(a, b, f)
    PROVE  Shows(a, f) <=> Shows(b, f)
<1>1. PICK h \in [FileRows(a, f) -> FileRows(b, f)] :
      /\ \A n \in FileRows(a, f) : b[h[n]] = a[n]
      /\ \A n, m \in FileRows(a, f) : n < m => h[n] < h[m]
      /\ \A k \in FileRows(b, f) : \E n \in FileRows(a, f) : h[n] = k
    BY DEF Same
<1>2. /\ Len(a) \in Nat /\ DOMAIN a = 1..Len(a) /\ FileRows(a, f) \subseteq 1..Len(a)
      /\ Len(b) \in Nat /\ DOMAIN b = 1..Len(b) /\ FileRows(b, f) \subseteq 1..Len(b)
      /\ \A n \in FileRows(a, f) : n \in Nat /\ FileOf(a[n].item) = f
      /\ \A n \in FileRows(b, f) : n \in Nat /\ FileOf(b[n].item) = f
    BY RowsType
<1>3. /\ \A n \in 1..Len(a) : FileOf(a[n].item) = f => n \in FileRows(a, f)
      /\ \A n \in 1..Len(b) : FileOf(b[n].item) = f => n \in FileRows(b, f)
    BY <1>2 DEF FileRows
<1>4. ASSUME NEW n \in FileRows(a, f), \A m \in 1..n - 1 : FileOf(a[m].item) # f,
             NEW j \in 1..h[n] - 1, FileOf(b[j].item) = f
      PROVE  FALSE
  <2>1. h[n] \in 1..Len(b) /\ j \in 1..Len(b) /\ j < h[n]
    BY <1>1, <1>2
  <2>2. PICK m \in FileRows(a, f) : h[m] = j
    BY <1>1, <1>3, <1>4, <2>1
  <2>3. m \in 1..Len(a) /\ n \in 1..Len(a) /\ FileOf(a[m].item) = f
    BY <1>2
  <2>4. CASE m < n
    BY <1>2, <1>4, <2>3, <2>4
  <2>5. CASE m = n
    BY <1>2, <2>1, <2>2, <2>5
  <2>6. CASE n < m
    <3>1. h[n] < h[m]
        BY <1>1, <2>6
    <3> QED
        BY <1>2, <2>1, <2>2, <3>1
  <2> QED
    BY <1>2, <2>3, <2>4, <2>5, <2>6
<1>5. ASSUME NEW n \in FileRows(a, f), \A j \in 1..h[n] - 1 : FileOf(b[j].item) # f,
             NEW m \in 1..n - 1, FileOf(a[m].item) = f
      PROVE  FALSE
  <2>1. n \in 1..Len(a) /\ m \in 1..Len(a) /\ m < n /\ m \in FileRows(a, f)
    BY <1>2, <1>3, <1>5
  <2>2. h[m] < h[n] /\ h[m] \in FileRows(b, f) /\ h[n] \in FileRows(b, f)
    BY <1>1, <2>1
  <2>3. h[m] \in 1..h[n] - 1 /\ FileOf(b[h[m]].item) = f
    BY <1>2, <2>2
  <2> QED
    BY <1>5, <2>3
<1>6. ASSUME NEW n \in FileRows(a, f)
      PROVE  h[n] \in FileRows(b, f) /\ (a[n].is_favorite <=> b[h[n]].is_favorite)
    BY <1>1
<1>7. Shows(a, f) <=> \E n \in FileRows(a, f) :
                          a[n].is_favorite /\ \A m \in 1..n - 1 : FileOf(a[m].item) # f
    BY DEF Shows, FileRows
<1>8. Shows(b, f) <=> \E n \in FileRows(b, f) :
                          b[n].is_favorite /\ \A m \in 1..n - 1 : FileOf(b[m].item) # f
    BY DEF Shows, FileRows
<1>9. Shows(a, f) => Shows(b, f)
  <2> SUFFICES ASSUME NEW n \in FileRows(a, f), a[n].is_favorite,
                      \A m \in 1..n - 1 : FileOf(a[m].item) # f
               PROVE  Shows(b, f)
    BY <1>7
  <2>1. \A j \in 1..h[n] - 1 : FileOf(b[j].item) # f
    BY <1>4
  <2> QED
    BY <1>6, <1>8, <2>1
<1>10. Shows(b, f) => Shows(a, f)
  <2> SUFFICES ASSUME NEW k \in FileRows(b, f), b[k].is_favorite,
                      \A m \in 1..k - 1 : FileOf(b[m].item) # f
               PROVE  Shows(a, f)
    BY <1>8
  <2>1. PICK n \in FileRows(a, f) : h[n] = k
    BY <1>1
  <2>2. \A m \in 1..n - 1 : FileOf(a[m].item) # f
    BY <1>5, <2>1
  <2> QED
    BY <1>6, <1>7, <2>1, <2>2
<1> QED
    BY <1>9, <1>10

Less == {ss \in Nat \X Nat : ss[1] < ss[2]}

LEMMA FirstExists ==
    ASSUME NEW S, S \subseteq Nat, S # {}
    PROVE  \E n \in S : \A m \in S : n <= m
<1>1. IsWellFoundedOn(Less, Nat)
    BY NatLessThanWellFounded DEF OpToRel, Less
<1>2. PICK n \in S : \A m \in S : <<m, n>> \notin Less
    BY <1>1, WFMin
<1>3. \A m \in S : ~(m < n)
    BY <1>2 DEF Less
<1> QED
    BY <1>3

\* update_local_badge, row by row.
Adds(a, b, i) ==
    /\ \A n \in DOMAIN a : a[n].item # i
    /\ Len(b) = Len(a) + 1 /\ \A n \in 1..Len(a) : b[n] = a[n]
    /\ b[Len(a) + 1] = [item |-> i, is_favorite |-> TRUE]

Flips(a, b, i, k) ==
    /\ a[k].item = i /\ \A n \in DOMAIN a : a[n].item = i => k <= n
    /\ Len(b) = Len(a) /\ \A n \in DOMAIN a \ {k} : b[n] = a[n]
    /\ b[k] = [item |-> i, is_favorite |-> ~a[k].is_favorite]

LEMMA ToggleRows ==
    ASSUME NEW a \in Seq(BadgeRow), NEW i \in Item
    PROVE  /\ ToggleBadge(a, i) \in Seq(BadgeRow)
           /\ \/ Adds(a, ToggleBadge(a, i), i)
              \/ \E k \in DOMAIN a : Flips(a, ToggleBadge(a, i), i, k)
<1> DEFINE rows == {n \in DOMAIN a : a[n].item = i}
           b == ToggleBadge(a, i)
<1>1. /\ Len(a) \in Nat /\ DOMAIN a = 1..Len(a)
      /\ \A n \in 1..Len(a) : n \in Nat /\ a[n] \in BadgeRow
    BY RowsType
<1>2. b \in Seq(BadgeRow)
    BY BadgesType
<1>3. CASE rows = {}
  <2>1. b = Append(a, [item |-> i, is_favorite |-> TRUE])
    BY <1>3 DEF ToggleBadge
  <2>2. [item |-> i, is_favorite |-> TRUE] \in BadgeRow
    BY DEF BadgeRow
  <2>3. /\ Len(b) = Len(a) + 1 /\ \A n \in 1..Len(a) : b[n] = a[n]
        /\ b[Len(a) + 1] = [item |-> i, is_favorite |-> TRUE]
    BY <1>1, <2>1, <2>2, AppendProperties
  <2> QED
    BY <1>2, <1>3, <2>3 DEF Adds
<1>4. CASE rows # {}
  <2>1. rows \subseteq Nat
    BY <1>1
  <2> DEFINE k == CHOOSE n \in rows : \A m \in rows : n <= m
  <2>2. b = [a EXCEPT ![k].is_favorite = ~@]
    BY <1>4 DEF ToggleBadge
  <2>3. \E n \in rows : \A m \in rows : n <= m
    BY <1>4, <2>1, FirstExists
  <2>4. k \in rows /\ \A m \in rows : k <= m
    BY <2>3
  <2> HIDE DEF k
  <2>5. a[k].item = i /\ k \in DOMAIN a /\ \A n \in DOMAIN a : a[n].item = i => k <= n
    BY <2>4
  <2>6. b = [a EXCEPT ![k] = [a[k] EXCEPT !.is_favorite = ~a[k].is_favorite]]
    BY <2>2
  <2>7. a[k] \in [item : Item, is_favorite : BOOLEAN]
    BY <1>1, <2>5 DEF BadgeRow
  <2>8. [a[k] EXCEPT !.is_favorite = ~a[k].is_favorite]
            = [item |-> i, is_favorite |-> ~a[k].is_favorite]
    BY <2>5, <2>7
  <2>9. DOMAIN b = DOMAIN a /\ \A n \in DOMAIN a \ {k} : b[n] = a[n]
    BY <2>6
  <2>10. b[k] = [item |-> i, is_favorite |-> ~a[k].is_favorite]
    BY <2>5, <2>6, <2>8
  <2>11. Len(b) = Len(a)
    BY <1>1, <1>2, <2>9, LenProperties
  <2> QED
    BY <1>2, <2>5, <2>9, <2>10, <2>11 DEF Flips
<1> QED
    BY <1>3, <1>4

LEMMA ToggledRows ==
    ASSUME NEW a \in Seq(BadgeRow), NEW b \in Seq(BadgeRow), NEW i \in Item, NEW f
    PROVE  /\ \A k \in DOMAIN a : Flips(a, b, i, k) => FileRows(b, f) = FileRows(a, f)
           /\ Adds(a, b, i) => FileRows(b, f) = IF FileOf(i) = f THEN FileRows(a, f) \cup {Len(a) + 1}
                                                ELSE FileRows(a, f)
           /\ \A n \in FileRows(a, f) : n < Len(a) + 1
<1>1. /\ Len(a) \in Nat /\ DOMAIN a = 1..Len(a) /\ Len(b) \in Nat /\ DOMAIN b = 1..Len(b)
    BY RowsType
<1>2. ASSUME NEW k \in DOMAIN a, Flips(a, b, i, k) PROVE FileRows(b, f) = FileRows(a, f)
  <2>1. DOMAIN b = DOMAIN a /\ \A n \in DOMAIN a : b[n].item = a[n].item
    BY <1>1, <1>2 DEF Flips
  <2> QED
    BY <2>1 DEF FileRows
<1>3. ASSUME Adds(a, b, i)
      PROVE  FileRows(b, f) = IF FileOf(i) = f THEN FileRows(a, f) \cup {Len(a) + 1}
                              ELSE FileRows(a, f)
  <2>1. /\ DOMAIN b = DOMAIN a \cup {Len(a) + 1} /\ Len(a) + 1 \notin DOMAIN a
        /\ \A n \in DOMAIN a : b[n].item = a[n].item
        /\ b[Len(a) + 1].item = i
    BY <1>1, <1>3 DEF Adds
  <2> QED
    BY <2>1 DEF FileRows
<1>4. \A n \in FileRows(a, f) : n < Len(a) + 1
    BY <1>1 DEF FileRows
<1> QED
    BY <1>2, <1>3, <1>4

\* A toggle of another file is not seen.
LEMMA ToggleAside ==
    ASSUME NEW a \in Seq(BadgeRow), NEW b \in Seq(BadgeRow), NEW i \in Item, NEW f, FileOf(i) # f,
           Adds(a, b, i) \/ \E k \in DOMAIN a : Flips(a, b, i, k)
    PROVE  KeptRows(a, b, f)
<1>1. CASE Adds(a, b, i)
  <2>1. FileRows(b, f) = FileRows(a, f)
    BY <1>1, ToggledRows
  <2>2. \A n \in FileRows(a, f) : b[n] = a[n]
    BY <1>1, RowsType DEF Adds
  <2> QED
    BY <2>1, <2>2 DEF KeptRows
<1>2. CASE \E k \in DOMAIN a : Flips(a, b, i, k)
  <2>1. PICK k \in DOMAIN a : Flips(a, b, i, k)
    BY <1>2
  <2>2. FileRows(b, f) = FileRows(a, f)
    BY <2>1, ToggledRows
  <2>3. k \notin FileRows(a, f)
    BY <2>1 DEF Flips, FileRows
  <2>4. \A n \in FileRows(a, f) : b[n] = a[n]
    BY <2>1, <2>3 DEF Flips, FileRows
  <2> QED
    BY <2>2, <2>4 DEF KeptRows
<1> QED
    BY <1>1, <1>2

\* The same toggle of lists with the same rows leaves them so.
LEMMA SameToggled ==
    ASSUME NEW a \in Seq(BadgeRow), NEW b \in Seq(BadgeRow), NEW i \in Item, NEW f,
           FileOf(i) = f, Same(a, b, f)
    PROVE  Same(ToggleBadge(a, i), ToggleBadge(b, i), f)
<1>1. PICK h \in [FileRows(a, f) -> FileRows(b, f)] :
      /\ \A n \in FileRows(a, f) : b[h[n]] = a[n]
      /\ \A n, m \in FileRows(a, f) : n < m => h[n] < h[m]
      /\ \A k \in FileRows(b, f) : \E n \in FileRows(a, f) : h[n] = k
    BY DEF Same
<1> DEFINE ta == ToggleBadge(a, i)
           tb == ToggleBadge(b, i)
<1>2. /\ ta \in Seq(BadgeRow) /\ tb \in Seq(BadgeRow)
      /\ Adds(a, ta, i) \/ \E k \in DOMAIN a : Flips(a, ta, i, k)
      /\ Adds(b, tb, i) \/ \E k \in DOMAIN b : Flips(b, tb, i, k)
    BY ToggleRows
<1>3. /\ Len(a) \in Nat /\ DOMAIN a = 1..Len(a) /\ FileRows(a, f) \subseteq 1..Len(a)
      /\ Len(b) \in Nat /\ DOMAIN b = 1..Len(b) /\ FileRows(b, f) \subseteq 1..Len(b)
      /\ \A n \in FileRows(a, f) : n \in Nat /\ n < Len(a) + 1
      /\ \A n \in FileRows(b, f) : n \in Nat /\ n < Len(b) + 1
    BY RowsType
<1>4. /\ \A n \in DOMAIN a : a[n].item = i => n \in FileRows(a, f)
      /\ \A n \in DOMAIN b : b[n].item = i => n \in FileRows(b, f)
    BY DEF FileRows
<1>5. /\ \A n \in FileRows(a, f) : h[n] \in FileRows(b, f) /\ h[n] \in DOMAIN b /\ n \in DOMAIN a
    BY <1>1, <1>3
<1> HIDE DEF ta, tb
<1>6. CASE Adds(a, ta, i) /\ Adds(b, tb, i)
  <2> DEFINE g == [n \in FileRows(ta, f) |-> IF n = Len(a) + 1 THEN Len(b) + 1 ELSE h[n]]
  <2>1. /\ FileRows(ta, f) = FileRows(a, f) \cup {Len(a) + 1}
        /\ FileRows(tb, f) = FileRows(b, f) \cup {Len(b) + 1}
    BY <1>2, <1>6, ToggledRows
  <2>2. \A n \in FileRows(a, f) : n # Len(a) + 1
    BY <1>3
  <2>3. /\ g \in [FileRows(ta, f) -> FileRows(tb, f)] /\ g[Len(a) + 1] = Len(b) + 1
        /\ \A n \in FileRows(a, f) : g[n] = h[n]
    BY <1>1, <2>1, <2>2
  <2> HIDE DEF g
  <2>4. \A n \in FileRows(ta, f) : tb[g[n]] = ta[n]
    <3>1. tb[Len(b) + 1] = ta[Len(a) + 1]
        BY <1>6 DEF Adds
    <3>2. \A n \in FileRows(a, f) : ta[n] = a[n]
        BY <1>3, <1>6 DEF Adds
    <3>3. \A n \in FileRows(b, f) : tb[n] = b[n]
        BY <1>3, <1>6 DEF Adds
    <3> QED
        BY <1>1, <1>5, <2>1, <2>3, <3>1, <3>2, <3>3
  <2>5. \A n, m \in FileRows(ta, f) : n < m => g[n] < g[m]
    BY <1>1, <1>3, <1>5, <2>1, <2>3
  <2>6. \A k \in FileRows(tb, f) : \E n \in FileRows(ta, f) : g[n] = k
    BY <1>1, <2>1, <2>3
  <2> QED
    BY <2>3, <2>4, <2>5, <2>6 DEF Same, ta, tb
<1>7. ASSUME NEW k \in DOMAIN a, Flips(a, ta, i, k), NEW j \in DOMAIN b, Flips(b, tb, i, j)
      PROVE  Same(ta, tb, f)
  <2>1. k \in FileRows(a, f) /\ j \in FileRows(b, f)
    BY <1>4, <1>7 DEF Flips
  <2>2. h[k] = j
    <3>1. j <= h[k]
        BY <1>1, <1>5, <1>7, <2>1 DEF Flips
    <3>2. PICK n \in FileRows(a, f) : h[n] = j
        BY <1>1, <2>1
    <3>3. k <= n
        BY <1>1, <1>5, <1>7, <3>2 DEF Flips
    <3>4. k < n => h[k] < h[n]
        BY <1>1, <2>1
    <3>5. k = n \/ k < n
        BY <1>3, <2>1, <3>3
    <3>6. h[k] \in Nat /\ j \in Nat
        BY <1>3, <1>5, <2>1
    <3> QED
        BY <3>1, <3>2, <3>4, <3>5, <3>6
  <2>3. FileRows(ta, f) = FileRows(a, f) /\ FileRows(tb, f) = FileRows(b, f)
    BY <1>2, <1>7, ToggledRows
  <2>4. \A n \in FileRows(a, f) : tb[h[n]] = ta[n]
    <3>1. tb[j] = ta[k]
        BY <1>1, <1>7, <2>1, <2>2 DEF Flips
    <3>2. ASSUME NEW n \in FileRows(a, f), n # k PROVE tb[h[n]] = ta[n]
      <4>1. h[n] # j
        BY <1>1, <1>3, <1>5, <2>1, <2>2, <3>2
      <4>2. ta[n] = a[n] /\ tb[h[n]] = b[h[n]]
        BY <1>5, <1>7, <3>2, <4>1 DEF Flips
      <4> QED
        BY <1>1, <4>2
    <3> QED
        BY <2>2, <3>1, <3>2
  <2> QED
    BY <1>1, <2>3, <2>4 DEF Same
<1>8. (\A n \in DOMAIN a : a[n].item # i) <=> (\A n \in DOMAIN b : b[n].item # i)
  <2>1. \A n \in DOMAIN a : a[n].item = i => b[h[n]].item = i /\ h[n] \in DOMAIN b
    BY <1>1, <1>4, <1>5
  <2>2. ASSUME NEW k \in DOMAIN b, b[k].item = i PROVE \E n \in DOMAIN a : a[n].item = i
    <3>1. PICK n \in FileRows(a, f) : h[n] = k
        BY <1>1, <1>4, <2>2
    <3> QED
        BY <1>1, <1>5, <2>2, <3>1
  <2> QED
    BY <2>1, <2>2
<1>9. /\ Adds(a, ta, i) => \A n \in DOMAIN a : a[n].item # i
      /\ Adds(b, tb, i) => \A n \in DOMAIN b : b[n].item # i
      /\ \A k \in DOMAIN a : Flips(a, ta, i, k) => a[k].item = i
      /\ \A k \in DOMAIN b : Flips(b, tb, i, k) => b[k].item = i
    BY DEF Adds, Flips
<1>10. CASE \E k \in DOMAIN a : Flips(a, ta, i, k)
    BY <1>2, <1>7, <1>8, <1>9, <1>10 DEF ta, tb
<1> QED
    BY <1>2, <1>6, <1>8, <1>9, <1>10 DEF ta, tb

-----------------------------------------------------------------------------
(***************************************************************************)
(* The invariant.                                                          *)
(***************************************************************************)

\* What was over when a request was sent was over when any later one was.
BeforeInv ==
    /\ \A r \in Known : \A s \in before[r] : s < r
    /\ \A q, r \in Known : q < r => before[q] \subseteq before[r]

\* What meets no failure is answered with 200.
Served(r) ==
    r \notin failed /\ Operation(r) \in ForPage =>
        /\ at[r] \notin {"lost", "unanswered"}
        /\ at[r] \in {"badgesAnswered", "answered", "received"} => reply[r] = "200"

ReplyInv == \A r \in Known : Served(r)

ByInv ==
    \A n, m \in DOMAIN hc_shared_links :
        hc_shared_links[n].by = hc_shared_links[m].by => n = m

\* A toggle that raced failed, or there is another of its item beside it.
Beside(s, r) ==
    /\ s \in Known /\ s # r /\ Operation(s) = "add_to_favorites" /\ ItemOf(s) = ItemOf(r)
    /\ s \notin before[r] /\ r \notin before[s]

RacedInv == \A r \in raced : r \in Known /\ (r \in failed \/ \E s : Beside(s, r))

\* Undisturbed, but that requests of the page may be under way: one change at
\* most, and none with the load.
Base(p, l, f) ==
    /\ \A r \in Known : requests[r].page = p /\ Operation(r) = "load" =>
                           l # 0 /\ (r = l \/ r \in before[l])
    /\ l # 0 => requests[l].page = p /\ Operation(l) = "load" /\ l \notin failed
    /\ \A r \in Changes(p, l, f) :
          /\ requests[r].page = p /\ r \notin failed
          /\ l # 0 => l \in before[r]
          /\ \A s \in Changes(p, l, f) : s < r => s \in before[r]

Loaded(l, places) == l = 0 \/ at[l] \in places

Toggles(p, l, f) ==
    {r \in Changes(p, l, f) : Operation(r) = "add_to_favorites" /\ at[r] = "answered"}

\* The page, or the answer that it is going to load, has the rows of the file,
\* until a change has reached the table and not yet the page.
BadgeView(p, l, f) ==
    /\ l # 0 /\ at[l] = "badgesAnswered" => Same(data[l], deluxe_table, f)
    /\ Loaded(l, {"links", "answered", "received"}) =>
          /\ file_sys_badge[p] \in Seq(BadgeRow)
          /\ Toggles(p, l, f) = {} => Same(file_sys_badge[p], deluxe_table, f)
          /\ \A r \in Toggles(p, l, f) : Ahead(file_sys_badge[p], deluxe_table, f, ItemOf(r))

Listed(l, f)   == \E n \in DOMAIN data[l] : FileOf(data[l][n].item) = f
Repeated(l, f) == \E n, m \in DOMAIN data[l] :
                      n # m /\ FileOf(data[l][n].item) = f /\ FileOf(data[l][m].item) = f
Several(p, f)  == \E n, m \in DOMAIN shared_links[p] :
                      n # m /\ FileOf(shared_links[p][n]) = f /\ FileOf(shared_links[p][m]) = f

\* Likewise of links, of which only a load brings two.
LinkView(p, l, f) ==
    /\ l # 0 /\ at[l] = "answered" =>
          /\ StoredLink(f) <=> Listed(l, f)
          /\ Repeated(l, f) => LinkedTwice(l, f)
    /\ Loaded(l, {"received"}) =>
          /\ Several(p, f) => LinkedTwice(l, f)
          /\ (\A r \in Changes(p, l, f) : at[r] = "answered" => Operation(r) = "add_to_favorites") =>
                /\ StoredLink(f) => HasShareLink(p, f)
                /\ HasShareLink(p, f) => StoredLink(f) \/ LinkedTwice(l, f)
          /\ \A r \in Changes(p, l, f) :
                /\ Operation(r) = "generate_share_link" /\ at[r] \notin Over =>
                      ~HasShareLink(p, f) /\ (at[r] = "answered" => StoredLink(f))
                /\ Operation(r) = "remove_share_link" /\ at[r] = "answered" => ~StoredLink(f)

View(p, l, f) == BadgeView(p, l, f) /\ (OneSpelling(f) => LinkView(p, l, f))

ViewInv ==
    \A p \in Page, l \in Known \cup {0}, f \in File : Base(p, l, f) => View(p, l, f)

VInv == BeforeInv /\ ReplyInv /\ ByInv /\ RacedInv /\ ViewInv

-----------------------------------------------------------------------------
(***************************************************************************)
(* The steps, by what they leave of tables and pages.                      *)
(***************************************************************************)
Move(r) ==
    /\ r \in Known /\ at[r] \notin Over /\ UNCHANGED <<requests, before>>
    /\ \A s \in Req \ {r} : at'[s] = at[s] /\ reply'[s] = reply[s] /\ data'[s] = data[s]
    /\ failed \subseteq failed' /\ failed' \subseteq failed \cup {r}
    /\ raced' = raced \/ (raced' = raced \cup {r} /\ r \in failed')
    /\ Served(r)'

\* Handlers that do not write: those that meet a failure, go on, are of other
\* operations, or list a table.
Fruitless(r) == r \in failed' /\ UNCHANGED tables
GoesOn(r)    == at[r] \in Busy /\ at'[r] \in {"update", "insert", "insertLink"} /\ UNCHANGED tables
Foreign(r)   == Operation(r) \notin ForPage /\ UNCHANGED tables
Lists(r)     ==
    /\ Operation(r) = "load" /\ UNCHANGED tables
    /\ \/ at[r] = "badges" /\ at'[r] = "badgesAnswered" /\ data'[r] = deluxe_table
       \/ at[r] = "links" /\ at'[r] = "answered" /\ data'[r] = hc_shared_links

\* Those that do.
Toggled(r) ==
    /\ at[r] \in Busy /\ Operation(r) = "add_to_favorites" /\ at'[r] = "answered"
    /\ UNCHANGED hc_shared_links /\ deluxe_table' \in Seq(BadgeRow)
    /\ \A f : f # FileOf(ItemOf(r)) => KeptRows(deluxe_table, deluxe_table', f)
    /\ r \notin raced => Same(ToggleBadge(deluxe_table, ItemOf(r)), deluxe_table', FileOf(ItemOf(r)))

LinkMade(r) ==
    /\ at[r] = "insertLink" /\ Operation(r) = "generate_share_link" /\ at'[r] = "answered"
    /\ UNCHANGED deluxe_table
    /\ hc_shared_links' = Append(hc_shared_links,
                                 [item |-> ItemOf(r), key_token |-> key_token[r], by |-> r])

LinksGone(r) ==
    /\ at[r] = "delete" /\ Operation(r) = "remove_share_link" /\ at'[r] = "answered"
    /\ UNCHANGED deluxe_table /\ KeepOthers(ItemOf(r))

HandleOutcome(r) ==
    \/ Fruitless(r) \/ GoesOn(r) \/ Foreign(r) \/ Lists(r)
    \/ Toggled(r) \/ LinkMade(r) \/ LinksGone(r)

LEMMA MoveAnswer ==
    ASSUME IInv, NEW r \in Known, at[r] \in Busy, NEW status \in Status, Answer(r, status),
           UNCHANGED <<requests, before>>, \A s \in Req \ {r} : data'[s] = data[s],
           failed \subseteq failed', failed' \subseteq failed \cup {r}, UNCHANGED raced,
           r \in failed' \/ status = "200" \/ Operation(r) \notin ForPage
    PROVE  /\ Move(r)
           /\ Operation(r) \in ForPage =>
                 at'[r] = IF at[r] = "badges" THEN "badgesAnswered" ELSE "answered"
<1>1. /\ TypeOK
      /\ Operation(r) \in ForPage => requests[r].page \in Page /\ requests[r].page # NoPage
    BY DeluxeAssumption DEF IInv, RequestInv, RequestOK
<1>2. /\ \A s \in Req \ {r} : at'[s] = at[s] /\ reply'[s] = reply[s]
      /\ reply'[r] = status
      /\ at'[r] = IF requests[r].page = NoPage THEN "received"
                  ELSE IF at[r] = "badges" THEN "badgesAnswered" ELSE "answered"
    BY <1>1, AnswerStep
<1>3. at[r] \notin Over /\ Operation(r)' = Operation(r)
    BY DEF Busy, Over, Checked, Operation
<1>4. Served(r)'
    BY <1>2, <1>3 DEF Served
<1> QED
    BY <1>1, <1>2, <1>3, <1>4 DEF Move

LEMMA MoveGoTo ==
    ASSUME IInv, NEW r \in Known, at[r] \in Busy, NEW where \in Place, GoTo(r, where),
           UNCHANGED <<requests, before, data>>,
           failed \subseteq failed', failed' \subseteq failed \cup {r},
           raced' = raced \/ (raced' = raced \cup {r} /\ r \in failed'),
           where \in {"update", "insert", "insertLink"} \/ r \in failed' \/ Operation(r) \notin ForPage
    PROVE  Move(r) /\ at'[r] = where
<1>1. TypeOK /\ r \in Req
    BY KnownType DEF IInv
<1>2. /\ \A s \in Req \ {r} : at'[s] = at[s] /\ reply'[s] = reply[s]
      /\ at'[r] = where
    BY <1>1, GoToStep
<1>3. at[r] \notin Over /\ Operation(r)' = Operation(r)
    BY DEF Busy, Over, Checked, Operation
<1>4. Served(r)'
    BY <1>2, <1>3 DEF Served
<1> QED
    BY <1>2, <1>3, <1>4 DEF Move

LEMMA FindMove ==
    ASSUME IInv, NEW r \in Known, FindFavourite(r)
    PROVE  Move(r) /\ HandleOutcome(r)
<1>1. /\ at[r] \in Busy /\ UNCHANGED <<requests, before, data, tables>>
    BY DEF FindFavourite, Busy, Checked, sent, tables
<1>2. \/ GoTo(r, "update") /\ UNCHANGED <<failed, raced>>
      \/ GoTo(r, "insert") /\ UNCHANGED <<failed, raced>>
      \/ GoTo(r, "insert") /\ raced' = raced \cup {r} /\ failed' = failed \cup {r}
      \/ GoTo(r, "unanswered") /\ failed' = failed \cup {r} /\ UNCHANGED raced
    BY DEF FindFavourite, Fails, Succeeds, Throws
<1>3. "update" \in Place /\ "insert" \in Place /\ "unanswered" \in Place
    BY DEF Place, Busy, Over
<1>4. CASE GoTo(r, "update") /\ UNCHANGED <<failed, raced>>
    BY <1>1, <1>3, <1>4, MoveGoTo DEF HandleOutcome, GoesOn
<1>5. CASE GoTo(r, "insert") /\ UNCHANGED <<failed, raced>>
    BY <1>1, <1>3, <1>5, MoveGoTo DEF HandleOutcome, GoesOn
<1>6. CASE GoTo(r, "insert") /\ raced' = raced \cup {r} /\ failed' = failed \cup {r}
    BY <1>1, <1>3, <1>6, MoveGoTo DEF HandleOutcome, GoesOn
<1>7. CASE GoTo(r, "unanswered") /\ failed' = failed \cup {r} /\ UNCHANGED raced
    BY <1>1, <1>3, <1>7, MoveGoTo DEF HandleOutcome, Fruitless
<1> QED
    BY <1>2, <1>4, <1>5, <1>6, <1>7

LEMMA UpdateMove ==
    ASSUME IInv, NEW r \in Known, UpdateFavourite(r)
    PROVE  Move(r) /\ HandleOutcome(r)
<1> DEFINE i == ItemOf(r)
           n == found[r]
<1>1. /\ at[r] = "update" /\ at[r] \in Busy /\ UNCHANGED <<requests, before, data, raced, hc_shared_links>>
      /\ failed \subseteq failed' /\ failed' \subseteq failed \cup {r}
    BY DEF UpdateFavourite, Busy, sent, Fails, Succeeds, Throws
<1>2. "200" \in Status /\ "unanswered" \in Place
    BY DEF Status, Place, Over
<1>3. /\ Operation(r) = "add_to_favorites" /\ n \in DOMAIN deluxe_table
      /\ deluxe_table[n].item = i /\ \A m \in RowsOf(i) : n <= m
      /\ r \notin raced => copy[r] = ~deluxe_table[n].is_favorite
    BY <1>1, FoundRow
<1>4. /\ TypeOK /\ copy[r] \in BOOLEAN /\ i \in Item /\ deluxe_table \in Seq(BadgeRow)
    BY <1>3, KnownType DEF IInv, TypeOK, RequestInv, RequestOK, ForPage
<1>5. CASE UNCHANGED deluxe_table /\ GoTo(r, "unanswered") /\ r \in failed'
    BY <1>1, <1>2, <1>5, MoveGoTo DEF HandleOutcome, Fruitless, tables
<1>6. CASE /\ deluxe_table' = [deluxe_table EXCEPT ![n].is_favorite = copy[r]]
           /\ Answer(r, "200") /\ UNCHANGED failed
  <2>1. Move(r) /\ at'[r] = "answered"
    BY <1>1, <1>2, <1>3, <1>6, MoveAnswer DEF ForPage
  <2>2. /\ deluxe_table' \in Seq(BadgeRow) /\ Len(deluxe_table') = Len(deluxe_table)
        /\ \A m \in DOMAIN deluxe_table \ {n} : deluxe_table'[m] = deluxe_table[m]
    BY <1>3, <1>4, <1>6, FlagSet
  <2>3. /\ DOMAIN deluxe_table = 1..Len(deluxe_table)
        /\ DOMAIN deluxe_table' = 1..Len(deluxe_table)
        /\ \A m \in DOMAIN deluxe_table : m \in Nat /\ deluxe_table[m] \in BadgeRow
    BY <1>4, <2>2, RowsType
  <2>4. deluxe_table'[n] = [item |-> i, is_favorite |-> copy[r]]
    <3>1. deluxe_table[n] \in [item : Item, is_favorite : BOOLEAN]
        BY <1>3, <2>3 DEF BadgeRow
    <3>2. deluxe_table' = [deluxe_table EXCEPT ![n] = [deluxe_table[n] EXCEPT !.is_favorite = copy[r]]]
        BY <1>6
    <3> QED
        BY <1>3, <3>1, <3>2
  <2>5. ASSUME NEW f, f # FileOf(i) PROVE KeptRows(deluxe_table, deluxe_table', f)
    <3>1. \A m \in DOMAIN deluxe_table : deluxe_table'[m].item = deluxe_table[m].item
        BY <1>3, <2>2, <2>4
    <3>2. FileRows(deluxe_table', f) = FileRows(deluxe_table, f)
        BY <2>3, <3>1 DEF FileRows
    <3>3. n \notin FileRows(deluxe_table, f)
        BY <1>3, <2>5 DEF FileRows
    <3> QED
        BY <2>2, <3>2, <3>3 DEF KeptRows, FileRows
  <2>6. ASSUME r \notin raced PROVE KeptRows(ToggleBadge(deluxe_table, i), deluxe_table', FileOf(i))
    <3> DEFINE b == ToggleBadge(deluxe_table, i)
    <3>1. /\ b \in Seq(BadgeRow)
          /\ Adds(deluxe_table, b, i) \/ \E k \in DOMAIN deluxe_table : Flips(deluxe_table, b, i, k)
        BY <1>4, ToggleRows
    <3> HIDE DEF b
    <3>2. PICK k \in DOMAIN deluxe_table : Flips(deluxe_table, b, i, k)
        BY <1>3, <3>1 DEF Adds
    <3>3. k = n
      <4>1. k <= n
        BY <1>3, <3>2 DEF Flips
      <4>2. n <= k
        BY <1>3, <3>2 DEF Flips, RowsOf
      <4> QED
        BY <1>3, <2>3, <4>1, <4>2
    <3>4. Len(b) = Len(deluxe_table) /\ \A m \in DOMAIN deluxe_table : b[m] = deluxe_table'[m]
        BY <2>2, <2>4, <2>6, <1>3, <3>2, <3>3 DEF Flips
    <3>5. DOMAIN b = DOMAIN deluxe_table'
        BY <2>3, <3>1, <3>4, RowsType
    <3>6. \A m \in DOMAIN b : b[m] = deluxe_table'[m]
        BY <2>3, <3>4, <3>5
    <3>7. KeptRows(b, deluxe_table', FileOf(i))
        BY <3>5, <3>6 DEF KeptRows, FileRows
    <3> QED
        BY <3>7 DEF b
  <2>7. r \notin raced => Same(ToggleBadge(deluxe_table, i), deluxe_table', FileOf(i))
    BY <2>6, KeptSame
  <2> QED
    BY <1>1, <1>3, <2>1, <2>2, <2>5, <2>7 DEF HandleOutcome, Toggled
<1> QED
    BY <1>5, <1>6 DEF UpdateFavourite, Fails, Succeeds, Throws

LEMMA InsertMove ==
    ASSUME IInv, NEW r \in Known, InsertFavourite(r)
    PROVE  Move(r) /\ HandleOutcome(r)
<1> DEFINE i == ItemOf(r)
           row == [item |-> i, is_favorite |-> TRUE]
<1>1. /\ at[r] = "insert" /\ at[r] \in Busy /\ UNCHANGED <<requests, before, data, raced, hc_shared_links>>
      /\ failed \subseteq failed' /\ failed' \subseteq failed \cup {r}
    BY DEF InsertFavourite, Busy, sent, Fails, Succeeds, Throws
<1>2. "200" \in Status /\ "unanswered" \in Place
    BY DEF Status, Place, Over
<1>3. Operation(r) = "add_to_favorites" /\ (r \notin raced => RowsOf(i) = {})
    BY <1>1 DEF IInv, ToggleInv, RequestInv, RequestOK, PlaceOK
<1>4. /\ TypeOK /\ i \in Item /\ deluxe_table \in Seq(BadgeRow)
    BY <1>3, KnownType DEF IInv, TypeOK, RequestInv, RequestOK, ForPage
<1>5. CASE UNCHANGED deluxe_table /\ GoTo(r, "unanswered") /\ r \in failed'
    BY <1>1, <1>2, <1>5, MoveGoTo DEF HandleOutcome, Fruitless, tables
<1>6. CASE deluxe_table' = Append(deluxe_table, row) /\ Answer(r, "200") /\ UNCHANGED failed
  <2>1. Move(r) /\ at'[r] = "answered"
    BY <1>1, <1>2, <1>3, <1>6, MoveAnswer DEF ForPage
  <2>2. deluxe_table' \in Seq(BadgeRow)
    BY <1>4, <1>6, RowAdded
  <2>3. /\ DOMAIN deluxe_table = 1..Len(deluxe_table) /\ Len(deluxe_table) \in Nat
        /\ DOMAIN deluxe_table' = DOMAIN deluxe_table \cup {Len(deluxe_table) + 1}
        /\ Len(deluxe_table) + 1 \notin DOMAIN deluxe_table
        /\ \A m \in DOMAIN deluxe_table : deluxe_table'[m] = deluxe_table[m]
        /\ deluxe_table'[Len(deluxe_table) + 1] = row
    <3>1. row \in BadgeRow
        BY <1>4 DEF BadgeRow
    <3>2. /\ Len(deluxe_table') = Len(deluxe_table) + 1
          /\ \A m \in 1..Len(deluxe_table) : deluxe_table'[m] = deluxe_table[m]
          /\ deluxe_table'[Len(deluxe_table) + 1] = row
        BY <1>4, <1>6, <3>1, AppendProperties
    <3>3. /\ DOMAIN deluxe_table = 1..Len(deluxe_table) /\ Len(deluxe_table) \in Nat
          /\ DOMAIN deluxe_table' = 1..Len(deluxe_table')
        BY <1>4, <2>2, RowsType
    <3> QED
        BY <3>2, <3>3
  <2>4. ASSUME NEW f, f # FileOf(i) PROVE KeptRows(deluxe_table, deluxe_table', f)
    <3>1. FileRows(deluxe_table', f) = FileRows(deluxe_table, f)
        BY <2>3, <2>4 DEF FileRows
    <3> QED
        BY <2>3, <3>1 DEF KeptRows, FileRows
  <2>5. ASSUME r \notin raced PROVE ToggleBadge(deluxe_table, i) = deluxe_table'
    <3>1. {n \in DOMAIN deluxe_table : deluxe_table[n].item = i} = {}
        BY <1>3, <2>5 DEF RowsOf
    <3> QED
        BY <1>6, <3>1 DEF ToggleBadge
  <2>6. r \notin raced => Same(ToggleBadge(deluxe_table, i), deluxe_table', FileOf(i))
    <3>1. KeptRows(deluxe_table', deluxe_table', FileOf(i))
        BY DEF KeptRows
    <3> QED
        BY <2>5, <3>1, KeptSame
  <2> QED
    BY <1>1, <1>3, <2>1, <2>2, <2>4, <2>6 DEF HandleOutcome, Toggled
<1> QED
    BY <1>5, <1>6 DEF InsertFavourite, Fails, Succeeds, Throws

LEMMA LinkMove ==
    ASSUME IInv, NEW r \in Known, Generate(r) \/ InsertLink(r) \/ DeleteLinks(r)
    PROVE  Move(r) /\ HandleOutcome(r)
<1>1. /\ at[r] \in Busy /\ UNCHANGED <<requests, before, data, deluxe_table, raced>>
      /\ failed \subseteq failed' /\ failed' \subseteq failed \cup {r}
    BY DEF Generate, InsertLink, DeleteLinks, Busy, Checked, sent, tables, Fails, Succeeds
<1>2. "200" \in Status /\ "501" \in Status /\ "insertLink" \in Place
    BY DEF Status, Place, Busy
<1>3. CASE Generate(r)
  <2>1. GoTo(r, "insertLink") /\ UNCHANGED <<hc_shared_links, failed>>
    BY <1>3 DEF Generate, tables
  <2> QED
    BY <1>1, <1>2, <2>1, MoveGoTo DEF HandleOutcome, GoesOn, tables
<1>4. CASE InsertLink(r)
  <2>1. /\ at[r] = "insertLink" /\ Answer(r, "200")
        /\ \/ hc_shared_links' = Append(hc_shared_links,
                  [item |-> ItemOf(r), key_token |-> key_token[r], by |-> r])
           \/ UNCHANGED hc_shared_links /\ r \in failed'
    BY <1>4 DEF InsertLink, Fails
  <2>2. Operation(r) = "generate_share_link"
    BY <2>1 DEF IInv, RequestInv, RequestOK, PlaceOK
  <2>3. Move(r) /\ at'[r] = "answered"
    BY <1>1, <1>2, <2>1, <2>2, MoveAnswer DEF ForPage
  <2> QED
    BY <1>1, <2>1, <2>2, <2>3 DEF HandleOutcome, LinkMade, Fruitless, tables
<1>5. CASE DeleteLinks(r)
  <2>1. at[r] = "delete" /\ Operation(r) = "remove_share_link"
    BY <1>5 DEF DeleteLinks, IInv, RequestInv, RequestOK, PlaceOK
  <2>2. CASE KeepOthers(ItemOf(r)) /\ Answer(r, "200")
    <3>1. Move(r) /\ at'[r] = "answered"
        BY <1>1, <1>2, <2>1, <2>2, MoveAnswer DEF ForPage
    <3> QED
        BY <1>1, <2>1, <2>2, <3>1 DEF HandleOutcome, LinksGone
  <2>3. CASE /\ UNCHANGED hc_shared_links /\ r \in failed'
             /\ \E status \in {"200", "501"} : Answer(r, status)
    <3>1. Move(r)
        BY <1>1, <1>2, <2>3, MoveAnswer
    <3> QED
        BY <1>1, <2>3, <3>1 DEF HandleOutcome, Fruitless, tables
  <2> QED
    BY <1>5, <2>2, <2>3 DEF DeleteLinks, Fails
<1> QED
    BY <1>3, <1>4, <1>5

LEMMA ListMove ==
    ASSUME IInv, NEW r \in Known, ListBadges(r) \/ ListLinks(r)
    PROVE  Move(r) /\ HandleOutcome(r)
<1>1. PICK where \in {"badges", "links"} :
      /\ at[r] = where
      /\ \/ /\ Answer(r, "200") /\ UNCHANGED failed
            /\ data' = [data EXCEPT ![r] = IF where = "badges" THEN deluxe_table ELSE hc_shared_links]
         \/ Answer(r, "500") /\ UNCHANGED data /\ failed' = failed \cup {r}
      /\ UNCHANGED <<requests, before, tables, raced>>
    BY DEF ListBadges, ListLinks, List, sent, Fails, Succeeds
<1>2. /\ r \in Req /\ at[r] \in Busy /\ Operation(r) = "load" /\ data \in [Req -> Seq(BadgeRow) \cup Seq(LinkRow)]
    BY <1>1, KnownType DEF IInv, TypeOK, RequestInv, RequestOK, PlaceOK, Busy, Checked
<1>3. "200" \in Status /\ "500" \in Status
    BY DEF Status
<1>4. CASE Answer(r, "500") /\ UNCHANGED data /\ failed' = failed \cup {r}
    BY <1>1, <1>2, <1>3, <1>4, MoveAnswer DEF HandleOutcome, Fruitless
<1>5. CASE /\ Answer(r, "200") /\ UNCHANGED failed
           /\ data' = [data EXCEPT ![r] = IF where = "badges" THEN deluxe_table ELSE hc_shared_links]
  <2>1. /\ \A s \in Req \ {r} : data'[s] = data[s]
        /\ data'[r] = IF where = "badges" THEN deluxe_table ELSE hc_shared_links
    BY <1>2, <1>5
  <2>2. Move(r) /\ at'[r] = IF at[r] = "badges" THEN "badgesAnswered" ELSE "answered"
    BY <1>1, <1>2, <1>3, <1>5, <2>1, MoveAnswer DEF ForPage
  <2> QED
    BY <1>1, <1>2, <2>1, <2>2 DEF HandleOutcome, Lists
<1> QED
    BY <1>1, <1>4, <1>5

LEMMA HandleMove ==
    ASSUME IInv, NEW r \in Known, Handle(r)
    PROVE  Move(r) /\ HandleOutcome(r)
<1>1. CASE Refuse(r)
  <2>1. /\ at[r] \in Busy /\ Answer(r, "redirect") /\ failed' = failed \cup {r}
        /\ UNCHANGED <<requests, before, data, raced, tables>> /\ "redirect" \in Status
    BY <1>1 DEF Refuse, Busy, sent, Fails, Status
  <2> QED
    BY <2>1, MoveAnswer DEF HandleOutcome, Fruitless
<1>2. ASSUME at[r] \in {"trash", "ignore", "follow"}, UNCHANGED <<requests, before, data, raced, tables>>,
             failed \subseteq failed', failed' \subseteq failed \cup {r},
             GoTo(r, "unanswered") \/ \E status \in {"200", "500"} : Answer(r, status)
      PROVE  Move(r) /\ HandleOutcome(r)
  <2>1. at[r] \in Busy /\ Operation(r) \notin ForPage
    BY <1>2 DEF Busy, Checked, IInv, RequestInv, RequestOK, PlaceOK, ForPage
  <2>2. "200" \in Status /\ "500" \in Status /\ "unanswered" \in Place
    BY DEF Status, Place, Over
  <2>3. Move(r)
    BY <1>2, <2>1, <2>2, MoveAnswer, MoveGoTo
  <2> QED
    BY <1>2, <2>1, <2>3 DEF HandleOutcome, Foreign
<1>3. CASE Trash(r) \/ Ignore(r)
  <2>1. /\ at[r] \in {"trash", "ignore"} /\ UNCHANGED <<requests, before, data, raced, tables>>
        /\ failed \subseteq failed' /\ failed' \subseteq failed \cup {r}
        /\ GoTo(r, "unanswered") \/ Answer(r, "500")
    BY <1>3 DEF Trash, Ignore, sent, Fails, Succeeds
  <2> QED
    BY <1>2, <2>1
<1>4. CASE Follow(r)
  <2>1. /\ at[r] = "follow" /\ UNCHANGED <<requests, before, data, raced, tables>>
        /\ failed \subseteq failed' /\ failed' \subseteq failed \cup {r}
        /\ GoTo(r, "unanswered") \/ Answer(r, "200")
    BY <1>4 DEF Follow, sent, Fails, Succeeds, Throws
  <2> QED
    BY <1>2, <2>1
<1> QED
    BY <1>1, <1>3, <1>4, FindMove, UpdateMove, InsertMove, LinkMove, ListMove DEF Handle

\* What the callbacks do to the page of the request.
Shuts(r) == r \in failed' /\ UNCHANGED page

BadgesIn(r) ==
    /\ Operation(r) = "load" /\ at[r] = "badgesAnswered" /\ at'[r] = "links"
    /\ UNCHANGED shared_links
    /\ \A q \in Page \ {requests[r].page} : file_sys_badge'[q] = file_sys_badge[q]
    /\ r \notin failed' => file_sys_badge'[requests[r].page] = data[r] /\ data[r] \in Seq(BadgeRow)

FavouriteIn(r) ==
    /\ Operation(r) = "add_to_favorites" /\ at[r] = "answered" /\ at'[r] = "received"
    /\ UNCHANGED shared_links
    /\ \A q \in Page \ {requests[r].page} : file_sys_badge'[q] = file_sys_badge[q]
    /\ LET p == requests[r].page
       IN  file_sys_badge[p] \in Seq(BadgeRow) =>
              \/ file_sys_badge'[p] = ToggleBadge(file_sys_badge[p], ItemOf(r))
              \/ r \in failed /\ file_sys_badge'[p] = file_sys_badge[p]

ShareIn(r) ==
    /\ Operation(r) = "generate_share_link" /\ at[r] = "answered" /\ at'[r] = "received"
    /\ UNCHANGED file_sys_badge
    /\ \A q \in Page \ {requests[r].page} : shared_links'[q] = shared_links[q]
    /\ LET p == requests[r].page
       IN  \/ shared_links'[p] = Append(shared_links[p], ItemOf(r))
           \/ r \in failed /\ shared_links'[p] = shared_links[p]

RemoveIn(r) ==
    /\ Operation(r) = "remove_share_link" /\ at[r] = "answered" /\ at'[r] = "received"
    /\ UNCHANGED file_sys_badge
    /\ \A q \in Page \ {requests[r].page} : shared_links'[q] = shared_links[q]
    /\ LET p == requests[r].page
       IN  \/ \E n \in DOMAIN shared_links[p] :
                 /\ FileOf(shared_links[p][n]) = FileOf(ItemOf(r))
                 /\ shared_links'[p] = RemoveAt(shared_links[p], n)
           \/ /\ r \in failed \/ ~HasShareLink(p, FileOf(ItemOf(r)))
              /\ shared_links'[p] = shared_links[p]

LinksIn(r) ==
    /\ Operation(r) = "load" /\ at[r] = "answered" /\ at'[r] = "received"
    /\ UNCHANGED file_sys_badge
    /\ \A q \in Page \ {requests[r].page} : shared_links'[q] = shared_links[q]
    /\ r \notin failed =>
          shared_links'[requests[r].page] = [n \in DOMAIN data[r] |-> data[r][n].item]

CallbackOutcome(r) ==
    UNCHANGED tables /\ (Shuts(r) \/ BadgesIn(r) \/ FavouriteIn(r) \/ ShareIn(r) \/ RemoveIn(r) \/ LinksIn(r))

LEMMA CallbackMove ==
    ASSUME IInv, ReplyInv, NEW r \in Known, ReceiveBadges(r) \/ Receive(r) \/ Lose(r)
    PROVE  Move(r) /\ CallbackOutcome(r)
<1> DEFINE p == requests[r].page
<1>1. /\ UNCHANGED <<requests, before, tables, raced>> /\ at[r] \in {"badgesAnswered", "answered"}
      /\ failed \subseteq failed' /\ failed' \subseteq failed \cup {r}
      /\ data' = [data EXCEPT ![r] = <<>>]
    BY DEF ReceiveBadges, Receive, Lose, sent, Fails
<1>2. /\ TypeOK /\ r \in Req /\ p \in Page /\ at \in [Req -> Place] /\ reply \in [Req -> Status]
      /\ data \in [Req -> Seq(BadgeRow) \cup Seq(LinkRow)]
      /\ file_sys_badge \in [Page -> {Undefined} \cup Seq(BadgeRow)]
      /\ shared_links \in [Page -> Seq(Item)]
    BY <1>1, KnownType DEF IInv, TypeOK, RequestInv, RequestOK, Place, Status
<1>3. Operation(r) \in ForPage /\ Operation(r)' = Operation(r)
    BY <1>1, <1>2 DEF IInv, RequestInv, RequestOK, Operation
<1>4. \A s \in Req \ {r} : data'[s] = data[s]
    BY <1>1, <1>2
<1>5. r \notin failed => reply[r] = "200"
    BY <1>1, <1>3 DEF ReplyInv, Served
<1>6. at[r] \notin Over
    BY <1>1 DEF Over
<1>7. ASSUME NEW where \in Place, GoTo(r, where), where = "received" \/ (where = "lost" /\ r \in failed')
      PROVE  Move(r) /\ at'[r] = where
  <2>1. /\ \A s \in Req \ {r} : at'[s] = at[s] /\ reply'[s] = reply[s]
        /\ at'[r] = where /\ reply' = reply
    BY <1>2, <1>7, GoToStep
  <2>2. Served(r)'
    BY <1>1, <1>3, <1>5, <1>7, <2>1 DEF Served
  <2> QED
    BY <1>1, <1>4, <1>6, <2>1, <2>2 DEF Move
<1>8. CASE ReceiveBadges(r)
  <2>1. /\ at[r] = "badgesAnswered" /\ at' = [at EXCEPT ![r] = "links"]
        /\ reply' = [reply EXCEPT ![r] = "none"] /\ UNCHANGED shared_links
        /\ \/ /\ file_sys_badge' = [file_sys_badge EXCEPT ![p] =
                                        IF reply[r] = "200" THEN data[r] ELSE Undefined]
              /\ UNCHANGED failed
           \/ /\ file_sys_badge' = [file_sys_badge EXCEPT ![p] = Undefined]
              /\ failed' = failed \cup {r}
    BY <1>8 DEF ReceiveBadges, Fails
  <2>2. at'[r] = "links" /\ \A s \in Req \ {r} : at'[s] = at[s] /\ reply'[s] = reply[s]
    BY <1>2, <2>1
  <2>3. Move(r)
    <3>1. Served(r)'
        BY <2>2 DEF Served
    <3> QED
        BY <1>1, <1>4, <1>6, <2>2, <3>1 DEF Move
  <2>4. Operation(r) = "load" /\ (reply[r] = "200" => data[r] \in Seq(BadgeRow))
    BY <2>1 DEF IInv, RequestInv, RequestOK, PlaceOK, DataInv
  <2>5. \A q \in Page \ {p} : file_sys_badge'[q] = file_sys_badge[q]
    BY <1>2, <2>1
  <2>6. r \notin failed' => file_sys_badge'[p] = data[r] /\ data[r] \in Seq(BadgeRow)
    BY <1>1, <1>2, <1>5, <2>1, <2>4
  <2> QED
    BY <1>1, <2>1, <2>2, <2>3, <2>4, <2>5, <2>6 DEF CallbackOutcome, BadgesIn
<1>9. CASE Lose(r)
  <2>1. GoTo(r, "lost") /\ r \in failed' /\ UNCHANGED page /\ "lost" \in Place
    BY <1>9 DEF Lose, Fails, Place, Over
  <2> QED
    BY <1>1, <1>7, <2>1 DEF CallbackOutcome, Shuts
<1>10. CASE Receive(r)
  <2>1. at[r] = "answered" /\ GoTo(r, "received") /\ UNCHANGED failed /\ "received" \in Place
    BY <1>10 DEF Receive, Place, Over
  <2>2. Move(r) /\ at'[r] = "received"
    BY <1>7, <2>1
  <2>3. r \notin failed => LooksLike200(r)
    BY <1>5 DEF LooksLike200
  <2>4. CASE Operation(r) = "add_to_favorites"
    <3>1. FavouriteDone(r, p)
        BY <1>10, <2>4 DEF Receive
    <3>2. /\ UNCHANGED shared_links
          /\ \A q \in Page \ {p} : file_sys_badge'[q] = file_sys_badge[q]
        BY <1>2, <3>1 DEF FavouriteDone
    <3>3. ASSUME file_sys_badge[p] \in Seq(BadgeRow)
          PROVE  \/ file_sys_badge'[p] = ToggleBadge(file_sys_badge[p], ItemOf(r))
                 \/ r \in failed /\ file_sys_badge'[p] = file_sys_badge[p]
      <4>1. file_sys_badge[p] # Undefined
        BY <3>3, UndefinedAssumption
      <4> QED
        BY <1>2, <2>3, <3>1, <4>1 DEF FavouriteDone
    <3> QED
        BY <1>1, <2>1, <2>2, <2>4, <3>2, <3>3 DEF CallbackOutcome, FavouriteIn
  <2>5. CASE Operation(r) = "generate_share_link"
    <3>1. ShareDone(r, p)
        BY <1>10, <2>5 DEF Receive
    <3>2. /\ UNCHANGED file_sys_badge
          /\ \A q \in Page \ {p} : shared_links'[q] = shared_links[q]
          /\ \/ shared_links'[p] = Append(shared_links[p], ItemOf(r))
             \/ r \in failed /\ shared_links'[p] = shared_links[p]
        BY <1>2, <2>3, <3>1 DEF ShareDone
    <3> QED
        BY <1>1, <2>1, <2>2, <2>5, <3>2 DEF CallbackOutcome, ShareIn
  <2>6. CASE Operation(r) = "remove_share_link"
    <3> DEFINE links == {n \in DOMAIN shared_links[p] :
                             FileOf(shared_links[p][n]) = FileOf(ItemOf(r))}
    <3>1. RemoveDone(r, p)
        BY <1>10, <2>6 DEF Receive
    <3>2. UNCHANGED file_sys_badge
        BY <3>1 DEF RemoveDone
    <3>3. \/ \E n \in links : shared_links' = [shared_links EXCEPT ![p] = RemoveAt(@, n)]
          \/ UNCHANGED shared_links /\ (links = {} \/ r \in failed)
        BY <2>3, <3>1 DEF RemoveDone
    <3>4. \A q \in Page \ {p} : shared_links'[q] = shared_links[q]
        BY <1>2, <3>3
    <3>5. \/ \E n \in links : shared_links'[p] = RemoveAt(shared_links[p], n)
          \/ /\ r \in failed \/ ~HasShareLink(p, FileOf(ItemOf(r)))
             /\ shared_links'[p] = shared_links[p]
        BY <1>2, <3>3 DEF HasShareLink
    <3> QED
        BY <1>1, <2>1, <2>2, <2>6, <3>2, <3>4, <3>5 DEF CallbackOutcome, RemoveIn
  <2>7. CASE Operation(r) = "load"
    <3>1. LinksDone(r, p)
        BY <1>10, <2>7 DEF Receive
    <3>2. /\ UNCHANGED file_sys_badge
          /\ \A q \in Page \ {p} : shared_links'[q] = shared_links[q]
          /\ r \notin failed => shared_links'[p] = [n \in DOMAIN data[r] |-> data[r][n].item]
        BY <1>2, <1>5, <3>1 DEF LinksDone
    <3> QED
        BY <1>1, <2>1, <2>2, <2>7, <3>2 DEF CallbackOutcome, LinksIn
  <2> QED
    BY <1>3, <2>4, <2>5, <2>6, <2>7 DEF ForPage
<1> QED
    BY <1>8, <1>9, <1>10

-----------------------------------------------------------------------------
(***************************************************************************)
(* The parts of the invariant about requests and rows.                     *)
(***************************************************************************)
LEMMA MoveFacts ==
    ASSUME IInv, NEW r, Move(r)
    PROVE  /\ r \in Known /\ r \in Req /\ Known' = Known /\ Known \subseteq Req /\ Known \subseteq Nat
           /\ requests' = requests /\ before' = before
           /\ \A s : /\ Operation(s)' = Operation(s) /\ ItemOf(s)' = ItemOf(s)
                     /\ IsGenerate(s)' = IsGenerate(s) /\ IsRemove(s)' = IsRemove(s)
           /\ \A s \in Known \ {r} : at'[s] = at[s] /\ reply'[s] = reply[s] /\ data'[s] = data[s]
           /\ \A s : s # r => (s \in failed' <=> s \in failed)
           /\ failed \subseteq failed'
           /\ \A s \in Known : \A q \in before[s] : q \in Known /\ q # r /\ at[q] \in Over
<1>1. TypeOK /\ r \in Known /\ requests' = requests /\ before' = before /\ at[r] \notin Over
    BY DEF IInv, Move
<1>2. Known \subseteq Req /\ Known = 1..Len(requests) /\ Len(requests) \in Nat
    BY <1>1, KnownType
<1>3. \A s \in Known : \A q \in before[s] : q \in Known /\ at[q] \in Over
    BY DEF IInv, RequestInv, RequestOK
<1>4. Known' = Known /\ \A s : Operation(s)' = Operation(s) /\ ItemOf(s)' = ItemOf(s)
    BY <1>1 DEF Known, Operation, ItemOf
<1> QED
    BY <1>1, <1>2, <1>3, <1>4 DEF Move, IsGenerate, IsRemove

LEMMA MoveKept ==
    ASSUME IInv, NEW r, Move(r), BeforeInv, ReplyInv, RacedInv
    PROVE  BeforeInv' /\ ReplyInv' /\ RacedInv'
<1>1. /\ r \in Known /\ Known' = Known /\ before' = before /\ failed \subseteq failed'
      /\ \A s : Operation(s)' = Operation(s) /\ ItemOf(s)' = ItemOf(s)
      /\ \A s \in Known \ {r} : at'[s] = at[s] /\ reply'[s] = reply[s]
      /\ \A s : s # r => (s \in failed' <=> s \in failed)
    BY MoveFacts
<1>2. BeforeInv'
    BY <1>1 DEF BeforeInv
<1>3. ReplyInv'
    BY <1>1 DEF ReplyInv, Served, Move
<1>4. \A s, q : Beside(s, q)' <=> Beside(s, q)
    BY <1>1 DEF Beside
<1>5. raced' = raced \/ (raced' = raced \cup {r} /\ r \in failed')
    BY DEF Move
<1>6. RacedInv'
  <2> SUFFICES ASSUME NEW q \in raced'
               PROVE  q \in Known' /\ (q \in failed' \/ \E s : Beside(s, q)')
    BY DEF RacedInv
  <2>1. CASE q \in raced
    BY <1>1, <1>4, <2>1 DEF RacedInv
  <2>2. CASE q = r /\ r \in failed'
    BY <1>1, <2>2
  <2> QED
    BY <1>5, <2>1, <2>2
<1> QED
    BY <1>2, <1>3, <1>6

LEMMA ByKept ==
    ASSUME IInv, NEW r \in Known, HandleOutcome(r), ByInv
    PROVE  ByInv'
<1>1. TypeOK /\ LinkInv /\ hc_shared_links \in Seq(LinkRow)
    BY DEF IInv, LinksInv, TypeOK
<1>2. CASE UNCHANGED hc_shared_links
    BY <1>2 DEF ByInv
<1>3. CASE LinkMade(r)
  <2> DEFINE row == [item |-> ItemOf(r), key_token |-> key_token[r], by |-> r]
             size == Len(hc_shared_links)
  <2>1. /\ ItemOf(r) \in Item /\ r \in Req /\ key_token[r] \in Nat /\ ~Carried(r)
    BY <1>1, <1>3, KnownType, DeluxeAssumption
       DEF LinkMade, IInv, TypeOK, RequestInv, RequestOK, ForPage, Carried, Over, Busy, Checked
  <2>2. row \in LinkRow
    BY <2>1 DEF LinkRow
  <2>3. /\ hc_shared_links' = Append(hc_shared_links, row)
    BY <1>3 DEF LinkMade
  <2> HIDE DEF row
  <2>4. /\ size \in Nat /\ DOMAIN hc_shared_links = 1..size
        /\ DOMAIN hc_shared_links' = 1..size + 1
        /\ \A n \in 1..size : hc_shared_links'[n] = hc_shared_links[n]
        /\ hc_shared_links'[size + 1] = row
    BY <1>1, <2>2, <2>3, AppendProperties, LenProperties
  <2>5. \A n \in 1..size : hc_shared_links[n].by # r
    BY <1>1, <2>1, <2>4 DEF LinkInv
  <2>6. row.by = r
    BY DEF row
  <2>7. \A n \in 1..size + 1 : n \in 1..size \/ n = size + 1
    BY <2>4
  <2> QED
    BY <2>4, <2>5, <2>6, <2>7 DEF ByInv
<1>4. CASE LinksGone(r)
  <2> DEFINE i == ItemOf(r)
             kept == {n \in DOMAIN hc_shared_links : hc_shared_links[n].item # i}
  <2>1. PICK nth \in [1..Cardinality(kept) -> kept] :
        /\ \A j, k \in DOMAIN nth : j < k => nth[j] < nth[k]
        /\ hc_shared_links' = [k \in DOMAIN nth |-> hc_shared_links[nth[k]]]
    BY <1>4 DEF LinksGone, KeepOthers
  <2>2. IsFiniteSet(kept)
    <3>1. Len(hc_shared_links) \in Nat /\ DOMAIN hc_shared_links = 1..Len(hc_shared_links)
        BY <1>1, LenProperties
    <3>2. IsFiniteSet(1..Len(hc_shared_links))
        BY <3>1, FS_Interval
    <3> QED
        BY <3>1, <3>2, FS_Subset
  <2>3. Cardinality(kept) \in Nat
    BY <2>2, FS_CardinalityType
  <2>4. kept \subseteq Nat
    BY <1>1, LenProperties
  <2> HIDE DEF kept
  <2>5. \A j, k \in 1..Cardinality(kept) : j # k => nth[j] # nth[k]
    <3> SUFFICES ASSUME NEW j \in 1..Cardinality(kept), NEW k \in 1..Cardinality(kept), j # k
                 PROVE  nth[j] # nth[k]
        OBVIOUS
    <3>1. nth[j] \in Nat /\ nth[k] \in Nat
        BY <2>4
    <3>2. j < k \/ k < j
        BY <2>3
    <3> QED
        BY <2>1, <3>1, <3>2
  <2>6. /\ DOMAIN hc_shared_links' = 1..Cardinality(kept)
        /\ \A k \in 1..Cardinality(kept) :
              hc_shared_links'[k] = hc_shared_links[nth[k]] /\ nth[k] \in DOMAIN hc_shared_links
    BY <2>1 DEF kept
  <2> QED
    BY <2>5, <2>6 DEF ByInv
<1> QED
    BY <1>2, <1>3, <1>4 DEF HandleOutcome, Fruitless, GoesOn, Foreign, Lists, Toggled, tables

LEMMA SentFacts ==
    ASSUME IInv, NEW r, NEW op, NEW p, NEW i, NEW l, Sendable(op, p, i, l), Sent(r, op, p, i, l)
    PROVE  /\ r \in Req /\ r \notin Known /\ Known' = Known \cup {r} /\ Known \subseteq Nat /\ r \in Nat
           /\ \A s \in Known : s < r
           /\ \A s \in Known : /\ Operation(s)' = Operation(s) /\ ItemOf(s)' = ItemOf(s)
                               /\ requests'[s] = requests[s]
                               /\ at'[s] = at[s] /\ before'[s] = before[s] /\ data'[s] = data[s]
           /\ Operation(r)' = op /\ ItemOf(r)' = i /\ requests'[r].page = p
           /\ before'[r] = {s \in Known : at[s] \in Over} /\ r \notin failed
           /\ at'[r] \notin Over \cup {"answered", "badgesAnswered", "links"}
           /\ UNCHANGED <<reply, data, tables, page, failed>>
           /\ \A s \in Known : \A q \in before[s] : q \in Known /\ q # r /\ at[q] \in Over
<1>1. /\ r \in Req /\ r \notin Known /\ Known' = Known \cup {r} /\ TypeOK
      /\ UNCHANGED <<reply, data, tables, page, failed>> /\ r \notin failed
      /\ before'[r] = {s \in Known : at[s] \in Over}
      /\ requests'[r].page = p /\ \A s \in Known : requests'[s] = requests[s]
    BY DEF Sent, IInv, tables, page
<1>2. /\ \A s \in Known : /\ s # r /\ Operation(s)' = Operation(s) /\ ItemOf(s)' = ItemOf(s)
                          /\ at'[s] = at[s] /\ before'[s] = before[s]
      /\ Operation(r)' = op /\ ItemOf(r)' = i
      /\ at'[r] \notin Over \cup {"answered", "badgesAnswered"}
    BY SentOthers
<1>3. Known = 1..Len(requests) /\ Len(requests) \in Nat /\ Req \subseteq Nat
    BY <1>1, KnownType DEF Req
<1>4. \A s \in Known : \A q \in before[s] : q \in Known /\ at[q] \in Over
    BY DEF IInv, RequestInv, RequestOK
<1>5. at'[r] # "links"
    BY FirstStepFacts DEF Sent, Sendable
<1>6. \A s \in Known : s < r
    BY <1>1, <1>3 DEF Req
<1> QED
    BY <1>1, <1>2, <1>3, <1>4, <1>5, <1>6

LEMMA SentKept ==
    ASSUME IInv, NEW r, NEW op, NEW p, NEW i, NEW l, Sendable(op, p, i, l), Sent(r, op, p, i, l),
           BeforeInv, ReplyInv, ByInv, RacedInv
    PROVE  BeforeInv' /\ ReplyInv' /\ ByInv' /\ RacedInv'
<1>1. /\ r \in Req /\ r \notin Known /\ Known' = Known \cup {r} /\ Known \subseteq Nat /\ r \in Nat
      /\ \A s \in Known : s < r
      /\ \A s \in Known : /\ Operation(s)' = Operation(s) /\ ItemOf(s)' = ItemOf(s)
                          /\ at'[s] = at[s] /\ before'[s] = before[s]
      /\ Operation(r)' = op /\ ItemOf(r)' = i
      /\ before'[r] = {s \in Known : at[s] \in Over} /\ r \notin failed
      /\ at'[r] \notin Over \cup {"answered", "badgesAnswered", "links"}
      /\ UNCHANGED <<reply, hc_shared_links, failed>>
      /\ \A s \in Known : \A q \in before[s] : q \in Known /\ q # r /\ at[q] \in Over
    BY SentFacts DEF tables
<1>2. BeforeInv'
  <2>1. \A q \in Known' : \A s \in before'[q] : s < q
    <3>1. \A q \in Known : \A s \in before'[q] : s < q
        BY <1>1 DEF BeforeInv
    <3>2. \A s \in before'[r] : s < r
        BY <1>1
    <3> QED
        BY <1>1, <3>1, <3>2
  <2>2. ASSUME NEW q \in Known', NEW s \in Known', q < s PROVE before'[q] \subseteq before'[s]
    <3>1. q \in Known
        BY <1>1, <2>2
    <3>2. CASE s \in Known
        BY <1>1, <2>2, <3>1, <3>2 DEF BeforeInv
    <3>3. CASE s = r
        BY <1>1, <3>1, <3>3
    <3> QED
        BY <1>1, <3>2, <3>3
  <2> QED
    BY <2>1, <2>2 DEF BeforeInv
<1>3. ReplyInv'
  <2>1. Served(r)'
    BY <1>1 DEF Served, Over
  <2>2. \A s \in Known : Served(s)'
    BY <1>1 DEF ReplyInv, Served
  <2> QED
    BY <1>1, <2>1, <2>2 DEF ReplyInv
<1>4. ByInv'
    BY <1>1 DEF ByInv
<1>5. RacedInv'
  <2>1. \A s, q : Beside(s, q) /\ q \in Known => Beside(s, q)'
    BY <1>1 DEF Beside
  <2>2. ASSUME NEW q \in raced' \ raced PROVE q \in Known' /\ \E s : Beside(s, q)'
    <3>1. op = "add_to_favorites" /\ q \in Toggling(i) \cup {r}
        BY <2>2 DEF Sent
    <3>2. \A s \in Toggling(i) : Beside(s, r)' /\ Beside(r, s)'
      <4> SUFFICES ASSUME NEW s \in Toggling(i) PROVE Beside(s, r)' /\ Beside(r, s)'
        OBVIOUS
      <4>1. s \in Known /\ Operation(s) = "add_to_favorites" /\ ItemOf(s) = i /\ at[s] \in Busy
        BY DEF Toggling
      <4>2. s \notin before'[r] /\ r \notin before'[s] /\ s # r
        BY <1>1, <4>1 DEF Busy, Checked, Over
      <4> QED
        BY <1>1, <3>1, <4>1, <4>2 DEF Beside
    <3>3. CASE q \in Toggling(i)
        BY <1>1, <3>2, <3>3 DEF Toggling
    <3>4. CASE q = r
      <4>1. Toggling(i) # {}
        BY <2>2 DEF Sent
      <4> QED
        BY <1>1, <3>2, <3>4, <4>1
    <3> QED
        BY <3>1, <3>3, <3>4
  <2>3. ASSUME NEW q \in raced PROVE q \in Known' /\ (q \in failed' \/ \E s : Beside(s, q)')
    BY <1>1, <2>1 DEF RacedInv
  <2> QED
    BY <2>2, <2>3 DEF RacedInv
<1> QED
    BY <1>2, <1>3, <1>4, <1>5

-----------------------------------------------------------------------------
(***************************************************************************)
(* The view of a page, past a step of a request.                           *)
(***************************************************************************)
ChangeType == {"add_to_favorites", "generate_share_link", "remove_share_link"}

LEMMA MoveBase ==
    ASSUME IInv, ReplyInv, NEW r, Move(r),
           NEW p \in Page, NEW l \in Known \cup {0}, NEW f \in File, Base(p, l, f)'
    PROVE  /\ Base(p, l, f) /\ Changes(p, l, f)' = Changes(p, l, f)
           /\ LinkedTwice(l, f)' = LinkedTwice(l, f) /\ OneSpelling(f)' = OneSpelling(f)
           /\ r \in Changes(p, l, f) \cup {l} => r \notin failed' /\ r \notin failed
           /\ r \notin Changes(p, l, f) /\ Operation(r) \in ChangeType => FileOf(ItemOf(r)) # f
           /\ r # l /\ Operation(r) = "load" => requests[r].page # p
           /\ r \in Changes(p, l, f) =>
                 /\ requests[r].page = p /\ r # l /\ FileOf(ItemOf(r)) = f /\ (l # 0 => at[l] = "received")
                 /\ \A s \in Changes(p, l, f) \ {r} : at[s] \in Over
           /\ r = l => requests[r].page = p /\ Operation(r) = "load" /\ Changes(p, l, f) = {}
<1>1. /\ r \in Known /\ Known' = Known /\ Known \subseteq Nat /\ requests' = requests /\ before' = before
      /\ \A s : Operation(s)' = Operation(s) /\ ItemOf(s)' = ItemOf(s)
      /\ \A s \in Known \ {r} : at'[s] = at[s] /\ reply'[s] = reply[s]
      /\ \A s : s # r => (s \in failed' <=> s \in failed)
      /\ failed \subseteq failed'
      /\ \A s \in Known : \A q \in before[s] : q \in Known /\ q # r /\ at[q] \in Over
    BY MoveFacts
<1>2. 0 \notin Known
    BY KnownType DEF IInv
<1>3. Changes(p, l, f)' = Changes(p, l, f)
    BY <1>1 DEF Changes
<1>4. Base(p, l, f)
    BY <1>1, <1>3 DEF Base
<1>5. at[r] \notin Over
    BY DEF Move
<1>6. LinkedTwice(l, f)' = LinkedTwice(l, f)
  <2>1. CASE l = 0
    BY <2>1 DEF LinkedTwice
  <2>2. CASE l # 0
    <3>1. \A m \in before[l] : reply'[m] = reply[m] /\ (m \in failed' <=> m \in failed)
        BY <1>1, <2>2
    <3> QED
        BY <1>1, <3>1 DEF LinkedTwice
  <2> QED
    BY <2>1, <2>2
<1>7. OneSpelling(f)' = OneSpelling(f)
    BY <1>1 DEF OneSpelling
<1>8. r \in Changes(p, l, f) \cup {l} => r \notin failed' /\ r \notin failed
  <2>1. r \in Changes(p, l, f) => r \notin failed'
    BY <1>3 DEF Base
  <2>2. r = l => r \notin failed'
    BY <1>1, <1>2 DEF Base
  <2> QED
    BY <1>1, <2>1, <2>2
<1>9. l # 0 => r \notin before[l]
    BY <1>1, <1>5
<1>10. r \notin Changes(p, l, f) /\ Operation(r) \in ChangeType => FileOf(ItemOf(r)) # f
    BY <1>1, <1>9 DEF Changes, ChangeType
<1>11. r # l /\ Operation(r) = "load" => requests[r].page # p
    BY <1>1, <1>4, <1>9 DEF Base
<1>12. ASSUME r \in Changes(p, l, f)
       PROVE  /\ requests[r].page = p /\ r # l /\ FileOf(ItemOf(r)) = f /\ (l # 0 => at[l] = "received")
              /\ \A s \in Changes(p, l, f) \ {r} : at[s] \in Over
  <2>1. requests[r].page = p /\ FileOf(ItemOf(r)) = f /\ Operation(r) # "load"
    BY <1>4, <1>12 DEF Base, Changes
  <2>2. r # l
    BY <1>2, <1>4, <2>1, <1>1 DEF Base
  <2>3. ASSUME l # 0 PROVE at[l] = "received"
    <3>1. at[l] \in Over /\ l \in Known /\ Operation(l) = "load" /\ l \notin failed
        BY <1>1, <1>4, <1>12, <2>3 DEF Base
    <3> QED
        BY <3>1 DEF ReplyInv, Served, ForPage, Over
  <2>4. ASSUME NEW s \in Changes(p, l, f) \ {r} PROVE at[s] \in Over
    <3>1. s \in Known
        BY DEF Changes
    <3>2. s < r => s \in before[r]
        BY <1>4, <1>12 DEF Base
    <3>3. r < s => r \in before[s]
        BY <1>4, <1>12 DEF Base
    <3> QED
        BY <1>1, <1>5, <3>1, <3>2, <3>3
  <2> QED
    BY <2>1, <2>2, <2>3, <2>4
<1>13. ASSUME r = l
       PROVE  requests[r].page = p /\ Operation(r) = "load" /\ Changes(p, l, f) = {}
  <2>1. requests[r].page = p /\ Operation(r) = "load" /\ l # 0
    BY <1>1, <1>2, <1>4, <1>13 DEF Base
  <2>2. \A s \in Changes(p, l, f) : l \in before[s] /\ s \in Known
    BY <1>4, <2>1 DEF Base, Changes
  <2> QED
    BY <1>1, <1>13, <2>1, <2>2
<1> QED
    BY <1>3, <1>4, <1>6, <1>7, <1>8, <1>10, <1>11, <1>12, <1>13

\* What a step has to leave alone for a page not to notice.
BadgesAside(p, f) ==
    /\ file_sys_badge[p] \in Seq(BadgeRow) =>
          file_sys_badge'[p] \in Seq(BadgeRow) /\ KeptRows(file_sys_badge[p], file_sys_badge'[p], f)
    /\ KeptRows(deluxe_table, deluxe_table', f)

LinksAside(p, f) ==
    /\ StoredLink(f)' <=> StoredLink(f)
    /\ HasShareLink(p, f)' <=> HasShareLink(p, f)
    /\ Several(p, f)' => Several(p, f)

LEMMA SameKept ==
    ASSUME NEW a, NEW b, NEW c, NEW d, NEW f, KeptRows(a, c, f), KeptRows(b, d, f)
    PROVE  /\ Same(a, b, f) => Same(c, d, f)
           /\ \A i : Ahead(a, b, f, i) => Ahead(c, d, f, i)
<1>1. Same(c, a, f) /\ Same(b, d, f)
    BY KeptSame
<1>2. Same(a, b, f) => Same(c, d, f)
    BY <1>1, SameTrans
<1>3. ASSUME NEW i, Ahead(a, b, f, i) PROVE Ahead(c, d, f, i)
  <2>1. PICK e \in Seq(BadgeRow) : Same(a, e, f) /\ Same(ToggleBadge(e, i), b, f)
    BY <1>3 DEF Ahead
  <2>2. Same(c, e, f) /\ Same(ToggleBadge(e, i), d, f)
    BY <1>1, <2>1, SameTrans
  <2> QED
    BY <2>2 DEF Ahead
<1> QED
    BY <1>2, <1>3

\* A step of a request that is neither the load nor a change of the file.
LEMMA ViewAside ==
    ASSUME IInv, ReplyInv, NEW r, Move(r),
           NEW p \in Page, NEW l \in Known \cup {0}, NEW f \in File, Base(p, l, f)',
           View(p, l, f), r \notin Changes(p, l, f), r # l, BadgesAside(p, f), LinksAside(p, f)
    PROVE  View(p, l, f)'
<1>1. /\ r \in Known /\ Known' = Known
      /\ \A s : Operation(s)' = Operation(s) /\ ItemOf(s)' = ItemOf(s)
      /\ \A s \in Known \ {r} : at'[s] = at[s] /\ data'[s] = data[s]
    BY MoveFacts
<1>2. /\ Changes(p, l, f)' = Changes(p, l, f)
      /\ LinkedTwice(l, f)' = LinkedTwice(l, f) /\ OneSpelling(f)' = OneSpelling(f)
    BY MoveBase
<1>3. \A s \in Changes(p, l, f) : at'[s] = at[s]
    BY <1>1 DEF Changes
<1>4. l # 0 => at'[l] = at[l] /\ data'[l] = data[l]
    BY <1>1
<1>5. Toggles(p, l, f)' = Toggles(p, l, f)
    BY <1>1, <1>2, <1>3 DEF Toggles
<1>6. /\ KeptRows(deluxe_table, deluxe_table', f)
      /\ file_sys_badge[p] \in Seq(BadgeRow) =>
            file_sys_badge'[p] \in Seq(BadgeRow) /\ KeptRows(file_sys_badge[p], file_sys_badge'[p], f)
    BY DEF BadgesAside
<1>7. BadgeView(p, l, f)
    BY DEF View
<1>8. BadgeView(p, l, f)'
  <2>1. l # 0 /\ at[l] = "badgesAnswered" => Same(data[l], deluxe_table', f)
    <3>1. KeptRows(data[l], data[l], f)
        BY DEF KeptRows
    <3> QED
        BY <1>6, <1>7, <3>1, SameKept DEF BadgeView
  <2>2. Loaded(l, {"links", "answered", "received"}) =>
           /\ file_sys_badge'[p] \in Seq(BadgeRow)
           /\ Toggles(p, l, f) = {} => Same(file_sys_badge'[p], deluxe_table', f)
           /\ \A s \in Toggles(p, l, f) : Ahead(file_sys_badge'[p], deluxe_table', f, ItemOf(s))
    BY <1>6, <1>7, SameKept DEF BadgeView
  <2>3. Loaded(l, {"links", "answered", "received"})' <=> Loaded(l, {"links", "answered", "received"})
    BY <1>4 DEF Loaded
  <2> QED
    BY <1>1, <1>4, <1>5, <2>1, <2>2, <2>3 DEF BadgeView
<1>9. ASSUME OneSpelling(f) PROVE LinkView(p, l, f)'
  <2>1. LinkView(p, l, f)
    BY <1>9 DEF View
  <2>2. l # 0 => (Listed(l, f)' <=> Listed(l, f)) /\ (Repeated(l, f)' <=> Repeated(l, f))
    BY <1>4 DEF Listed, Repeated
  <2>3. Loaded(l, {"received"})' <=> Loaded(l, {"received"})
    BY <1>4 DEF Loaded
  <2> QED
    BY <1>1, <1>2, <1>3, <1>4, <2>1, <2>2, <2>3 DEF LinkView, LinksAside
<1> QED
    BY <1>2, <1>8, <1>9 DEF View

\* A change that the page made alone did not race.
LEMMA ChangeAlone ==
    ASSUME IInv, BeforeInv, RacedInv, NEW p, NEW l \in Known \cup {0}, NEW f, Base(p, l, f),
           NEW r \in Changes(p, l, f), Operation(r) = "add_to_favorites"
    PROVE  r \notin raced
<1> SUFFICES ASSUME r \in raced PROVE FALSE
    OBVIOUS
<1>1. r \in Known /\ FileOf(ItemOf(r)) = f /\ r \notin failed /\ (l # 0 => r \notin before[l])
    BY DEF Changes, Base
<1>2. PICK s : Beside(s, r)
    BY <1>1 DEF RacedInv
<1>3. /\ s \in Known /\ s # r /\ Operation(s) = "add_to_favorites" /\ FileOf(ItemOf(s)) = f
      /\ s \notin before[r] /\ r \notin before[s]
    BY <1>1, <1>2 DEF Beside
<1>4. l # 0 => s \notin before[l]
  <2> SUFFICES ASSUME l # 0, s \in before[l] PROVE FALSE
    OBVIOUS
  <2>1. l \in Known /\ l \in before[r]
    BY DEF Base
  <2>2. l < r
    BY <1>1, <2>1 DEF BeforeInv
  <2>3. before[l] \subseteq before[r]
    BY <1>1, <2>1, <2>2 DEF BeforeInv
  <2> QED
    BY <1>3, <2>3
<1>5. s \in Changes(p, l, f)
    BY <1>3, <1>4 DEF Changes
<1>6. (s < r => s \in before[r]) /\ (r < s => r \in before[s])
    BY <1>5 DEF Base
<1>7. r \in Nat /\ s \in Nat
    BY <1>1, <1>3, KnownType DEF IInv
<1> QED
    BY <1>3, <1>6, <1>7

\* A change of badges does not disturb the view of links, nor the other way.
LEMMA LinksBeside ==
    ASSUME IInv, ReplyInv, NEW r, Move(r),
           NEW p \in Page, NEW l \in Known \cup {0}, NEW f \in File, Base(p, l, f)',
           LinkView(p, l, f), r \in Changes(p, l, f), Operation(r) = "add_to_favorites",
           LinksAside(p, f)
    PROVE  LinkView(p, l, f)'
<1>1. /\ r \in Known /\ Known' = Known
      /\ \A s : Operation(s)' = Operation(s) /\ ItemOf(s)' = ItemOf(s)
      /\ \A s \in Known \ {r} : at'[s] = at[s] /\ data'[s] = data[s]
    BY MoveFacts
<1>2. Changes(p, l, f)' = Changes(p, l, f) /\ LinkedTwice(l, f)' = LinkedTwice(l, f) /\ r # l
    BY MoveBase
<1>3. \A s \in Changes(p, l, f) : s \in Known
    BY DEF Changes
<1>4. l # 0 => at'[l] = at[l] /\ data'[l] = data[l]
    BY <1>1, <1>2
<1>5. l # 0 => (Listed(l, f)' <=> Listed(l, f)) /\ (Repeated(l, f)' <=> Repeated(l, f))
    BY <1>4 DEF Listed, Repeated
<1>6. Loaded(l, {"received"})' <=> Loaded(l, {"received"})
    BY <1>4 DEF Loaded
<1>7. /\ l # 0 /\ at'[l] = "answered" =>
            /\ StoredLink(f)' <=> Listed(l, f)'
            /\ Repeated(l, f)' => LinkedTwice(l, f)
      /\ Loaded(l, {"received"}) => (Several(p, f)' => LinkedTwice(l, f))
    BY <1>4, <1>5 DEF LinkView, LinksAside
<1>8. ASSUME Loaded(l, {"received"}),
             \A s \in Changes(p, l, f) : at'[s] = "answered" => Operation(s) = "add_to_favorites"
      PROVE  /\ StoredLink(f)' => HasShareLink(p, f)'
             /\ HasShareLink(p, f)' => StoredLink(f)' \/ LinkedTwice(l, f)
  <2>1. \A s \in Changes(p, l, f) : at[s] = "answered" => Operation(s) = "add_to_favorites"
    BY <1>1, <1>3, <1>8
  <2> QED
    BY <1>8, <2>1 DEF LinkView, LinksAside
<1>9. ASSUME Loaded(l, {"received"}), NEW s \in Changes(p, l, f)
      PROVE  /\ Operation(s) = "generate_share_link" /\ at'[s] \notin Over =>
                   ~HasShareLink(p, f)' /\ (at'[s] = "answered" => StoredLink(f)')
             /\ Operation(s) = "remove_share_link" /\ at'[s] = "answered" => ~StoredLink(f)'
  <2>1. s # r => at'[s] = at[s]
    BY <1>1, <1>3
  <2> QED
    BY <1>9, <2>1 DEF LinkView, LinksAside
<1> QED
    BY <1>1, <1>2, <1>6, <1>7, <1>8, <1>9 DEF LinkView

LEMMA BadgesBeside ==
    ASSUME IInv, ReplyInv, NEW r, Move(r),
           NEW p \in Page, NEW l \in Known \cup {0}, NEW f \in File, Base(p, l, f)',
           BadgeView(p, l, f), r \in Changes(p, l, f), BadgesAside(p, f),
           Operation(r) = "add_to_favorites" => at[r] # "answered" /\ at'[r] # "answered"
    PROVE  BadgeView(p, l, f)'
<1>1. /\ r \in Known /\ Known' = Known
      /\ \A s : Operation(s)' = Operation(s) /\ ItemOf(s)' = ItemOf(s)
      /\ \A s \in Known \ {r} : at'[s] = at[s] /\ data'[s] = data[s]
    BY MoveFacts
<1>2. Changes(p, l, f)' = Changes(p, l, f) /\ r # l
    BY MoveBase
<1>3. \A s \in Changes(p, l, f) : s \in Known
    BY DEF Changes
<1>4. l # 0 => at'[l] = at[l] /\ data'[l] = data[l]
    BY <1>1, <1>2
<1>5. Toggles(p, l, f)' = Toggles(p, l, f)
    BY <1>1, <1>2, <1>3 DEF Toggles
<1>6. /\ KeptRows(deluxe_table, deluxe_table', f)
      /\ file_sys_badge[p] \in Seq(BadgeRow) =>
            file_sys_badge'[p] \in Seq(BadgeRow) /\ KeptRows(file_sys_badge[p], file_sys_badge'[p], f)
    BY DEF BadgesAside
<1>7. l # 0 /\ at[l] = "badgesAnswered" => Same(data[l], deluxe_table', f)
  <2>1. KeptRows(data[l], data[l], f)
    BY DEF KeptRows
  <2> QED
    BY <1>6, <2>1, SameKept DEF BadgeView
<1>8. Loaded(l, {"links", "answered", "received"}) =>
          /\ file_sys_badge'[p] \in Seq(BadgeRow)
          /\ Toggles(p, l, f) = {} => Same(file_sys_badge'[p], deluxe_table', f)
          /\ \A s \in Toggles(p, l, f) : Ahead(file_sys_badge'[p], deluxe_table', f, ItemOf(s))
    BY <1>6, SameKept DEF BadgeView
<1>9. Loaded(l, {"links", "answered", "received"})' <=> Loaded(l, {"links", "answered", "received"})
    BY <1>4 DEF Loaded
<1> QED
    BY <1>1, <1>4, <1>5, <1>7, <1>8, <1>9 DEF BadgeView

LEMMA QuietSides ==
    ASSUME NEW p, NEW f
    PROVE  /\ UNCHANGED <<deluxe_table, file_sys_badge>> => BadgesAside(p, f)
           /\ deluxe_table' = deluxe_table /\ file_sys_badge'[p] = file_sys_badge[p] => BadgesAside(p, f)
           /\ UNCHANGED <<hc_shared_links, shared_links>> => LinksAside(p, f)
           /\ hc_shared_links' = hc_shared_links /\ shared_links'[p] = shared_links[p] => LinksAside(p, f)
<1>1. deluxe_table' = deluxe_table /\ file_sys_badge'[p] = file_sys_badge[p] => BadgesAside(p, f)
    BY DEF BadgesAside, KeptRows
<1>2. hc_shared_links' = hc_shared_links /\ shared_links'[p] = shared_links[p] => LinksAside(p, f)
    BY DEF LinksAside, StoredLink, HasShareLink, Several
<1> QED
    BY <1>1, <1>2

\* Rows of other items are stored and dropped beside a file.
LEMMA LinkMadeAside ==
    ASSUME IInv, NEW r \in Known, LinkMade(r)
    PROVE  /\ \A f : f # FileOf(ItemOf(r)) => (StoredLink(f)' <=> StoredLink(f))
           /\ \A f : f = FileOf(ItemOf(r)) => StoredLink(f)'
<1> DEFINE row == [item |-> ItemOf(r), key_token |-> key_token[r], by |-> r]
           size == Len(hc_shared_links)
<1>1. /\ hc_shared_links \in Seq(LinkRow) /\ ItemOf(r) \in Item /\ r \in Req /\ key_token[r] \in Nat
    BY KnownType, DeluxeAssumption
       DEF LinkMade, IInv, TypeOK, RequestInv, RequestOK, ForPage
<1>2. row \in LinkRow
    BY <1>1 DEF LinkRow
<1>3. hc_shared_links' = Append(hc_shared_links, row) /\ row.item = ItemOf(r)
    BY DEF LinkMade
<1> HIDE DEF row
<1>4. /\ size \in Nat /\ DOMAIN hc_shared_links = 1..size
      /\ DOMAIN hc_shared_links' = 1..size + 1
      /\ \A n \in 1..size : hc_shared_links'[n] = hc_shared_links[n]
      /\ hc_shared_links'[size + 1] = row
    BY <1>1, <1>2, <1>3, AppendProperties, LenProperties
<1>5. \A f : StoredLink(f)' <=> StoredLink(f) \/ FileOf(row.item) = f
    BY <1>4 DEF StoredLink
<1>6. \A f : StoredLink(f)' <=> StoredLink(f) \/ FileOf(ItemOf(r)) = f
    BY <1>3, <1>5
<1> QED
    BY <1>6

LEMMA LinksGoneAside ==
    ASSUME IInv, NEW r \in Known, LinksGone(r)
    PROVE  /\ \A f : f # FileOf(ItemOf(r)) => (StoredLink(f)' <=> StoredLink(f))
           /\ \A f : (\A n \in DOMAIN hc_shared_links :
                          FileOf(hc_shared_links[n].item) = f => hc_shared_links[n].item = ItemOf(r))
                     => ~StoredLink(f)'
<1>1. /\ \A k \in DOMAIN hc_shared_links' :
            \E n \in DOMAIN hc_shared_links :
                hc_shared_links[n].item # ItemOf(r) /\ hc_shared_links'[k] = hc_shared_links[n]
      /\ \A n \in DOMAIN hc_shared_links : hc_shared_links[n].item # ItemOf(r) =>
            \E k \in DOMAIN hc_shared_links' : hc_shared_links'[k] = hc_shared_links[n]
    BY RowsKept DEF IInv, LinksGone
<1> QED
    BY <1>1 DEF StoredLink

-----------------------------------------------------------------------------
(***************************************************************************)
(* The view past a step of a handler.                                      *)
(***************************************************************************)
LEMMA HandleAside ==
    ASSUME IInv, ReplyInv, NEW r, Move(r), HandleOutcome(r), UNCHANGED page,
           NEW p \in Page, NEW l \in Known \cup {0}, NEW f \in File, Base(p, l, f)',
           View(p, l, f), r \notin Changes(p, l, f), r # l
    PROVE  View(p, l, f)'
<1>1. r \in Known /\ UNCHANGED <<file_sys_badge, shared_links>>
    BY DEF Move, page
<1>2. Operation(r) \in ChangeType => FileOf(ItemOf(r)) # f
    BY MoveBase
<1>3. CASE UNCHANGED tables
    BY <1>1, <1>3, QuietSides, ViewAside DEF tables
<1>4. CASE Toggled(r)
  <2>1. LinksAside(p, f)
    BY <1>1, <1>4, QuietSides DEF Toggled
  <2>2. KeptRows(deluxe_table, deluxe_table', f)
    BY <1>2, <1>4 DEF Toggled, ChangeType
  <2>3. BadgesAside(p, f)
    BY <1>1, <2>2 DEF BadgesAside, KeptRows
  <2> QED
    BY <2>1, <2>3, ViewAside
<1>5. ASSUME UNCHANGED deluxe_table, StoredLink(f)' <=> StoredLink(f)
      PROVE  View(p, l, f)'
  <2>1. LinksAside(p, f)
    BY <1>1, <1>5 DEF LinksAside, HasShareLink, Several
  <2> QED
    BY <1>1, <1>5, <2>1, QuietSides, ViewAside
<1>6. CASE LinkMade(r)
    BY <1>1, <1>2, <1>5, <1>6, LinkMadeAside DEF LinkMade, ChangeType
<1>7. CASE LinksGone(r)
    BY <1>1, <1>2, <1>5, <1>7, LinksGoneAside DEF LinksGone, ChangeType
<1> QED
    BY <1>3, <1>4, <1>6, <1>7 DEF HandleOutcome, Fruitless, GoesOn, Foreign, Lists

LEMMA ToggledChange ==
    ASSUME IInv, VInv, NEW r, Move(r), Toggled(r), UNCHANGED page,
           NEW p \in Page, NEW l \in Known \cup {0}, NEW f \in File, Base(p, l, f)',
           View(p, l, f), r \in Changes(p, l, f)
    PROVE  View(p, l, f)'
<1>0. ReplyInv
    BY DEF VInv
<1>1. /\ r \in Known /\ Known' = Known
      /\ \A s : Operation(s)' = Operation(s) /\ ItemOf(s)' = ItemOf(s)
      /\ \A s \in Known \ {r} : at'[s] = at[s] /\ data'[s] = data[s]
    BY MoveFacts
<1>2. /\ Base(p, l, f) /\ Changes(p, l, f)' = Changes(p, l, f) /\ OneSpelling(f)' = OneSpelling(f)
      /\ FileOf(ItemOf(r)) = f /\ r # l /\ (l # 0 => at[l] = "received")
      /\ \A s \in Changes(p, l, f) \ {r} : at[s] \in Over
    BY <1>0, MoveBase
<1>3. r \notin raced
    BY <1>2, ChangeAlone DEF VInv, Toggled
<1>4. /\ at[r] \in Busy /\ at'[r] = "answered" /\ Operation(r) = "add_to_favorites"
      /\ UNCHANGED <<hc_shared_links, shared_links, file_sys_badge>>
      /\ Same(ToggleBadge(deluxe_table, ItemOf(r)), deluxe_table', f)
    BY <1>2, <1>3 DEF Toggled, page
<1>5. Loaded(l, {"links", "answered", "received"}) /\ (l # 0 => at'[l] = "received")
    BY <1>1, <1>2 DEF Loaded
<1>6. Toggles(p, l, f) = {}
    BY <1>2, <1>4 DEF Toggles, Busy, Checked, Over
<1>7. Toggles(p, l, f)' \subseteq {r} /\ r \in Toggles(p, l, f)'
  <2>1. \A s \in Changes(p, l, f) \ {r} : at'[s] # "answered"
    BY <1>1, <1>2 DEF Changes, Over
  <2> QED
    BY <1>1, <1>2, <1>4, <2>1 DEF Toggles
<1>8. file_sys_badge[p] \in Seq(BadgeRow) /\ Same(file_sys_badge[p], deluxe_table, f)
    BY <1>5, <1>6 DEF View, BadgeView
<1>9. Ahead(file_sys_badge[p], deluxe_table', f, ItemOf(r))
  <2>1. deluxe_table \in Seq(BadgeRow)
    BY DEF IInv, TypeOK
  <2> QED
    BY <1>4, <1>8, <2>1 DEF Ahead
<1>10. BadgeView(p, l, f)'
  <2>1. \A s \in Toggles(p, l, f)' : Ahead(file_sys_badge'[p], deluxe_table', f, ItemOf(s))
    BY <1>4, <1>7, <1>9
  <2>2. Toggles(p, l, f)' # {}
    BY <1>7
  <2> QED
    BY <1>1, <1>4, <1>5, <1>8, <2>1, <2>2 DEF BadgeView
<1>11. ASSUME OneSpelling(f) PROVE LinkView(p, l, f)'
    BY <1>4, <1>11, QuietSides, LinksBeside DEF View, VInv
<1> QED
    BY <1>2, <1>10, <1>11 DEF View

\* A change of the links that reaches their table.
LEMMA LinkChange ==
    ASSUME IInv, VInv, NEW r, Move(r), LinkMade(r) \/ LinksGone(r), UNCHANGED page,
           NEW p \in Page, NEW l \in Known \cup {0}, NEW f \in File, Base(p, l, f)',
           View(p, l, f), r \in Changes(p, l, f)
    PROVE  View(p, l, f)'
<1>0. ReplyInv
    BY DEF VInv
<1>1. /\ r \in Known /\ Known' = Known
      /\ \A s : Operation(s)' = Operation(s) /\ ItemOf(s)' = ItemOf(s)
      /\ \A s \in Known \ {r} : at'[s] = at[s] /\ data'[s] = data[s]
    BY MoveFacts
<1>2. /\ Changes(p, l, f)' = Changes(p, l, f) /\ OneSpelling(f)' = OneSpelling(f)
      /\ LinkedTwice(l, f)' = LinkedTwice(l, f)
      /\ FileOf(ItemOf(r)) = f /\ r # l /\ (l # 0 => at[l] = "received")
      /\ \A s \in Changes(p, l, f) \ {r} : at[s] \in Over
    BY <1>0, MoveBase
<1>3. /\ at'[r] = "answered" /\ UNCHANGED <<deluxe_table, shared_links, file_sys_badge>>
      /\ Operation(r) \in {"generate_share_link", "remove_share_link"}
    BY DEF LinkMade, LinksGone, page
<1>4. BadgeView(p, l, f)'
    BY <1>3, QuietSides, BadgesBeside DEF View, VInv
<1>5. ASSUME OneSpelling(f) PROVE LinkView(p, l, f)'
  <2>1. LinkView(p, l, f)
    BY <1>5 DEF View
  <2>2. Loaded(l, {"received"}) /\ (l # 0 => at'[l] = "received")
    BY <1>1, <1>2 DEF Loaded
  <2>3. \A s \in Changes(p, l, f) \ {r} : at'[s] \in Over /\ at'[s] # "answered"
    BY <1>1, <1>2 DEF Changes, Over
  <2>4. Several(p, f)' => LinkedTwice(l, f)
    BY <1>3, <2>1, <2>2 DEF LinkView, Several
  <2>5. HasShareLink(p, f)' <=> HasShareLink(p, f)
    BY <1>3 DEF HasShareLink
  <2>6. CASE LinkMade(r)
    <3>1. Operation(r) = "generate_share_link" /\ at[r] \notin Over /\ StoredLink(f)'
        BY <1>1, <1>2, <2>6, LinkMadeAside DEF LinkMade, Move
    <3>2. ~HasShareLink(p, f)
        BY <2>1, <2>2, <3>1 DEF LinkView
    <3>3. ASSUME NEW s \in Changes(p, l, f)
          PROVE  /\ Operation(s) = "generate_share_link" /\ at'[s] \notin Over =>
                       ~HasShareLink(p, f)' /\ (at'[s] = "answered" => StoredLink(f)')
                 /\ Operation(s) = "remove_share_link" /\ at'[s] = "answered" => ~StoredLink(f)'
        BY <2>3, <2>5, <3>1, <3>2
    <3>4. ~ \A s \in Changes(p, l, f) : at'[s] = "answered" => Operation(s) = "add_to_favorites"
        BY <1>3, <3>1
    <3> QED
        BY <1>1, <1>2, <2>2, <2>4, <3>3, <3>4 DEF LinkView
  <2>7. CASE LinksGone(r)
    <3>1. Operation(r) = "remove_share_link"
        BY <2>7 DEF LinksGone
    <3>2. ASSUME NEW n \in DOMAIN hc_shared_links, FileOf(hc_shared_links[n].item) = f
          PROVE  hc_shared_links[n].item = ItemOf(r)
      <4>1. PICK g : g = hc_shared_links[n].by
        OBVIOUS
      <4>2. IsGenerate(g) /\ hc_shared_links[n].item = ItemOf(g)
        BY <4>1 DEF IInv, LinksInv, LinkInv
      <4> QED
        BY <1>1, <1>2, <1>5, <3>1, <3>2, <4>2 DEF OneSpelling, IsGenerate
    <3>3. ~StoredLink(f)'
        BY <1>1, <2>7, <3>2, LinksGoneAside
    <3>4. ASSUME NEW s \in Changes(p, l, f)
          PROVE  /\ Operation(s) = "generate_share_link" /\ at'[s] \notin Over =>
                       ~HasShareLink(p, f)' /\ (at'[s] = "answered" => StoredLink(f)')
                 /\ Operation(s) = "remove_share_link" /\ at'[s] = "answered" => ~StoredLink(f)'
        BY <2>3, <3>1, <3>3
    <3>5. ~ \A s \in Changes(p, l, f) : at'[s] = "answered" => Operation(s) = "add_to_favorites"
        BY <1>3, <3>1
    <3> QED
        BY <1>1, <1>2, <2>2, <2>4, <3>4, <3>5 DEF LinkView
  <2> QED
    BY <2>6, <2>7
<1> QED
    BY <1>2, <1>4, <1>5 DEF View

LEMMA HandleChange ==
    ASSUME IInv, IInv', VInv, NEW r, Move(r), HandleOutcome(r), UNCHANGED page,
           NEW p \in Page, NEW l \in Known \cup {0}, NEW f \in File, Base(p, l, f)',
           View(p, l, f), r \in Changes(p, l, f)
    PROVE  View(p, l, f)'
<1>0. ReplyInv
    BY DEF VInv
<1>1. /\ r \in Known /\ Known' = Known
      /\ \A s : Operation(s)' = Operation(s) /\ ItemOf(s)' = ItemOf(s)
      /\ \A s \in Known \ {r} : at'[s] = at[s] /\ data'[s] = data[s]
    BY MoveFacts
<1>2. /\ Changes(p, l, f)' = Changes(p, l, f) /\ OneSpelling(f)' = OneSpelling(f)
      /\ LinkedTwice(l, f)' = LinkedTwice(l, f)
      /\ r \notin failed' /\ r # l /\ (l # 0 => at[l] = "received")
      /\ \A s \in Changes(p, l, f) \ {r} : at[s] \in Over
    BY <1>0, MoveBase
<1>3. Operation(r) \in ChangeType
    BY DEF Changes, ChangeType
<1>4. CASE GoesOn(r)
  <2>1. /\ UNCHANGED <<deluxe_table, hc_shared_links, shared_links, file_sys_badge>>
        /\ at[r] \in Busy /\ at'[r] \in {"update", "insert", "insertLink"}
        /\ at[r] \notin Over /\ at[r] # "answered" /\ at'[r] \notin Over /\ at'[r] # "answered"
    BY <1>4 DEF GoesOn, tables, page, Busy, Checked, Over
  <2>2. BadgeView(p, l, f)'
    BY <2>1, QuietSides, BadgesBeside DEF View, VInv
  <2>3. ASSUME OneSpelling(f) PROVE LinkView(p, l, f)'
    <3>1. LinkView(p, l, f)
        BY <2>3 DEF View
    <3>2. CASE Operation(r) = "add_to_favorites"
        BY <2>1, <3>1, <3>2, QuietSides, LinksBeside DEF VInv
    <3>3. CASE Operation(r) # "add_to_favorites"
      <4>1. Operation(r) = "generate_share_link"
        <5>1. PlaceOK(r)'
            BY <1>1 DEF IInv, RequestInv, RequestOK
        <5> QED
            BY <1>1, <2>1, <3>3, <5>1 DEF PlaceOK
      <4>2. Loaded(l, {"received"}) /\ (l # 0 => at'[l] = "received")
        BY <1>1, <1>2 DEF Loaded
      <4>3. ~HasShareLink(p, f)
        BY <2>1, <3>1, <4>1, <4>2 DEF LinkView
      <4>4. /\ StoredLink(f)' <=> StoredLink(f)
            /\ HasShareLink(p, f)' <=> HasShareLink(p, f)
            /\ Several(p, f)' <=> Several(p, f)
        BY <2>1 DEF StoredLink, HasShareLink, Several
      <4>5. \A s \in Changes(p, l, f) \ {r} : at'[s] \in Over /\ at'[s] # "answered" /\ at[s] # "answered"
        BY <1>1, <1>2 DEF Changes, Over
      <4>6. /\ StoredLink(f) => HasShareLink(p, f)
            /\ HasShareLink(p, f) => StoredLink(f) \/ LinkedTwice(l, f)
        <5>1. \A s \in Changes(p, l, f) : at[s] = "answered" => Operation(s) = "add_to_favorites"
            BY <2>1, <4>5
        <5> QED
            BY <3>1, <4>2, <5>1 DEF LinkView
      <4>7. Several(p, f) => LinkedTwice(l, f)
        BY <3>1, <4>2 DEF LinkView
      <4>8. ASSUME NEW s \in Changes(p, l, f)
            PROVE  /\ Operation(s) = "generate_share_link" /\ at'[s] \notin Over =>
                         ~HasShareLink(p, f)' /\ (at'[s] = "answered" => StoredLink(f)')
                   /\ Operation(s) = "remove_share_link" /\ at'[s] = "answered" => ~StoredLink(f)'
        BY <2>1, <4>1, <4>3, <4>4, <4>5
      <4> QED
        BY <1>1, <1>2, <4>2, <4>4, <4>6, <4>7, <4>8 DEF LinkView
    <3> QED
        BY <3>2, <3>3
  <2> QED
    BY <1>2, <2>2, <2>3 DEF View
<1>5. ~Fruitless(r) /\ ~Foreign(r) /\ ~Lists(r)
    BY <1>2, <1>3 DEF Fruitless, Foreign, Lists, ChangeType, ForPage
<1> QED
    BY <1>4, <1>5, ToggledChange, LinkChange DEF HandleOutcome

\* The rows of a file that a load reads, none of whose changes follow it.
LEMMA RowsRead ==
    ASSUME IInv, ByInv, NEW p, NEW l \in Known, NEW f, Changes(p, l, f) = {},
           NEW n \in DOMAIN hc_shared_links, NEW m \in DOMAIN hc_shared_links, n # m,
           FileOf(hc_shared_links[n].item) = f, FileOf(hc_shared_links[m].item) = f
    PROVE  LinkedTwice(l, f)
<1>1. l # 0
    BY KnownType DEF IInv, Req
<1>2. ASSUME NEW k \in {n, m}, NEW g, g = hc_shared_links[k].by
      PROVE  /\ g \in before[l] /\ Operation(g) = "generate_share_link" /\ FileOf(ItemOf(g)) = f
             /\ \A q \in before[l] :
                   /\ Operation(q) = "remove_share_link" /\ reply[q] = "200"
                   /\ ItemOf(q) = ItemOf(g) /\ g \in before[q]
                   => q \in failed
  <2>1. IsGenerate(g) /\ hc_shared_links[k].item = ItemOf(g)
    BY <1>2 DEF IInv, LinksInv, LinkInv
  <2>2. g \in Known /\ Operation(g) = "generate_share_link" /\ FileOf(ItemOf(g)) = f
    BY <1>2, <2>1 DEF IsGenerate
  <2>3. g \in before[l]
    BY <1>1, <2>2 DEF Changes
  <2>4. ASSUME NEW q \in before[l], Operation(q) = "remove_share_link", reply[q] = "200",
               ItemOf(q) = ItemOf(g), g \in before[q]
        PROVE  q \in failed
    <3>1. q \in Known
        BY DEF IInv, RequestInv, RequestOK
    <3>2. IsRemove(q)
        BY <2>4, <3>1 DEF IsRemove
    <3> QED
        BY <1>2, <2>1, <2>4, <3>1, <3>2 DEF IInv, LinksInv, RemovedInv
  <2> QED
    BY <2>2, <2>3, <2>4
<1>3. hc_shared_links[n].by # hc_shared_links[m].by
    BY DEF ByInv
<1>4. PICK g, h : g = hc_shared_links[n].by /\ h = hc_shared_links[m].by
    OBVIOUS
<1>5. g # h
    BY <1>3, <1>4
<1>6. \A k \in {g, h} :
        /\ k \in before[l] /\ Operation(k) = "generate_share_link" /\ FileOf(ItemOf(k)) = f
        /\ \A q \in before[l] :
              /\ Operation(q) = "remove_share_link" /\ reply[q] = "200"
              /\ ItemOf(q) = ItemOf(k) /\ k \in before[q]
              => q \in failed
    BY <1>2, <1>4
<1> QED
    BY <1>1, <1>5, <1>6 DEF LinkedTwice

LEMMA HandleLoad ==
    ASSUME IInv, IInv', VInv, NEW r, Move(r), HandleOutcome(r), UNCHANGED page,
           NEW p \in Page, NEW l \in Known, NEW f \in File, Base(p, l, f)',
           View(p, l, f), r = l
    PROVE  View(p, l, f)'
<1>0. ReplyInv /\ ByInv /\ l \in Known \cup {0}
    BY DEF VInv
<1>1. /\ r \in Known /\ Known' = Known /\ l # 0
      /\ \A s : Operation(s)' = Operation(s) /\ ItemOf(s)' = ItemOf(s)
  <2>1. Known \subseteq Req
    BY MoveFacts
  <2> QED
    BY <2>1, MoveFacts DEF Req
<1>2. /\ Changes(p, l, f)' = Changes(p, l, f) /\ OneSpelling(f)' = OneSpelling(f)
      /\ LinkedTwice(l, f)' = LinkedTwice(l, f) /\ r \notin failed'
    BY <1>0, MoveBase
<1>3. Operation(r) = "load" /\ Changes(p, l, f) = {}
    BY <1>0, MoveBase
<1>4. Lists(r)
  <2>1. PlaceOK(r)'
    BY <1>1 DEF IInv, RequestInv, RequestOK
  <2>2. ~GoesOn(r)
    BY <1>1, <1>3, <2>1 DEF GoesOn, PlaceOK
  <2> QED
    BY <1>2, <1>3, <2>2 DEF HandleOutcome, Fruitless, Foreign, Toggled, LinkMade, LinksGone, ForPage
<1>5. /\ UNCHANGED <<deluxe_table, hc_shared_links, file_sys_badge, shared_links>>
    BY <1>4 DEF Lists, tables, page
<1>6. Toggles(p, l, f) = {} /\ Toggles(p, l, f)' = {}
    BY <1>2, <1>3 DEF Toggles
<1>7. CASE at'[l] = "badgesAnswered" /\ data'[l] = deluxe_table
  <2>1. Same(data'[l], deluxe_table', f)
    <3>1. KeptRows(deluxe_table, deluxe_table, f)
        BY DEF KeptRows
    <3> QED
        BY <1>5, <1>7, <3>1, KeptSame
  <2>2. ~Loaded(l, {"links", "answered", "received"})' /\ ~Loaded(l, {"received"})'
    BY <1>1, <1>7 DEF Loaded
  <2> QED
    BY <1>7, <2>1, <2>2 DEF View, BadgeView, LinkView
<1>8. CASE at[l] = "links" /\ at'[l] = "answered" /\ data'[l] = hc_shared_links
  <2>1. BadgeView(p, l, f)'
    <3>1. Loaded(l, {"links", "answered", "received"})
        BY <1>8 DEF Loaded
    <3>2. file_sys_badge[p] \in Seq(BadgeRow) /\ Same(file_sys_badge[p], deluxe_table, f)
        BY <1>6, <3>1 DEF View, BadgeView
    <3> QED
        BY <1>1, <1>5, <1>6, <1>8, <3>2 DEF BadgeView
  <2>2. LinkView(p, l, f)'
    <3>1. ~Loaded(l, {"received"})'
        BY <1>1, <1>8 DEF Loaded
    <3>2. StoredLink(f)' <=> Listed(l, f)'
        BY <1>5, <1>8 DEF StoredLink, Listed
    <3>3. Repeated(l, f)' => LinkedTwice(l, f)
      <4> SUFFICES ASSUME Repeated(l, f)' PROVE LinkedTwice(l, f)
        OBVIOUS
      <4>1. PICK n, m \in DOMAIN hc_shared_links :
            /\ n # m /\ FileOf(hc_shared_links[n].item) = f /\ FileOf(hc_shared_links[m].item) = f
        BY <1>8 DEF Repeated
      <4> QED
        BY <1>0, <1>3, <4>1, RowsRead
    <3> QED
        BY <1>2, <3>1, <3>2, <3>3 DEF LinkView
  <2> QED
    BY <2>1, <2>2 DEF View
<1> QED
    BY <1>4, <1>7, <1>8 DEF Lists

LEMMA HandlerView ==
    ASSUME IInv, IInv', VInv, NEW r \in Known, Handle(r), UNCHANGED page,
           NEW p \in Page, NEW l \in Known \cup {0}, NEW f \in File, Base(p, l, f)'
    PROVE  View(p, l, f)'
<1>1. Move(r) /\ HandleOutcome(r)
    BY HandleMove DEF VInv
<1>2. Base(p, l, f) /\ ReplyInv
    BY <1>1, MoveBase DEF VInv
<1>3. View(p, l, f)
    BY <1>2 DEF VInv, ViewInv
<1>4. CASE r = l
    BY <1>1, <1>3, <1>4, HandleLoad
<1>5. CASE r \in Changes(p, l, f)
    BY <1>1, <1>3, <1>5, HandleChange
<1>6. CASE r # l /\ r \notin Changes(p, l, f)
    BY <1>1, <1>2, <1>3, <1>6, HandleAside
<1> QED
    BY <1>4, <1>5, <1>6

-----------------------------------------------------------------------------
(***************************************************************************)
(* The links of a page, one more or one less.                              *)
(***************************************************************************)
Has(a, f) == \E n \in DOMAIN a : FileOf(a[n]) = f
Two(a, f) == \E n, m \in DOMAIN a : n # m /\ FileOf(a[n]) = f /\ FileOf(a[m]) = f

LEMMA LinkAppended ==
    ASSUME NEW a \in Seq(Item), NEW i \in Item, NEW b, b = Append(a, i)
    PROVE  /\ \A f : f # FileOf(i) => (Has(b, f) <=> Has(a, f)) /\ (Two(b, f) => Two(a, f))
           /\ \A f : f = FileOf(i) => Has(b, f) /\ (Two(b, f) => Has(a, f))
<1>1. /\ Len(a) \in Nat /\ DOMAIN a = 1..Len(a) /\ DOMAIN b = 1..Len(a) + 1
      /\ \A n \in 1..Len(a) : b[n] = a[n] /\ n \in DOMAIN b
      /\ b[Len(a) + 1] = i /\ Len(a) + 1 \in DOMAIN b
    BY AppendProperties, LenProperties
<1>2. \A n \in DOMAIN b : n \in DOMAIN a \/ n = Len(a) + 1
    BY <1>1
<1>3. ASSUME NEW f, f # FileOf(i)
      PROVE  (Has(b, f) <=> Has(a, f)) /\ (Two(b, f) => Two(a, f))
    BY <1>1, <1>2, <1>3 DEF Has, Two
<1>4. \A f : f = FileOf(i) => Has(b, f) /\ (Two(b, f) => Has(a, f))
    BY <1>1, <1>2 DEF Has, Two
<1> QED
    BY <1>3, <1>4

LEMMA RemoveAtRows ==
    ASSUME NEW a \in Seq(Item), NEW n \in DOMAIN a, NEW b, b = RemoveAt(a, n)
    PROVE  /\ n \in Nat /\ DOMAIN b \subseteq Nat /\ DOMAIN a \subseteq Nat
           /\ \A k \in DOMAIN b : /\ k < n  => k \in DOMAIN a /\ b[k] = a[k]
                                  /\ k >= n => k + 1 \in DOMAIN a /\ b[k] = a[k + 1]
           /\ \A k \in DOMAIN a : /\ k < n => k \in DOMAIN b
                                  /\ k > n => k - 1 \in DOMAIN b
<1> DEFINE size == Len(a)
           head == SubSeq(a, 1, n - 1)
           tail == SubSeq(a, n + 1, size)
<1>1. size \in Nat /\ DOMAIN a = 1..size /\ n \in 1..size
    BY LenProperties
<1>2. n - 1 \in Nat /\ n + 1 \in Nat /\ n - 1 <= size /\ n \in Nat /\ size - n \in Nat
    BY <1>1
<1>3. /\ head \in Seq(Item) /\ Len(head) = n - 1 /\ \A k \in 1..n - 1 : head[k] = a[k]
  <2>1. 1 \in 1..size + 1 /\ n - 1 \in 0..size
    BY <1>1, <1>2
  <2>2. head \in Seq(Item)
    BY <1>1, <1>2, SubSeqProperties
  <2> QED
    BY <1>1, <1>2, <2>1, <2>2, SubSeqProperties
<1>4. /\ tail \in Seq(Item) /\ Len(tail) = size - n /\ \A k \in 1..size - n : tail[k] = a[n + k]
  <2>1. tail \in Seq(Item)
    BY <1>1, <1>2, SubSeqProperties
  <2>2. Len(tail) = size - n
    BY <1>1, <1>2, SubSeqProperties
  <2>3. ASSUME NEW k \in 1..size - n PROVE tail[k] = a[n + k]
    BY <1>1, <1>2, SubSeqProperties
  <2> QED
    BY <2>1, <2>2, <2>3
<1> HIDE DEF head, tail
<1>5. b = head \o tail
    BY DEF RemoveAt, head, tail
<1>6. /\ DOMAIN b = 1..(n - 1) + (size - n)
      /\ \A k \in 1..n - 1 : b[k] = head[k]
      /\ \A k \in 1..size - n : b[(n - 1) + k] = tail[k]
  <2>0. b \in Seq(Item) /\ Len(b) = Len(head) + Len(tail)
    BY <1>3, <1>4, <1>5, ConcatProperties
  <2>1. Len(b) = (n - 1) + (size - n) /\ DOMAIN b = 1..Len(b)
    BY <1>3, <1>4, <2>0, LenProperties
  <2>2. \A k \in 1..Len(b) : b[k] = IF k <= Len(head) THEN head[k] ELSE tail[k - Len(head)]
    BY <1>3, <1>4, <1>5, ConcatProperties
  <2> HIDE DEF size
  <2>3. ASSUME NEW k \in 1..n - 1 PROVE b[k] = head[k]
    <3>1. k \in Nat /\ 1 <= k /\ k <= n - 1 /\ n - 1 <= size - 1
      <4>1. n \in Nat /\ size \in Nat /\ n <= size
        BY <1>1, <1>2
      <4> QED
        BY <4>1
    <3>2. Len(head) = n - 1 /\ Len(b) = size - 1
        BY <1>1, <1>2, <1>3, <2>1
    <3>3. k \in 1..Len(b) /\ k <= Len(head)
        BY <1>1, <1>2, <3>1, <3>2
    <3> QED
        BY <2>2, <3>3
  <2>4. ASSUME NEW k \in 1..size - n PROVE b[(n - 1) + k] = tail[k]
    <3>1. (n - 1) + k \in 1..Len(b) /\ ~((n - 1) + k <= Len(head)) /\ ((n - 1) + k) - Len(head) = k
      <4>1. n \in Nat /\ size \in Nat /\ k \in Nat /\ 1 <= k /\ k <= size - n /\ 1 <= n /\ n <= size
        BY <1>1, <1>2
      <4>2. Len(head) = n - 1 /\ Len(b) = size - 1
        BY <1>3, <2>1, <4>1
      <4>3. (n - 1) + k >= 1 /\ (n - 1) + k <= size - 1 /\ (n - 1) + k \in Int
        BY <4>1
      <4>4. (n - 1) + k \in 1..Len(b)
        BY <4>1, <4>2, <4>3
      <4>5. ~((n - 1) + k <= n - 1) /\ ((n - 1) + k) - (n - 1) = k
        BY <4>1
      <4> QED
        BY <4>2, <4>4, <4>5
    <3> QED
        BY <2>2, <3>1
  <2> QED
    BY <2>1, <2>3, <2>4
<1>7. (n - 1) + (size - n) = size - 1
    BY <1>1, <1>2
<1>8. ASSUME NEW k \in DOMAIN b
      PROVE  /\ k < n  => k \in DOMAIN a /\ b[k] = a[k]
             /\ k >= n => k + 1 \in DOMAIN a /\ b[k] = a[k + 1]
  <2>1. k \in 1..size - 1
    BY <1>6, <1>7
  <2>2. ASSUME k < n PROVE k \in DOMAIN a /\ b[k] = a[k]
    <3>1. k \in 1..n - 1 /\ k \in 1..size
        BY <1>1, <1>2, <2>1, <2>2
    <3>2. b[k] = head[k] /\ head[k] = a[k]
        BY <1>3, <1>6, <3>1
    <3> QED
        BY <1>1, <3>1, <3>2
  <2>3. ASSUME k >= n PROVE k + 1 \in DOMAIN a /\ b[k] = a[k + 1]
    <3>1. k + 1 \in 1..size
        BY <1>1, <1>2, <2>1
    <3>2. PICK j \in 1..size - n : k = (n - 1) + j
      <4>1. size \in Nat /\ n \in Nat /\ k \in Nat /\ n <= k /\ k <= size - 1
        BY <1>1, <1>2, <2>1, <2>3
      <4> HIDE DEF size
      <4>2. k - (n - 1) \in Int /\ 1 <= k - (n - 1) /\ k - (n - 1) <= size - n
        BY <4>1
      <4>3. k = (n - 1) + (k - (n - 1))
        BY <4>1
      <4>4. k - (n - 1) \in 1..size - n
        BY <4>1, <4>2
      <4> QED
        BY <4>3, <4>4
    <3>3. b[k] = a[n + j] /\ n + j = k + 1
      <4>1. b[k] = tail[j] /\ tail[j] = a[n + j]
        BY <1>4, <1>6, <3>2
      <4>2. n + j = k + 1
        BY <1>1, <1>2, <3>2
      <4> QED
        BY <4>1, <4>2
    <3> QED
        BY <1>1, <3>1, <3>3
  <2> QED
    BY <2>2, <2>3
<1>9. ASSUME NEW k \in DOMAIN a
      PROVE  (k < n => k \in DOMAIN b) /\ (k > n => k - 1 \in DOMAIN b)
  <2>1. k \in Nat /\ 1 <= k /\ k <= size /\ 1 <= n /\ n <= size /\ n \in Nat /\ size \in Nat
    BY <1>1, <1>2
  <2>2. DOMAIN b = 1..size - 1
    BY <1>6, <1>7
  <2> HIDE DEF size
  <2> QED
    BY <2>1, <2>2
<1> QED
    BY <1>1, <1>2, <1>6, <1>7, <1>8, <1>9

LEMMA LinkRemoved ==
    ASSUME NEW a \in Seq(Item), NEW n \in DOMAIN a, NEW b, b = RemoveAt(a, n)
    PROVE  /\ \A f : f # FileOf(a[n]) => (Has(b, f) <=> Has(a, f)) /\ (Two(b, f) => Two(a, f))
           /\ \A f : f = FileOf(a[n]) => (Has(b, f) => Two(a, f)) /\ (Two(b, f) => Two(a, f))
<1>1. /\ n \in Nat /\ DOMAIN b \subseteq Nat /\ DOMAIN a \subseteq Nat
      /\ \A k \in DOMAIN b : /\ k < n  => k \in DOMAIN a /\ b[k] = a[k]
                             /\ k >= n => k + 1 \in DOMAIN a /\ b[k] = a[k + 1]
      /\ \A k \in DOMAIN a : /\ k < n => k \in DOMAIN b
                             /\ k > n => k - 1 \in DOMAIN b
    BY RemoveAtRows
<1> DEFINE Old(k) == IF k < n THEN k ELSE k + 1
<1>2. \A k \in DOMAIN b : Old(k) \in DOMAIN a /\ b[k] = a[Old(k)] /\ Old(k) # n
    BY <1>1
<1>3. \A j, k \in DOMAIN b : j # k => Old(j) # Old(k)
    BY <1>1
<1>4. \A k \in DOMAIN a : k # n => \E j \in DOMAIN b : b[j] = a[k]
  <2> SUFFICES ASSUME NEW k \in DOMAIN a, k # n PROVE \E j \in DOMAIN b : b[j] = a[k]
    OBVIOUS
  <2>1. CASE k < n
    BY <1>1, <2>1
  <2>2. CASE k > n
    <3>1. k - 1 \in DOMAIN b /\ k - 1 >= n /\ (k - 1) + 1 = k
        BY <1>1, <2>2
    <3> QED
        BY <1>1, <3>1
  <2> QED
    BY <1>1, <2>1, <2>2
<1> HIDE DEF Old
<1>5. \A f : Two(b, f) => Two(a, f)
    BY <1>2, <1>3 DEF Two
<1>6. \A f : f # FileOf(a[n]) => (Has(b, f) <=> Has(a, f))
  <2>1. \A f : Has(b, f) => Has(a, f)
    BY <1>2 DEF Has
  <2>2. ASSUME NEW f, f # FileOf(a[n]), Has(a, f) PROVE Has(b, f)
    BY <1>4, <2>2 DEF Has
  <2> QED
    BY <2>1, <2>2
<1>7. \A f : f = FileOf(a[n]) => (Has(b, f) => Two(a, f))
    BY <1>2 DEF Has, Two
<1> QED
    BY <1>5, <1>6, <1>7

-----------------------------------------------------------------------------
(***************************************************************************)
(* The view past a callback.                                               *)
(***************************************************************************)
LEMMA FavouriteInAside ==
    ASSUME IInv, NEW r \in Known, FavouriteIn(r), NEW p \in Page, NEW f,
           requests[r].page = p => FileOf(ItemOf(r)) # f, UNCHANGED deluxe_table
    PROVE  BadgesAside(p, f)
<1> DEFINE i == ItemOf(r)
           a == file_sys_badge[p]
<1>1. CASE requests[r].page # p
  <2>1. file_sys_badge'[p] = file_sys_badge[p]
    BY <1>1 DEF FavouriteIn
  <2> QED
    BY <2>1, QuietSides
<1>2. CASE requests[r].page = p
  <2>1. i \in Item /\ FileOf(i) # f
    BY <1>2 DEF IInv, RequestInv, RequestOK, FavouriteIn, ForPage
  <2>2. KeptRows(deluxe_table, deluxe_table', f)
    BY DEF KeptRows
  <2>3. ASSUME a \in Seq(BadgeRow)
        PROVE  file_sys_badge'[p] \in Seq(BadgeRow) /\ KeptRows(a, file_sys_badge'[p], f)
    <3>1. CASE file_sys_badge'[p] = ToggleBadge(a, i)
      <4>1. /\ ToggleBadge(a, i) \in Seq(BadgeRow)
            /\ Adds(a, ToggleBadge(a, i), i) \/ \E k \in DOMAIN a : Flips(a, ToggleBadge(a, i), i, k)
        BY <2>1, <2>3, ToggleRows
      <4>2. KeptRows(a, ToggleBadge(a, i), f)
        BY <2>1, <2>3, <4>1, ToggleAside
      <4> QED
        BY <3>1, <4>1, <4>2
    <3>2. CASE file_sys_badge'[p] = a
        BY <2>3, <3>2 DEF KeptRows
    <3> QED
        BY <1>2, <2>3, <3>1, <3>2 DEF FavouriteIn
  <2> QED
    BY <2>2, <2>3 DEF BadgesAside
<1> QED
    BY <1>1, <1>2

LEMMA ShareInLinks ==
    ASSUME IInv, NEW r \in Known, ShareIn(r), NEW p \in Page, requests[r].page = p, NEW f
    PROVE  /\ f # FileOf(ItemOf(r)) =>
                 (HasShareLink(p, f)' <=> HasShareLink(p, f)) /\ (Several(p, f)' => Several(p, f))
           /\ f = FileOf(ItemOf(r)) /\ r \notin failed =>
                 HasShareLink(p, f)' /\ (Several(p, f)' => HasShareLink(p, f))
<1> DEFINE a == shared_links[p]
           b == shared_links'[p]
<1>1. a \in Seq(Item) /\ ItemOf(r) \in Item
    BY DEF IInv, TypeOK, RequestInv, RequestOK, ShareIn, ForPage
<1>2. /\ HasShareLink(p, f) <=> Has(a, f)
      /\ Several(p, f) <=> Two(a, f)
      /\ HasShareLink(p, f)' <=> Has(b, f)
      /\ Several(p, f)' <=> Two(b, f)
    BY DEF HasShareLink, Several, Has, Two
<1>3. CASE b = Append(a, ItemOf(r))
  <2>1. f # FileOf(ItemOf(r)) => (Has(b, f) <=> Has(a, f)) /\ (Two(b, f) => Two(a, f))
    BY <1>1, <1>3, LinkAppended
  <2>2. f = FileOf(ItemOf(r)) => Has(b, f) /\ (Two(b, f) => Has(a, f))
    BY <1>1, <1>3, LinkAppended
  <2> HIDE DEF a, b
  <2> QED
    BY <1>2, <2>1, <2>2
<1>4. CASE r \in failed /\ b = a
    BY <1>2, <1>4
<1> QED
    BY <1>3, <1>4 DEF ShareIn

LEMMA RemoveInLinks ==
    ASSUME IInv, NEW r \in Known, RemoveIn(r), NEW p \in Page, requests[r].page = p, NEW f
    PROVE  /\ f # FileOf(ItemOf(r)) => (HasShareLink(p, f)' <=> HasShareLink(p, f))
           /\ Several(p, f)' => Several(p, f)
           /\ f = FileOf(ItemOf(r)) /\ r \notin failed => (HasShareLink(p, f)' => Several(p, f))
<1> DEFINE a == shared_links[p]
           b == shared_links'[p]
<1>1. a \in Seq(Item)
    BY DEF IInv, TypeOK
<1>2. /\ HasShareLink(p, f) <=> Has(a, f)
      /\ Several(p, f) <=> Two(a, f)
      /\ HasShareLink(p, f)' <=> Has(b, f)
      /\ Several(p, f)' <=> Two(b, f)
    BY DEF HasShareLink, Several, Has, Two
<1>3. CASE \E n \in DOMAIN a : FileOf(a[n]) = FileOf(ItemOf(r)) /\ b = RemoveAt(a, n)
  <2>1. PICK n \in DOMAIN a : FileOf(a[n]) = FileOf(ItemOf(r)) /\ b = RemoveAt(a, n)
    BY <1>3
  <2>2. f # FileOf(a[n]) => (Has(b, f) <=> Has(a, f)) /\ (Two(b, f) => Two(a, f))
    BY <1>1, <2>1, LinkRemoved
  <2>3. f = FileOf(a[n]) => (Has(b, f) => Two(a, f)) /\ (Two(b, f) => Two(a, f))
    BY <1>1, <2>1, LinkRemoved
  <2> QED
    BY <1>2, <2>1, <2>2, <2>3
<1>4. CASE (r \in failed \/ ~HasShareLink(p, FileOf(ItemOf(r)))) /\ b = a
    BY <1>2, <1>4
<1> QED
    BY <1>3, <1>4 DEF RemoveIn

LEMMA CallbackAside ==
    ASSUME IInv, ReplyInv, NEW r, Move(r), CallbackOutcome(r),
           NEW p \in Page, NEW l \in Known \cup {0}, NEW f \in File, Base(p, l, f)',
           View(p, l, f), r \notin Changes(p, l, f), r # l
    PROVE  View(p, l, f)'
<1>1. r \in Known /\ UNCHANGED <<deluxe_table, hc_shared_links>>
    BY DEF Move, CallbackOutcome, tables
<1>2. /\ Operation(r) \in ChangeType => FileOf(ItemOf(r)) # f
      /\ Operation(r) = "load" => requests[r].page # p
    BY MoveBase
<1>3. BadgesAside(p, f) /\ LinksAside(p, f) => View(p, l, f)'
    BY ViewAside
<1>4. CASE \/ Shuts(r)
           \/ BadgesIn(r) \/ LinksIn(r)
           \/ (ShareIn(r) \/ RemoveIn(r)) /\ requests[r].page # p
  <2>1. file_sys_badge'[p] = file_sys_badge[p] /\ shared_links'[p] = shared_links[p]
    BY <1>2, <1>4 DEF Shuts, BadgesIn, LinksIn, ShareIn, RemoveIn, page
  <2> QED
    BY <1>1, <1>3, <2>1, QuietSides
<1>5. CASE FavouriteIn(r)
  <2>1. BadgesAside(p, f)
    BY <1>1, <1>2, <1>5, FavouriteInAside DEF FavouriteIn, ChangeType
  <2>2. LinksAside(p, f)
    BY <1>1, <1>5, QuietSides DEF FavouriteIn
  <2> QED
    BY <1>3, <2>1, <2>2
<1>6. CASE (ShareIn(r) \/ RemoveIn(r)) /\ requests[r].page = p
  <2>1. FileOf(ItemOf(r)) # f /\ UNCHANGED file_sys_badge
    BY <1>2, <1>6 DEF ShareIn, RemoveIn, ChangeType
  <2>2. (HasShareLink(p, f)' <=> HasShareLink(p, f)) /\ (Several(p, f)' => Several(p, f))
    BY <1>1, <1>6, <2>1, ShareInLinks, RemoveInLinks
  <2>3. LinksAside(p, f)
    BY <1>1, <2>2 DEF LinksAside, StoredLink
  <2>4. BadgesAside(p, f)
    BY <1>1, <2>1, QuietSides
  <2> QED
    BY <1>3, <2>3, <2>4
<1> QED
    BY <1>4, <1>5, <1>6 DEF CallbackOutcome

LEMMA CallbackChange ==
    ASSUME IInv, VInv, NEW r, Move(r), CallbackOutcome(r),
           NEW p \in Page, NEW l \in Known \cup {0}, NEW f \in File, Base(p, l, f)',
           View(p, l, f), r \in Changes(p, l, f)
    PROVE  View(p, l, f)'
<1>0. ReplyInv
    BY DEF VInv
<1>1. /\ r \in Known /\ Known' = Known
      /\ \A s : Operation(s)' = Operation(s) /\ ItemOf(s)' = ItemOf(s)
      /\ \A s \in Known \ {r} : at'[s] = at[s] /\ data'[s] = data[s]
    BY MoveFacts
<1>2. /\ Changes(p, l, f)' = Changes(p, l, f) /\ OneSpelling(f)' = OneSpelling(f)
      /\ LinkedTwice(l, f)' = LinkedTwice(l, f) /\ r \notin failed' /\ r \notin failed
      /\ requests[r].page = p /\ r # l /\ FileOf(ItemOf(r)) = f /\ (l # 0 => at[l] = "received")
      /\ \A s \in Changes(p, l, f) \ {r} : at[s] \in Over
    BY <1>0, MoveBase
<1>3. Operation(r) \in ChangeType /\ UNCHANGED <<deluxe_table, hc_shared_links>>
    BY DEF Changes, ChangeType, CallbackOutcome, tables
<1>4. /\ Loaded(l, {"received"}) /\ Loaded(l, {"links", "answered", "received"})
      /\ l # 0 => at'[l] = "received"
    BY <1>1, <1>2 DEF Loaded
<1>5. StoredLink(f)' <=> StoredLink(f)
    BY <1>3 DEF StoredLink
<1>6. ASSUME at'[r] = "received" PROVE \A s \in Changes(p, l, f) : at'[s] \in Over /\ at'[s] # "answered"
    BY <1>1, <1>2, <1>6 DEF Changes, Over
<1>7. CASE FavouriteIn(r)
  <2> DEFINE a == file_sys_badge[p]
             i == ItemOf(r)
  <2>1. r \in Toggles(p, l, f)
    BY <1>7 DEF FavouriteIn, Toggles
  <2>2. a \in Seq(BadgeRow) /\ Ahead(a, deluxe_table, f, i)
    BY <1>4, <2>1 DEF View, BadgeView
  <2>3. PICK c \in Seq(BadgeRow) : Same(a, c, f) /\ Same(ToggleBadge(c, i), deluxe_table, f)
    BY <2>2 DEF Ahead
  <2>4. i \in Item
    BY <1>1, <1>3 DEF IInv, RequestInv, RequestOK, ForPage, ChangeType
  <2>5. ToggleBadge(a, i) \in Seq(BadgeRow) /\ Same(ToggleBadge(a, i), deluxe_table, f)
    BY <1>2, <2>2, <2>3, <2>4, SameToggled, SameTrans, ToggleRows
  <2>6. file_sys_badge'[p] = ToggleBadge(a, i)
    BY <1>2, <1>7, <2>2 DEF FavouriteIn
  <2>7. Toggles(p, l, f)' = {}
    BY <1>2, <1>6, <1>7 DEF Toggles, FavouriteIn
  <2>8. BadgeView(p, l, f)'
    BY <1>1, <1>3, <1>4, <2>5, <2>6, <2>7 DEF BadgeView
  <2>9. LinksAside(p, f)
    BY <1>3, <1>7, QuietSides DEF FavouriteIn
  <2>10. OneSpelling(f) => LinkView(p, l, f)'
    BY <1>0, <1>7, <2>9, LinksBeside DEF View, FavouriteIn
  <2> QED
    BY <1>2, <2>8, <2>10 DEF View
<1>8. ASSUME ShareIn(r) \/ RemoveIn(r) PROVE BadgeView(p, l, f)'
  <2>1. Operation(r) # "add_to_favorites" /\ UNCHANGED file_sys_badge
    BY <1>8 DEF ShareIn, RemoveIn
  <2>2. BadgesAside(p, f)
    BY <1>3, <2>1, QuietSides
  <2> QED
    BY <1>0, <2>1, <2>2, BadgesBeside DEF View
<1>9. ASSUME at'[r] = "received", Several(p, f)' => LinkedTwice(l, f),
             StoredLink(f) => HasShareLink(p, f)',
             HasShareLink(p, f)' => StoredLink(f) \/ LinkedTwice(l, f)
      PROVE  LinkView(p, l, f)'
  <2>1. ASSUME NEW s \in Changes(p, l, f)
        PROVE  /\ Operation(s) = "generate_share_link" /\ at'[s] \notin Over =>
                     ~HasShareLink(p, f)' /\ (at'[s] = "answered" => StoredLink(f)')
               /\ Operation(s) = "remove_share_link" /\ at'[s] = "answered" => ~StoredLink(f)'
    BY <1>6, <1>9
  <2> QED
    BY <1>1, <1>2, <1>4, <1>5, <1>9, <2>1 DEF LinkView
<1>10. CASE ShareIn(r)
  <2>1. ASSUME OneSpelling(f) PROVE LinkView(p, l, f)'
    <3>1. /\ Operation(r) = "generate_share_link" /\ at[r] = "answered" /\ at'[r] = "received"
          /\ at[r] \notin Over
        BY <1>10 DEF ShareIn, Over
    <3>2. ~HasShareLink(p, f) /\ StoredLink(f)
        BY <1>4, <2>1, <3>1 DEF View, LinkView
    <3>3. HasShareLink(p, f)' /\ ~Several(p, f)'
        BY <1>1, <1>2, <1>10, <3>2, ShareInLinks
    <3> QED
        BY <1>9, <3>1, <3>2, <3>3
  <2> QED
    BY <1>2, <1>8, <1>10, <2>1 DEF View
<1>11. CASE RemoveIn(r)
  <2>1. ASSUME OneSpelling(f) PROVE LinkView(p, l, f)'
    <3>1. Operation(r) = "remove_share_link" /\ at[r] = "answered" /\ at'[r] = "received"
        BY <1>11 DEF RemoveIn
    <3>2. ~StoredLink(f) /\ (Several(p, f) => LinkedTwice(l, f))
        BY <1>4, <2>1, <3>1 DEF View, LinkView
    <3>3. (HasShareLink(p, f)' => Several(p, f)) /\ (Several(p, f)' => Several(p, f))
        BY <1>1, <1>2, <1>11, RemoveInLinks
    <3> QED
        BY <1>9, <3>1, <3>2, <3>3
  <2> QED
    BY <1>2, <1>8, <1>11, <2>1 DEF View
<1> QED
    BY <1>2, <1>3, <1>7, <1>10, <1>11 DEF CallbackOutcome, Shuts, BadgesIn, LinksIn, ChangeType

LEMMA CallbackLoad ==
    ASSUME IInv, VInv, NEW r, Move(r), CallbackOutcome(r),
           NEW p \in Page, NEW l \in Known, NEW f \in File, Base(p, l, f)',
           View(p, l, f), r = l
    PROVE  View(p, l, f)'
<1>0. ReplyInv /\ l \in Known \cup {0}
    BY DEF VInv
<1>1. /\ r \in Known /\ Known' = Known /\ l # 0
      /\ \A s : Operation(s)' = Operation(s) /\ ItemOf(s)' = ItemOf(s)
  <2>1. Known \subseteq Req
    BY MoveFacts
  <2> QED
    BY <2>1, MoveFacts DEF Req
<1>2. /\ Changes(p, l, f)' = Changes(p, l, f) /\ OneSpelling(f)' = OneSpelling(f)
      /\ LinkedTwice(l, f)' = LinkedTwice(l, f) /\ r \notin failed' /\ r \notin failed
    BY <1>0, MoveBase
<1>3. requests[r].page = p /\ Operation(r) = "load" /\ Changes(p, l, f) = {}
    BY <1>0, MoveBase
<1>4. Toggles(p, l, f) = {} /\ Toggles(p, l, f)' = {}
    BY <1>2, <1>3 DEF Toggles
<1>5. UNCHANGED <<deluxe_table, hc_shared_links>>
    BY DEF CallbackOutcome, tables
<1>6. CASE BadgesIn(r)
  <2>1. /\ at[l] = "badgesAnswered" /\ at'[l] = "links"
        /\ file_sys_badge'[p] = data[l] /\ data[l] \in Seq(BadgeRow)
    BY <1>2, <1>3, <1>6 DEF BadgesIn
  <2>2. Same(file_sys_badge'[p], deluxe_table', f)
    BY <1>1, <1>5, <2>1 DEF View, BadgeView
  <2>3. BadgeView(p, l, f)'
    BY <1>1, <1>4, <2>1, <2>2 DEF BadgeView
  <2>4. LinkView(p, l, f)'
    BY <1>1, <2>1 DEF LinkView, Loaded
  <2> QED
    BY <2>3, <2>4 DEF View
<1>7. CASE LinksIn(r)
  <2>1. /\ at[l] = "answered" /\ at'[l] = "received" /\ file_sys_badge' = file_sys_badge
        /\ shared_links'[p] = [n \in DOMAIN data[l] |-> data[l][n].item]
    BY <1>2, <1>3, <1>7 DEF LinksIn
  <2>2. BadgeView(p, l, f)'
    <3>1. Loaded(l, {"links", "answered", "received"})
        BY <2>1 DEF Loaded
    <3>2. file_sys_badge[p] \in Seq(BadgeRow) /\ Same(file_sys_badge[p], deluxe_table, f)
        BY <1>4, <3>1 DEF View, BadgeView
    <3> QED
        BY <1>1, <1>4, <1>5, <2>1, <3>2 DEF BadgeView
  <2>3. ASSUME OneSpelling(f) PROVE LinkView(p, l, f)'
    <3>1. (StoredLink(f) <=> Listed(l, f)) /\ (Repeated(l, f) => LinkedTwice(l, f))
        BY <1>1, <2>1, <2>3 DEF View, LinkView
    <3>2. /\ DOMAIN shared_links'[p] = DOMAIN data[l]
          /\ \A n \in DOMAIN data[l] : shared_links'[p][n] = data[l][n].item
        BY <2>1
    <3>3. HasShareLink(p, f)' <=> Listed(l, f)
        BY <3>2 DEF HasShareLink, Listed
    <3>4. Several(p, f)' <=> Repeated(l, f)
        BY <3>2 DEF Several, Repeated
    <3>5. StoredLink(f)' <=> StoredLink(f)
        BY <1>5 DEF StoredLink
    <3> QED
        BY <1>1, <1>2, <1>3, <2>1, <3>1, <3>3, <3>4, <3>5 DEF LinkView
  <2> QED
    BY <1>2, <2>2, <2>3 DEF View
<1> QED
    BY <1>2, <1>3, <1>6, <1>7 DEF CallbackOutcome, Shuts, FavouriteIn, ShareIn, RemoveIn

LEMMA CallbackView ==
    ASSUME IInv, VInv, NEW r \in Known, ReceiveBadges(r) \/ Receive(r) \/ Lose(r),
           NEW p \in Page, NEW l \in Known \cup {0}, NEW f \in File, Base(p, l, f)'
    PROVE  View(p, l, f)'
<1>1. Move(r) /\ CallbackOutcome(r) /\ ReplyInv
    BY CallbackMove DEF VInv
<1>2. View(p, l, f)
    BY <1>1, MoveBase DEF VInv, ViewInv
<1>3. CASE r = l
    BY <1>1, <1>2, <1>3, CallbackLoad
<1>4. CASE r \in Changes(p, l, f)
    BY <1>1, <1>2, <1>4, CallbackChange
<1>5. CASE r # l /\ r \notin Changes(p, l, f)
    BY <1>1, <1>2, <1>5, CallbackAside
<1> QED
    BY <1>3, <1>4, <1>5

-----------------------------------------------------------------------------
(***************************************************************************)
(* The view past a request that is sent.                                   *)
(***************************************************************************)
LEMMA SentView ==
    ASSUME IInv, VInv, NEW r, NEW op, NEW q, NEW i, NEW m, Sendable(op, q, i, m), Sent(r, op, q, i, m),
           NEW p \in Page, NEW l \in Known' \cup {0}, NEW f \in File, Base(p, l, f)'
    PROVE  View(p, l, f)'
<1>1. /\ r \in Req /\ r \notin Known /\ Known' = Known \cup {r} /\ Known \subseteq Nat /\ 0 \notin Known'
      /\ \A s \in Known : /\ Operation(s)' = Operation(s) /\ ItemOf(s)' = ItemOf(s)
                          /\ requests'[s] = requests[s]
                          /\ at'[s] = at[s] /\ before'[s] = before[s] /\ data'[s] = data[s]
      /\ Operation(r)' = op /\ ItemOf(r)' = i /\ requests'[r].page = q
      /\ at'[r] \notin Over \cup {"answered", "badgesAnswered", "links"}
      /\ UNCHANGED <<reply, deluxe_table, hc_shared_links, file_sys_badge, shared_links, failed>>
      /\ \A s \in Known : \A t \in before[s] : t \in Known
  <2>1. 0 \notin Known'
    <3>1. r \in Req /\ Known' = Known \cup {r}
        BY SentFacts
    <3>2. 0 \notin Req /\ Known \subseteq Req
        BY KnownType DEF IInv, Req
    <3> QED
        BY <3>1, <3>2
  <2> QED
    BY <2>1, SentFacts DEF tables, page
<1>2. CASE l = r
  <2>1. l # 0 /\ at'[l] \notin {"badgesAnswered", "links", "answered", "received"}
    BY <1>1, <1>2 DEF Over
  <2> QED
    BY <2>1 DEF View, BadgeView, LinkView, Loaded
<1>3. CASE l # r
  <2>1. l \in Known \cup {0}
    BY <1>1, <1>3
  <2>2. /\ l # 0 => at'[l] = at[l] /\ data'[l] = data[l] /\ before'[l] = before[l] /\ requests'[l] = requests[l]
                    /\ Operation(l)' = Operation(l) /\ l \in Known
    BY <1>1, <2>1
  <2>3. \A s \in Known : s \in Changes(p, l, f)' <=> s \in Changes(p, l, f)
    BY <1>1, <2>2 DEF Changes
  <2>4. Changes(p, l, f) \subseteq Known /\ Changes(p, l, f)' \subseteq Known \cup {r}
    BY <1>1 DEF Changes
  <2>5. Base(p, l, f)
    <3>1. \A s \in Known : requests[s].page = p /\ Operation(s) = "load" =>
                               l # 0 /\ (s = l \/ s \in before[l])
        BY <1>1, <2>2 DEF Base
    <3>2. l # 0 => requests[l].page = p /\ Operation(l) = "load" /\ l \notin failed
        BY <1>1, <2>2 DEF Base
    <3>3. ASSUME NEW s \in Changes(p, l, f)
          PROVE  /\ requests[s].page = p /\ s \notin failed
                 /\ l # 0 => l \in before[s]
                 /\ \A t \in Changes(p, l, f) : t < s => t \in before[s]
      <4>1. s \in Known /\ s \in Changes(p, l, f)'
        BY <2>3, <2>4
      <4>2. \A t \in Changes(p, l, f) : t \in Changes(p, l, f)'
        BY <2>3, <2>4
      <4> QED
        BY <1>1, <4>1, <4>2 DEF Base
    <3> QED
        BY <3>1, <3>2, <3>3 DEF Base
  <2>6. View(p, l, f)
    BY <2>1, <2>5 DEF VInv, ViewInv
  <2>7. Toggles(p, l, f)' = Toggles(p, l, f)
    BY <1>1, <2>3, <2>4 DEF Toggles
  <2>8. \A s \in Toggles(p, l, f) : ItemOf(s)' = ItemOf(s)
    BY <1>1, <2>4 DEF Toggles
  <2>9. \A places : Loaded(l, places)' <=> Loaded(l, places)
    BY <2>2 DEF Loaded
  <2>10. BadgeView(p, l, f)'
    BY <1>1, <2>2, <2>6, <2>7, <2>8, <2>9 DEF View, BadgeView
  <2>11. ASSUME OneSpelling(f)' PROVE LinkView(p, l, f)'
    <3>1. OneSpelling(f)
      <4>1. \A s \in Known : s \in Known' /\ Operation(s)' = Operation(s) /\ ItemOf(s)' = ItemOf(s)
        BY <1>1
      <4> QED
        BY <2>11, <4>1 DEF OneSpelling
    <3>2. LinkView(p, l, f)
        BY <2>6, <3>1 DEF View
    <3>3. /\ StoredLink(f)' <=> StoredLink(f)
          /\ HasShareLink(p, f)' <=> HasShareLink(p, f)
          /\ Several(p, f)' <=> Several(p, f)
        BY <1>1 DEF StoredLink, HasShareLink, Several
    <3>4. l # 0 => (Listed(l, f)' <=> Listed(l, f)) /\ (Repeated(l, f)' <=> Repeated(l, f))
        BY <2>2 DEF Listed, Repeated
    <3>5. LinkedTwice(l, f)' <=> LinkedTwice(l, f)
      <4>1. CASE l = 0
        BY <4>1 DEF LinkedTwice
      <4>2. CASE l # 0
        <5>1. /\ l \in Known /\ before'[l] = before[l]
              /\ \A s \in before[l] : /\ Operation(s)' = Operation(s) /\ ItemOf(s)' = ItemOf(s)
                                      /\ before'[s] = before[s]
            BY <1>1, <2>2, <4>2
        <5> QED
            BY <1>1, <4>2, <5>1 DEF LinkedTwice
      <4> QED
        BY <4>1, <4>2
    <3>6. /\ l # 0 /\ at'[l] = "answered" =>
                /\ StoredLink(f)' <=> Listed(l, f)'
                /\ Repeated(l, f)' => LinkedTwice(l, f)'
          /\ Loaded(l, {"received"})' => (Several(p, f)' => LinkedTwice(l, f)')
        BY <2>2, <2>9, <3>2, <3>3, <3>4, <3>5 DEF LinkView
    <3>7. ASSUME Loaded(l, {"received"}),
                 \A s \in Changes(p, l, f)' : at'[s] = "answered" => Operation(s)' = "add_to_favorites"
          PROVE  /\ StoredLink(f)' => HasShareLink(p, f)'
                 /\ HasShareLink(p, f)' => StoredLink(f)' \/ LinkedTwice(l, f)'
      <4>1. \A s \in Changes(p, l, f) : at[s] = "answered" => Operation(s) = "add_to_favorites"
        BY <1>1, <2>3, <2>4, <3>7
      <4> QED
        BY <3>2, <3>3, <3>5, <3>7, <4>1 DEF LinkView
    <3>8. ASSUME Loaded(l, {"received"}), NEW s \in Changes(p, l, f)'
          PROVE  /\ Operation(s)' = "generate_share_link" /\ at'[s] \notin Over =>
                       ~HasShareLink(p, f)' /\ (at'[s] = "answered" => StoredLink(f)')
                 /\ Operation(s)' = "remove_share_link" /\ at'[s] = "answered" => ~StoredLink(f)'
      <4>1. CASE s = r
        <5>1. q = p
            BY <1>1, <3>8, <4>1 DEF Base
        <5>2. FileOf(i) = f
            BY <1>1, <3>8, <4>1 DEF Changes
        <5>3. op = "generate_share_link" => ~HasShareLink(p, FileOf(i))
            BY <5>1 DEF Sendable
        <5> QED
            BY <1>1, <3>3, <4>1, <5>2, <5>3
      <4>2. CASE s # r
        <5>1. s \in Known /\ s \in Changes(p, l, f)
            BY <2>3, <2>4, <3>8, <4>2
        <5> QED
            BY <1>1, <3>2, <3>3, <3>8, <5>1 DEF LinkView
      <4> QED
        BY <4>1, <4>2
    <3> QED
        BY <2>9, <3>6, <3>7, <3>8 DEF LinkView
  <2> QED
    BY <2>10, <2>11 DEF View
<1> QED
    BY <1>2, <1>3

-----------------------------------------------------------------------------
(***************************************************************************)
(* The invariant holds in every state.                                     *)
(***************************************************************************)
LEMMA InitView == Init => VInv
<1> SUFFICES ASSUME Init PROVE VInv
    OBVIOUS
<1>1. Known = {} /\ raced = {}
    BY DEF Init, Known
<1>2. BeforeInv /\ ReplyInv /\ RacedInv
    BY <1>1 DEF BeforeInv, ReplyInv, RacedInv
<1>3. ByInv
    BY DEF Init, ByInv
<1>4. ASSUME NEW p \in Page, NEW f \in File PROVE View(p, 0, f)
  <2>1. Changes(p, 0, f) = {} /\ Toggles(p, 0, f) = {}
    BY <1>1 DEF Changes, Toggles
  <2>2. file_sys_badge[p] = <<>> /\ deluxe_table = <<>> /\ shared_links[p] = <<>> /\ hc_shared_links = <<>>
    BY DEF Init
  <2>3. file_sys_badge[p] \in Seq(BadgeRow)
    BY <2>2, EmptySeq
  <2>4. Same(file_sys_badge[p], deluxe_table, f)
    BY <2>2, KeptSame DEF KeptRows
  <2>5. ~StoredLink(f) /\ ~HasShareLink(p, f) /\ ~Several(p, f)
    BY <2>2 DEF StoredLink, HasShareLink, Several
  <2> QED
    BY <2>1, <2>3, <2>4, <2>5 DEF View, BadgeView, LinkView
<1> QED
    BY <1>1, <1>2, <1>3, <1>4 DEF VInv, ViewInv

LEMMA StutterView == VInv /\ UNCHANGED vars => VInv'
<1> SUFFICES ASSUME VInv, UNCHANGED vars PROVE VInv'
    OBVIOUS
<1>1. UNCHANGED <<requests, at, reply, data, deluxe_table, hc_shared_links,
                  file_sys_badge, shared_links, failed, before, raced>>
    BY DEF vars, handler, tables, page, history
<1>2. /\ Known' = Known
      /\ \A s : Operation(s)' = Operation(s) /\ ItemOf(s)' = ItemOf(s)
    BY <1>1 DEF Known, Operation, ItemOf
<1>3. BeforeInv' /\ ReplyInv' /\ ByInv' /\ RacedInv'
  <2>1. \A s, r : Beside(s, r)' <=> Beside(s, r)
    BY <1>1, <1>2 DEF Beside
  <2> QED
    BY <1>1, <1>2, <2>1 DEF VInv, BeforeInv, ReplyInv, Served, ByInv, RacedInv
<1>4. ASSUME NEW p \in Page, NEW l \in Known \cup {0}, NEW f \in File, Base(p, l, f)'
      PROVE  View(p, l, f)'
  <2>1. Changes(p, l, f)' = Changes(p, l, f)
    BY <1>1, <1>2 DEF Changes
  <2>2. Base(p, l, f)
    BY <1>1, <1>2, <1>4, <2>1 DEF Base
  <2>3. View(p, l, f)
    BY <2>2 DEF VInv, ViewInv
  <2>4. Toggles(p, l, f)' = Toggles(p, l, f)
    BY <1>1, <1>2, <2>1 DEF Toggles
  <2>5. \A places : Loaded(l, places)' <=> Loaded(l, places)
    BY <1>1 DEF Loaded
  <2>6. BadgeView(p, l, f)'
    BY <1>1, <1>2, <2>3, <2>4, <2>5 DEF View, BadgeView
  <2>7. /\ StoredLink(f)' <=> StoredLink(f)
        /\ HasShareLink(p, f)' <=> HasShareLink(p, f)
        /\ Several(p, f)' <=> Several(p, f)
        /\ Listed(l, f)' <=> Listed(l, f)
        /\ Repeated(l, f)' <=> Repeated(l, f)
    BY <1>1 DEF StoredLink, HasShareLink, Several, Listed, Repeated
  <2>8. (LinkedTwice(l, f)' <=> LinkedTwice(l, f)) /\ (OneSpelling(f)' <=> OneSpelling(f))
    BY <1>1, <1>2 DEF LinkedTwice, OneSpelling
  <2>9. OneSpelling(f) => LinkView(p, l, f)'
    BY <1>1, <1>2, <2>1, <2>3, <2>5, <2>7, <2>8 DEF View, LinkView
  <2> QED
    BY <2>6, <2>8, <2>9 DEF View
<1> QED
    BY <1>2, <1>3, <1>4 DEF VInv, ViewInv

LEMMA NextView == IInv /\ IInv' /\ VInv /\ [Next]_vars => VInv'
<1> SUFFICES ASSUME IInv, IInv', VInv, [Next]_vars PROVE VInv'
    OBVIOUS
<1>1. CASE UNCHANGED vars
    BY <1>1, StutterView
<1>2. ASSUME NEW r \in Known, \/ Handle(r) /\ UNCHANGED page
                              \/ ReceiveBadges(r) \/ Receive(r) \/ Lose(r)
      PROVE  VInv'
  <2>1. Move(r)
    BY <1>2, HandleMove, CallbackMove DEF VInv
  <2>2. BeforeInv' /\ ReplyInv' /\ RacedInv'
    BY <2>1, MoveKept DEF VInv
  <2>3. ByInv'
    <3>1. CASE Handle(r)
        BY <3>1, HandleMove, ByKept DEF VInv
    <3>2. CASE ReceiveBadges(r) \/ Receive(r) \/ Lose(r)
        BY <3>2, CallbackMove DEF VInv, CallbackOutcome, tables, ByInv
    <3> QED
        BY <1>2, <3>1, <3>2
  <2>4. Known' = Known
    BY <2>1, MoveFacts
  <2>5. ASSUME NEW p \in Page, NEW l \in Known \cup {0}, NEW f \in File, Base(p, l, f)'
        PROVE  View(p, l, f)'
    BY <1>2, <2>5, HandlerView, CallbackView
  <2> QED
    BY <2>2, <2>3, <2>4, <2>5 DEF VInv, ViewInv
<1>3. ASSUME NEW op, NEW q, NEW i, NEW m, Sendable(op, q, i, m), Send(op, q, i, m)
      PROVE  VInv'
  <2>1. PICK r : Sent(r, op, q, i, m)
    BY <1>3, SendParts DEF Sendable
  <2>2. BeforeInv' /\ ReplyInv' /\ ByInv' /\ RacedInv'
    BY <1>3, <2>1, SentKept DEF VInv
  <2>3. ViewInv'
    BY <1>3, <2>1, SentView DEF ViewInv
  <2> QED
    BY <2>2, <2>3 DEF VInv
<1>4. CASE Next
    BY <1>2, <1>3, <1>4, NextParts
<1> QED
    BY <1>1, <1>4

LEMMA ViewImplied == IInv /\ VInv => ViewShowsTables
<1> SUFFICES ASSUME IInv, VInv,
                    NEW p \in Page, NEW l \in Known \cup {0}, NEW f \in File, Undisturbed(p, l, f)
             PROVE  /\ ShowsFavourite(p, f) = StoredFavourite(f)
                    /\ OneSpelling(f) =>
                          /\ StoredLink(f) => HasShareLink(p, f)
                          /\ HasShareLink(p, f) => StoredLink(f) \/ LinkedTwice(l, f)
    BY DEF ViewShowsTables
<1>1. Base(p, l, f) /\ \A r \in Known : requests[r].page = p => at[r] \in Over
    BY DEF Undisturbed, Base, Done
<1>2. View(p, l, f)
    BY <1>1 DEF VInv, ViewInv
<1>3. Loaded(l, {"received"}) /\ Loaded(l, {"links", "answered", "received"})
  <2>1. CASE l = 0
    BY <2>1 DEF Loaded
  <2>2. CASE l # 0
    <3>1. l \in Known /\ at[l] \in Over /\ Operation(l) = "load" /\ l \notin failed
        BY <1>1, <2>2 DEF Base
    <3>2. at[l] = "received"
        BY <3>1 DEF VInv, ReplyInv, Served, ForPage, Over
    <3> QED
        BY <3>2 DEF Loaded
  <2> QED
    BY <2>1, <2>2
<1>4. \A r \in Changes(p, l, f) : at[r] # "answered"
  <2>1. \A r \in Changes(p, l, f) : r \in Known /\ requests[r].page = p
    BY <1>1 DEF Base, Changes
  <2> QED
    BY <1>1, <2>1 DEF Over
<1>5. Toggles(p, l, f) = {}
    BY <1>4 DEF Toggles
<1>6. ShowsFavourite(p, f) <=> StoredFavourite(f)
  <2>1. file_sys_badge[p] \in Seq(BadgeRow) /\ Same(file_sys_badge[p], deluxe_table, f)
    BY <1>2, <1>3, <1>5 DEF View, BadgeView
  <2>2. deluxe_table \in Seq(BadgeRow)
    BY DEF IInv, TypeOK
  <2>3. Shows(file_sys_badge[p], f) <=> Shows(deluxe_table, f)
    BY <2>1, <2>2, SameShows
  <2> QED
    BY <2>3 DEF Shows, ShowsFavourite, StoredFavourite
<1>7. ShowsFavourite(p, f) \in BOOLEAN /\ StoredFavourite(f) \in BOOLEAN
    BY DEF ShowsFavourite, StoredFavourite
<1>8. ASSUME OneSpelling(f)
      PROVE  /\ StoredLink(f) => HasShareLink(p, f)
             /\ HasShareLink(p, f) => StoredLink(f) \/ LinkedTwice(l, f)
    BY <1>2, <1>3, <1>4, <1>8 DEF View, LinkView
<1> QED
    BY <1>6, <1>7, <1>8

-----------------------------------------------------------------------------
(***************************************************************************)
(* Theorems.                                                               *)
(***************************************************************************)

\* Between the answer to a load and the last change that a page makes, alone,
\* the page has the rows and the links of a file that the tables have, but for
\* the one change that has reached the table and whose callback is due.
THEOREM ViewInvariant == Spec => [](IInv /\ VInv)
<1>1. Init => VInv
    BY InitView
<1>2. IInv /\ IInv' /\ VInv /\ [Next]_vars => VInv'
    BY NextView
<1> QED
    BY <1>1, <1>2, PageInvariant, PTL DEF Spec

\* A page that nobody disturbed since it was loaded shows the favourites and
\* the links of a file that deluxe_table and hc_shared_links hold, although it
\* only repeats on its own lists what it takes the server to have done.
THEOREM ViewCorrect == Spec => []ViewShowsTables
BY ViewImplied, ViewInvariant, PTL
=============================================================================
