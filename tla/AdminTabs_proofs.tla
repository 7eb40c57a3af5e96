-------------------------- MODULE AdminTabs_proofs --------------------------
(***************************************************************************)
(* Proofs about AdminTabs, for every set of windows and every finite set   *)
(* of urls, and about Md5, whose digest of a url is the name of its tab:   *)
(* the arithmetic of its words, and its padding for strings of any length. *)
(***************************************************************************)
EXTENDS AdminTabs, Md5, FiniteSetTheorems, TLAPS

-----------------------------------------------------------------------------
(* Lists: IsList in terms of pairs *)

Ordered(L) ==
    /\ \A x, y : <<x, y>> \in L => <<x, x>> \in L /\ <<y, y>> \in L
    /\ \A x, y : <<x, x>> \in L /\ <<y, y>> \in L => <<x, y>> \in L \/ <<y, x>> \in L
    /\ \A x, y : <<x, y>> \in L /\ <<y, x>> \in L => x = y
    /\ \A x, y, z : <<x, y>> \in L /\ <<y, z>> \in L => <<x, z>> \in L

LEMMA ElementsAre ==
    ASSUME NEW A, NEW L \in SUBSET (A \X A)
    PROVE  /\ \A x : x \in Elements(L) => \E y : <<x, y>> \in L
           /\ \A x, y : <<x, y>> \in L => x \in Elements(L) /\ x \in A /\ y \in A
  <1>1. ASSUME NEW x \in Elements(L) PROVE \E y : <<x, y>> \in L
    <2>1. PICK p \in L : x = p[1]
      BY DEF Elements
    <2>2. p = <<p[1], p[2]>>
      OBVIOUS
    <2> QED
      BY <2>1, <2>2
  <1>2. ASSUME NEW x, NEW y, <<x, y>> \in L PROVE x \in Elements(L) /\ x \in A /\ y \in A
    <2>1. <<x, y>>[1] = x
      OBVIOUS
    <2> QED
      BY <1>2, <2>1 DEF Elements
  <1> QED
    BY <1>1, <1>2

LEMMA ListFacts ==
    ASSUME NEW A, NEW L \in SUBSET (A \X A), IsList(L)
    PROVE  /\ Ordered(L)
           /\ \A x : x \in Elements(L) <=> <<x, x>> \in L
           /\ Elements(L) \subseteq A
  <1>1. \A x, y : <<x, y>> \in L => x \in Elements(L) /\ y \in Elements(L)
    <2> SUFFICES ASSUME NEW x, NEW y, <<x, y>> \in L
                 PROVE  x \in Elements(L) /\ y \in Elements(L)
      OBVIOUS
    <2>1. <<x, y>>[1] = x /\ <<x, y>>[2] = y
      OBVIOUS
    <2> QED
      BY <2>1 DEF IsList
  <1>2. \A x \in Elements(L) : <<x, x>> \in L /\ x \in A
    BY ElementsAre DEF IsList
  <1> QED
    BY <1>1, <1>2 DEF IsList, Ordered

LEMMA MakeList ==
    ASSUME NEW A, NEW L \in SUBSET (A \X A), Ordered(L)
    PROVE  IsList(L)
  <1>1. \A x, y : <<x, y>> \in L => x \in Elements(L) /\ y \in Elements(L)
    BY ElementsAre DEF Ordered
  <1>2. \A x \in Elements(L) : <<x, x>> \in L
    <2> SUFFICES ASSUME NEW x \in Elements(L) PROVE <<x, x>> \in L
      OBVIOUS
    <2>1. PICK y : <<x, y>> \in L
      BY ElementsAre
    <2> QED
      BY <2>1 DEF Ordered
  <1>3. \A p \in L : p[1] \in Elements(L) /\ p[2] \in Elements(L)
    <2> SUFFICES ASSUME NEW p \in L PROVE p[1] \in Elements(L) /\ p[2] \in Elements(L)
      OBVIOUS
    <2>1. p = <<p[1], p[2]>>
      OBVIOUS
    <2> QED
      BY <1>1, <2>1
  <1> QED
    BY <1>2, <1>3 DEF IsList, Ordered

LEMMA AppendedList ==
    ASSUME NEW A, NEW L \in SUBSET (A \X A), IsList(L), NEW x \in A, x \notin Elements(L)
    PROVE  /\ Appended(L, x) \in SUBSET (A \X A)
           /\ IsList(Appended(L, x))
           /\ Elements(Appended(L, x)) = Elements(L) \cup {x}
           /\ \A a, b : <<a, b>> \in Appended(L, x) <=>
                            <<a, b>> \in L \/ (b = x /\ a \in Elements(L) \cup {x})
  <1> DEFINE M == Appended(L, x)
  <1>0. /\ Ordered(L)
        /\ \A a : a \in Elements(L) <=> <<a, a>> \in L
        /\ Elements(L) \subseteq A
    BY ListFacts
  <1>1. \A a, b : <<a, b>> \in M <=> <<a, b>> \in L \/ (b = x /\ a \in Elements(L) \cup {x})
    BY DEF Appended
  <1>2. M \in SUBSET (A \X A)
    BY <1>0 DEF Appended
  <1> HIDE DEF M
  <1>3. Ordered(M)
    BY <1>0, <1>1 DEF Ordered
  <1>4. IsList(M)
    BY <1>2, <1>3, MakeList
  <1>5. \A a : a \in Elements(M) <=> <<a, a>> \in M
    BY <1>2, <1>4, ListFacts
  <1>6. Elements(M) = Elements(L) \cup {x}
    BY <1>0, <1>1, <1>5
  <1> QED
    BY <1>1, <1>2, <1>4, <1>6 DEF M

LEMMA KeepList ==
    ASSUME NEW A, NEW L \in SUBSET (A \X A), IsList(L), NEW S
    PROVE  /\ Keep(L, S) \in SUBSET (A \X A)
           /\ IsList(Keep(L, S))
           /\ Elements(Keep(L, S)) = Elements(L) \cap S
           /\ \A a, b : <<a, b>> \in Keep(L, S) <=> <<a, b>> \in L /\ a \in S /\ b \in S
  <1> DEFINE M == Keep(L, S)
  <1>0. /\ Ordered(L)
        /\ \A a : a \in Elements(L) <=> <<a, a>> \in L
    BY ListFacts
  <1>1. \A a, b : <<a, b>> \in M <=> <<a, b>> \in L /\ a \in S /\ b \in S
    BY DEF Keep
  <1>2. M \in SUBSET (A \X A)
    BY DEF Keep
  <1> HIDE DEF M
  <1>3. Ordered(M)
    BY <1>0, <1>1 DEF Ordered
  <1>4. IsList(M)
    BY <1>2, <1>3, MakeList
  <1>5. \A a : a \in Elements(M) <=> <<a, a>> \in M
    BY <1>2, <1>4, ListFacts
  <1>6. Elements(M) = Elements(L) \cap S
    BY <1>0, <1>1, <1>5
  <1> QED
    BY <1>1, <1>2, <1>4, <1>6 DEF M

LEMMA SamePairs ==
    ASSUME NEW A, NEW L \in SUBSET (A \X A), NEW M \in SUBSET (A \X A),
           \A a, b : <<a, b>> \in L <=> <<a, b>> \in M
    PROVE  L = M
  OBVIOUS

\* The tabs of a window that loads: home, then the keys of tab_list.
LEMMA LoadedList ==
    ASSUME tabList \in SUBSET (Urls \X Urls), IsList(tabList)
    PROVE  /\ Loaded \in SUBSET (Tabs \X Tabs)
           /\ IsList(Loaded)
           /\ Elements(Loaded) = Elements(tabList) \cup {Home}
           /\ \A a, b : <<a, b>> \in Loaded <=>
                            \/ a = Home /\ b \in Elements(tabList) \cup {Home}
                            \/ <<a, b>> \in tabList
  <1>0. /\ Ordered(tabList)
        /\ \A a : a \in Elements(tabList) <=> <<a, a>> \in tabList
        /\ Elements(tabList) \subseteq Urls
    BY ListFacts
  <1>1. \A a, b : <<a, b>> \in Loaded <=>
                      \/ a = Home /\ b \in Elements(tabList) \cup {Home}
                      \/ <<a, b>> \in tabList
    BY DEF Loaded, OnlyHome
  <1>2. Loaded \in SUBSET (Tabs \X Tabs)
    <2>1. OnlyHome \in SUBSET (Tabs \X Tabs)
      BY DEF OnlyHome, Tabs
    <2>2. {<<Home, u>> : u \in Elements(tabList)} \in SUBSET (Tabs \X Tabs)
      BY <1>0 DEF Tabs
    <2>3. tabList \in SUBSET (Tabs \X Tabs)
      BY DEF Tabs
    <2> QED
      BY <2>1, <2>2, <2>3 DEF Loaded
  <1>3. \A a, b : <<a, b>> \in tabList => a # Home /\ b # Home
    BY HomeIsNoUrl
  <1>4. Ordered(Loaded)
    <2>1. \A x, y : <<x, y>> \in Loaded => <<x, x>> \in Loaded /\ <<y, y>> \in Loaded
      BY <1>0, <1>1 DEF Ordered
    <2>2. \A x, y : <<x, x>> \in Loaded /\ <<y, y>> \in Loaded
                      => <<x, y>> \in Loaded \/ <<y, x>> \in Loaded
      BY <1>0, <1>1 DEF Ordered
    <2>3. \A x, y : <<x, y>> \in Loaded /\ <<y, x>> \in Loaded => x = y
      BY <1>0, <1>1, <1>3 DEF Ordered
    <2>4. \A x, y, z : <<x, y>> \in Loaded /\ <<y, z>> \in Loaded => <<x, z>> \in Loaded
      <3> SUFFICES ASSUME NEW x, NEW y, NEW z, <<x, y>> \in Loaded, <<y, z>> \in Loaded
                   PROVE  <<x, z>> \in Loaded
        OBVIOUS
      <3>1. CASE x = Home
        BY <1>0, <1>1, <3>1 DEF Ordered
      <3>2. CASE x # Home
        <4>1. <<x, y>> \in tabList
          BY <1>1, <3>2
        <4>2. <<y, z>> \in tabList
          BY <1>1, <1>3, <4>1
        <4> QED
          BY <1>0, <1>1, <4>1, <4>2 DEF Ordered
      <3> QED
        BY <3>1, <3>2
    <2> QED
      BY <2>1, <2>2, <2>3, <2>4 DEF Ordered
  <1>5. IsList(Loaded)
    BY <1>2, <1>4, MakeList
  <1>6. \A a : a \in Elements(Loaded) <=> <<a, a>> \in Loaded
    BY <1>2, <1>5, ListFacts
  <1>7. Elements(Loaded) = Elements(tabList) \cup {Home}
    BY <1>0, <1>1, <1>6
  <1> QED
    BY <1>1, <1>2, <1>5, <1>7

LEMMA HomeList ==
    /\ OnlyHome \in SUBSET (Tabs \X Tabs)
    /\ IsList(OnlyHome)
    /\ Elements(OnlyHome) = {Home}
    /\ \A a, b : <<a, b>> \in OnlyHome <=> a = Home /\ b = Home
  <1>1. OnlyHome \in SUBSET (Tabs \X Tabs)
    BY DEF OnlyHome, Tabs
  <1>2. \A a, b : <<a, b>> \in OnlyHome <=> a = Home /\ b = Home
    BY DEF OnlyHome
  <1>3. IsList(OnlyHome)
    BY <1>1, <1>2, MakeList DEF Ordered
  <1>4. Elements(OnlyHome) = {Home}
    BY <1>1, <1>2, <1>3, ListFacts
  <1> QED
    BY <1>1, <1>2, <1>3, <1>4

-----------------------------------------------------------------------------
(* The ends of a finite list *)

\* A finite set that a relation orders has a greatest element: one whose set
\* of elements to the right is minimal has none there.
LEMMA Greatest ==
    ASSUME NEW S, IsFiniteSet(S), S # {}, NEW R,
           \A x, y \in S : <<x, y>> \in R \/ <<y, x>> \in R,
           \A x, y \in S : <<x, y>> \in R /\ <<y, x>> \in R => x = y,
           \A x, y, z \in S : <<x, y>> \in R /\ <<y, z>> \in R => <<x, z>> \in R
    PROVE  \E x \in S : \A y \in S : <<y, x>> \in R
  <1> DEFINE Right(x) == {y \in S : <<x, y>> \in R} \ {x}
             Rights == {Right(x) : x \in S}
  <1>1. IsWellFoundedOn(StrictSubsetOrdering(S), SUBSET S)
    BY FS_StrictSubsetOrderingWellFounded, FS_FiniteSubsetsOfFinite
  <1>2. Rights \subseteq SUBSET S /\ Rights # {}
    <2>1. PICK x \in S : TRUE
      OBVIOUS
    <2>2. Right(x) \in Rights
      OBVIOUS
    <2>3. \A y \in S : Right(y) \in SUBSET S
      OBVIOUS
    <2> HIDE DEF Right
    <2> QED
      BY <2>2, <2>3
  <1>3. PICK r \in Rights : \A q \in Rights : <<q, r>> \notin StrictSubsetOrdering(S)
    <2> HIDE DEF Rights
    <2> QED
      BY <1>1, <1>2, WFMin
  <1>4. PICK x \in S : r = Right(x)
    OBVIOUS
  <1>5. ASSUME NEW y \in Right(x) PROVE FALSE
    <2>1. y \in S /\ <<x, y>> \in R /\ y # x
      OBVIOUS
    <2>2. Right(y) \subseteq Right(x)
      <3> SUFFICES ASSUME NEW z \in Right(y) PROVE z \in Right(x)
        OBVIOUS
      <3>1. z \in S /\ <<y, z>> \in R
        OBVIOUS
      <3>2. <<x, z>> \in R
        BY <2>1, <3>1
      <3>3. z # x
        BY <2>1, <3>1
      <3> QED
        BY <3>1, <3>2, <3>3
    <2>3. y \notin Right(y)
      OBVIOUS
    <2>4. Right(y) # Right(x)
      BY <2>3
    <2>5. Right(y) \in Rights /\ Right(y) \in SUBSET S /\ Right(x) \in SUBSET S
      BY <2>1
    <2> HIDE DEF Right, Rights
    <2>6. <<Right(y), Right(x)>> \in StrictSubsetOrdering(S)
      BY <2>2, <2>4, <2>5 DEF StrictSubsetOrdering
    <2> QED
      BY <1>3, <1>4, <2>5, <2>6
  <1>6. \A y \in S : <<y, x>> \in R
    BY <1>5
  <1> QED
    BY <1>6

LEMMA FinalExists ==
    ASSUME NEW A, IsFiniteSet(A), NEW L \in SUBSET (A \X A), IsList(L), Elements(L) # {}
    PROVE  Final(L) \in Elements(L)
  <1>1. IsFiniteSet(Elements(L))
    BY ListFacts, FS_Subset
  <1>2. \E x \in Elements(L) : \A y \in Elements(L) : <<y, x>> \in L
    <2>1. \A x, y \in Elements(L) : <<x, y>> \in L \/ <<y, x>> \in L
      BY DEF IsList
    <2>2. \A x, y \in Elements(L) : <<x, y>> \in L /\ <<y, x>> \in L => x = y
      BY DEF IsList
    <2>3. \A x, y, z \in Elements(L) : <<x, y>> \in L /\ <<y, z>> \in L => <<x, z>> \in L
      BY DEF IsList
    <2> QED
      BY <1>1, <2>1, <2>2, <2>3, Greatest
  <1> QED
    BY <1>2 DEF Final

LEMMA FirstExists ==
    ASSUME NEW A, IsFiniteSet(A), NEW L \in SUBSET (A \X A), IsList(L), Elements(L) # {}
    PROVE  First(L) \in Elements(L)
  <1> DEFINE R == {<<p[2], p[1]>> : p \in L}
  <1>1. IsFiniteSet(Elements(L))
    BY ListFacts, FS_Subset
  <1>2. \A x, y : <<x, y>> \in R <=> <<y, x>> \in L
    OBVIOUS
  <1>3. \E x \in Elements(L) : \A y \in Elements(L) : <<y, x>> \in R
    <2> HIDE DEF R
    <2>1. \A x, y \in Elements(L) : <<x, y>> \in R \/ <<y, x>> \in R
      BY <1>2 DEF IsList
    <2>2. \A x, y \in Elements(L) : <<x, y>> \in R /\ <<y, x>> \in R => x = y
      BY <1>2 DEF IsList
    <2>3. \A x, y, z \in Elements(L) : <<x, y>> \in R /\ <<y, z>> \in R => <<x, z>> \in R
      BY <1>2 DEF IsList
    <2> QED
      BY <1>1, <2>1, <2>2, <2>3, Greatest
  <1> QED
    BY <1>2, <1>3 DEF First
-----------------------------------------------------------------------------
(* Type correctness, and the tab that is shown *)

Inv == TypeOK /\ ShownIsOpen

LEMMA InitInv == Init => Inv
  <1> SUFFICES ASSUME Init PROVE Inv
    OBVIOUS
  <1>1. IsList(tabList) /\ tabList \in SUBSET (Urls \X Urls)
    BY DEF Init, IsList, Elements
  <1>2. \A w \in Windows : IsList(tabs[w]) /\ Elements(tabs[w]) = {Home} /\ shown[w] = Home
    BY HomeList DEF Init
  <1>3. tabs \in [Windows -> SUBSET (Tabs \X Tabs)]
    BY HomeList DEF Init
  <1>4. TypeOK
    BY <1>1, <1>2, <1>3 DEF Init, TypeOK, Tabs
  <1> QED
    BY <1>2, <1>4, NothingIsNoTab DEF Inv, ShownIsOpen

LEMMA FiniteTabs == IsFiniteSet(Tabs)
  BY UrlsAreFinite, FS_AddElement DEF Tabs

\* A list that a window gets, with what it shows: one of its tabs, or none if
\* the window has overflowed.
GoodPage(L, x, hasOverflowed) ==
    /\ L \in SUBSET (Tabs \X Tabs)
    /\ IsList(L)
    /\ Home \in Elements(L)
    /\ x \in Elements(L) \/ (x = Nothing /\ hasOverflowed)

LEMMA GoodShown ==
    ASSUME NEW L, NEW x, NEW b, GoodPage(L, x, b)
    PROVE  x \in Tabs \cup {Nothing}
  BY ListFacts DEF GoodPage

LEMMA PagesAreGood ==
    Inv => \A w \in Windows : GoodPage(tabs[w], shown[w], w \in overflowed)
  BY DEF Inv, TypeOK, ShownIsOpen, GoodPage

\* The parts of the state are all that an action has to establish.
LEMMA PageStep ==
    ASSUME Inv, NEW w \in Windows, NEW L, NEW x, GoodPage(L, x, w \in overflowed'),
           tabs' = [tabs EXCEPT ![w] = L],
           shown' = [shown EXCEPT ![w] = x],
           alive' \in SUBSET Windows, overflowed' \in SUBSET alive', bar' \in SUBSET overflowed',
           overflowed \ {w} \subseteq overflowed',
           target' \in [Windows -> Urls \cup {Nothing}],
           over' \in [Windows -> Tabs \cup {Nothing}],
           tabList' \in SUBSET (Urls \X Urls), IsList(tabList'),
           others' \in [Windows -> SUBSET Urls]
    PROVE  Inv'
  <1>1. x \in Tabs \cup {Nothing}
    BY GoodShown
  <1>2. ASSUME NEW v \in Windows
        PROVE  /\ tabs'[v] \in SUBSET (Tabs \X Tabs)
               /\ IsList(tabs'[v])
               /\ Home \in Elements(tabs'[v])
               /\ shown'[v] \in Elements(tabs'[v]) \/ (shown'[v] = Nothing /\ v \in overflowed')
    <2>1. CASE v = w
      BY <2>1 DEF Inv, TypeOK, GoodPage
    <2>2. CASE v # w
      <3>1. tabs'[v] = tabs[v] /\ shown'[v] = shown[v] /\ (v \in overflowed => v \in overflowed')
        BY <2>2 DEF Inv, TypeOK
      <3> QED
        BY <3>1, PagesAreGood DEF GoodPage
    <2> QED
      BY <2>1, <2>2
  <1>3. tabs' \in [Windows -> SUBSET (Tabs \X Tabs)] /\ shown' \in [Windows -> Tabs \cup {Nothing}]
    BY <1>1 DEF Inv, TypeOK, GoodPage
  <1>4. \A v \in Windows : Elements(tabs'[v]) \subseteq Tabs
    BY <1>2, ListFacts
  <1>5. TypeOK'
    BY <1>2, <1>3 DEF TypeOK, Inv
  <1>6. ShownIsOpen'
    BY <1>2, <1>4, NothingIsNoTab DEF ShownIsOpen, Tabs
  <1> QED
    BY <1>5, <1>6 DEF Inv

\* What layui's measure of a window makes of the overflow.
LEMMA TabAutoType ==
    ASSUME Inv, NEW w \in Windows, NEW O, O \in SUBSET alive', overflowed \ {w} \subseteq O,
           w \in alive', TabAuto(w, O)
    PROVE  /\ overflowed' \in SUBSET alive' /\ bar' \in SUBSET overflowed'
           /\ O \subseteq overflowed'
  BY DEF Inv, TypeOK, TabAuto

LEMMA LoadInv ==
    ASSUME Inv, NEW w \in Windows, Load(w)
    PROVE  Inv'
  <1>1. GoodPage(Loaded, Final(Loaded), w \in overflowed')
    BY LoadedList, FiniteTabs, FinalExists DEF Inv, TypeOK, GoodPage
  <1>2. /\ overflowed' \in SUBSET alive' /\ bar' \in SUBSET overflowed'
        /\ overflowed \ {w} \subseteq overflowed'
    <2> DEFINE O == overflowed \ {w}
    <2>1. w \in alive' /\ O \in SUBSET alive' /\ overflowed \ {w} \subseteq O /\ TabAuto(w, O)
      BY DEF Load, Inv, TypeOK
    <2> QED
      BY <2>1, TabAutoType
  <1> QED
    BY <1>1, <1>2, PageStep DEF Inv, TypeOK, Load

LEMMA LeaveInv ==
    ASSUME Inv, NEW w \in Windows, Leave(w)
    PROVE  Inv'
  <1>1. GoodPage(OnlyHome, Home, w \in overflowed')
    BY HomeList DEF GoodPage
  <1>2. /\ overflowed' \in SUBSET alive' /\ bar' \in SUBSET overflowed'
        /\ overflowed \ {w} \subseteq overflowed'
    BY DEF Leave, Inv, TypeOK
  <1> QED
    BY <1>1, <1>2, PageStep DEF Inv, TypeOK, Leave

LEMMA TellType ==
    ASSUME Inv, NEW w \in Windows, NEW S \in SUBSET Urls, Tell(w, S)
    PROVE  others' \in [Windows -> SUBSET Urls]
  BY DEF Inv, TypeOK, Tell

LEMMA ShowInv ==
    ASSUME Inv, NEW w \in Windows, NEW t \in Elements(tabs[w]),
           shown' = [shown EXCEPT ![w] = t],
           over' \in [Windows -> Tabs \cup {Nothing}],
           UNCHANGED <<alive, tabs, overflow, target, tabList, others>>
    PROVE  Inv'
  <1>1. GoodPage(tabs[w], t, w \in overflowed')
    BY PagesAreGood DEF GoodPage
  <1>2. tabs' = [tabs EXCEPT ![w] = tabs[w]]
    BY DEF Inv, TypeOK
  <1> QED
    BY <1>1, <1>2, PageStep DEF Inv, TypeOK, overflow

LEMMA SetDataType ==
    ASSUME Inv, NEW u \in Urls, SetData(u)
    PROVE  tabList' \in SUBSET (Urls \X Urls) /\ IsList(tabList')
  <1>1. CASE u \in Elements(tabList)
    BY <1>1 DEF Inv, TypeOK, SetData
  <1>2. CASE u \notin Elements(tabList)
    BY <1>2, AppendedList DEF Inv, TypeOK, SetData
  <1> QED
    BY <1>1, <1>2

LEMMA AddTabInv ==
    ASSUME Inv, NEW w \in Windows, NEW u \in Urls, AddTab(w, u)
    PROVE  Inv'
  <1>1. /\ GoodPage(tabs[w], shown[w], w \in overflowed)
        /\ u \in Tabs /\ u \notin Elements(tabs[w])
    BY PagesAreGood DEF AddTab, Tabs
  <1>2. GoodPage(Appended(tabs[w], u), u, w \in overflowed')
    BY <1>1, AppendedList DEF GoodPage
  <1>3. tabList' \in SUBSET (Urls \X Urls) /\ IsList(tabList')
    BY SetDataType DEF AddTab
  <1>4. others' \in [Windows -> SUBSET Urls]
    BY TellType DEF AddTab
  <1>5. /\ overflowed' \in SUBSET alive' /\ bar' \in SUBSET overflowed'
        /\ overflowed \ {w} \subseteq overflowed'
    <2>1. /\ w \in alive' /\ overflowed \in SUBSET alive' /\ overflowed \ {w} \subseteq overflowed
          /\ TabAuto(w, overflowed)
      BY DEF AddTab, Inv, TypeOK
    <2> QED
      BY <2>1, TabAutoType
  <1> QED
    BY <1>2, <1>3, <1>4, <1>5, PageStep DEF Inv, TypeOK, AddTab, contextMenu

\* Whatever closes except home leaves a tab to show, where nothing overflows.
LEMMA NeighbourStays ==
    ASSUME NEW L, NEW x, NEW b, NEW isOver, isOver => b,
           GoodPage(L, x, b), NEW S \in SUBSET Urls
    PROVE  GoodPage(Keep(L, Tabs \ S), Neighbour(L, x, S, isOver), b)
  <1> DEFINE K == Keep(L, Tabs \ S)
             right == Keep(L, RightOf(L, x) \ S)
  <1>1. L \in SUBSET (Tabs \X Tabs) /\ IsList(L) /\ Home \in Elements(L)
    BY DEF GoodPage
  <1>2. /\ K \in SUBSET (Tabs \X Tabs) /\ IsList(K)
        /\ Elements(K) = Elements(L) \cap (Tabs \ S)
    BY <1>1, KeepList
  <1>3. /\ right \in SUBSET (Tabs \X Tabs) /\ IsList(right)
        /\ Elements(right) = Elements(L) \cap (RightOf(L, x) \ S)
    <2> DEFINE R == RightOf(L, x) \ S
    <2>1. right = Keep(L, R)
      OBVIOUS
    <2> HIDE DEF R
    <2>2. /\ Keep(L, R) \in SUBSET (Tabs \X Tabs) /\ IsList(Keep(L, R))
          /\ Elements(Keep(L, R)) = Elements(L) \cap R
      BY <1>1, KeepList
    <2> QED
      BY <2>1, <2>2 DEF R
  <1>4. Elements(L) \subseteq Tabs
    BY <1>1, ListFacts
  <1>5. Home \in Elements(K)
    BY <1>1, <1>2, HomeIsNoUrl DEF Tabs
  <1>6. Elements(right) \subseteq Elements(K)
    BY <1>2, <1>3, <1>4
  <1>7. CASE x \notin S
    <2>1. x \in Elements(K) \/ (x = Nothing /\ b)
      BY <1>2, <1>4, <1>7 DEF GoodPage
    <2>2. Neighbour(L, x, S, isOver) = x
      BY <1>7 DEF Neighbour
    <2> QED
      BY <1>2, <1>5, <2>1, <2>2 DEF GoodPage
  <1>8. CASE x \in S /\ right # {}
    <2>1. Elements(right) # {}
      BY <1>8 DEF Elements
    <2>2. First(right) \in Elements(right)
      BY <1>3, <2>1, FiniteTabs, FirstExists
    <2> QED
      BY <1>2, <1>5, <1>6, <1>8, <2>2 DEF Neighbour, GoodPage
  <1>9. CASE x \in S /\ right = {} /\ isOver
    BY <1>2, <1>5, <1>9 DEF Neighbour, GoodPage
  <1>10. CASE x \in S /\ right = {} /\ ~isOver
    <2>1. Final(K) \in Elements(K)
      BY <1>2, <1>5, FiniteTabs, FinalExists
    <2> QED
      BY <1>2, <1>5, <1>10, <2>1 DEF Neighbour, GoodPage
  <1> QED
    BY <1>7, <1>8, <1>9, <1>10

LEMMA CloseInv ==
    ASSUME Inv, NEW w \in Windows, NEW S, S \cap Elements(tabs[w]) \subseteq Urls, Close(w, S)
    PROVE  Inv'
  <1> DEFINE gone == S \cap Elements(tabs[w])
  <1>1. GoodPage(Keep(tabs[w], Tabs \ gone), Neighbour(tabs[w], shown[w], gone, w \in bar),
                 w \in overflowed')
    <2>1. w \in bar => w \in overflowed
      BY DEF Inv, TypeOK
    <2>2. overflowed' = overflowed
      BY DEF Close, overflow
    <2>3. gone \in SUBSET Urls /\ GoodPage(tabs[w], shown[w], w \in overflowed)
      BY PagesAreGood
    <2> HIDE DEF gone
    <2>4. GoodPage(Keep(tabs[w], Tabs \ gone), Neighbour(tabs[w], shown[w], gone, w \in bar),
                   w \in overflowed)
      BY <2>1, <2>3, NeighbourStays, Zenon
    <2> QED
      BY <2>2, <2>4
  <1>2. tabList' = Keep(tabList, Urls \ gone)
    BY DEF Close
  <1>3. tabList' \in SUBSET (Urls \X Urls) /\ IsList(tabList')
    <2>1. tabList \in SUBSET (Urls \X Urls) /\ IsList(tabList)
      BY DEF Inv, TypeOK
    <2> HIDE DEF gone
    <2> QED
      BY <1>2, <2>1, KeepList
  <1>4. others' \in [Windows -> SUBSET Urls]
    BY TellType DEF Close
  <1>5. over' \in [Windows -> Tabs \cup {Nothing}] /\ target' \in [Windows -> Urls \cup {Nothing}]
    BY DEF Inv, TypeOK, Close, Hide
  <1>6. /\ tabs' = [tabs EXCEPT ![w] = Keep(tabs[w], Tabs \ gone)]
        /\ shown' = [shown EXCEPT ![w] = Neighbour(tabs[w], shown[w], gone, w \in bar)]
        /\ alive' \in SUBSET Windows /\ overflowed' \in SUBSET alive' /\ bar' \in SUBSET overflowed'
        /\ overflowed \ {w} \subseteq overflowed'
    BY DEF Inv, TypeOK, Close, overflow
  <1> HIDE DEF gone
  <1> QED
    BY <1>1, <1>3, <1>4, <1>5, <1>6, PageStep

\* The id on the context menu is never that of the home tab.
LEMMA MenuSpares ==
    ASSUME Inv, NEW w \in Windows, NEW S, S = {target[w]} \/ S \in SUBSET Urls
    PROVE  S \cap Elements(tabs[w]) \subseteq Urls
  <1>1. Elements(tabs[w]) \subseteq Tabs
    BY ListFacts DEF Inv, TypeOK
  <1>2. target[w] \in Urls \cup {Nothing}
    BY DEF Inv, TypeOK
  <1> QED
    BY <1>1, <1>2, NothingIsNoTab DEF Tabs

LEMMA NextInv == Inv /\ [Next]_vars => Inv'
  <1> SUFFICES ASSUME Inv, [Next]_vars PROVE Inv'
    OBVIOUS
  <1>1. ASSUME NEW w \in Windows, NEW u \in Urls, ShowAgain(w, u) PROVE Inv'
    BY <1>1, ShowInv DEF ShowAgain, contextMenu, Inv, TypeOK
  <1>2. ASSUME NEW w \in Windows, NEW u \in Urls, CloseIcon(w, u) PROVE Inv'
    BY <1>2, CloseInv DEF CloseIcon
  <1>3. ASSUME NEW w \in Windows, NEW t \in Tabs, ClickTab(w, t) PROVE Inv'
    BY <1>3, ShowInv DEF ClickTab, Hide, Inv, TypeOK
  <1>4. ASSUME NEW w \in Windows, NEW t \in Tabs, RightClick(w, t) PROVE Inv'
    <2>1. target' \in [Windows -> Urls \cup {Nothing}] /\ over' \in [Windows -> Tabs \cup {Nothing}]
      BY <1>4 DEF RightClick, Inv, TypeOK, Tabs
    <2> QED
      BY <1>4, <2>1 DEF RightClick, Inv, TypeOK, ShownIsOpen, overflow
  <1>5. ASSUME NEW w \in Windows, CloseThis(w) PROVE Inv'
    BY <1>5, MenuSpares, CloseInv DEF CloseThis
  <1>6. ASSUME NEW w \in Windows, CloseOther(w) PROVE Inv'
    BY <1>6, CloseInv DEF CloseOther
  <1>7. ASSUME NEW w \in Windows, CloseAll(w) PROVE Inv'
    BY <1>7, CloseInv DEF CloseAll
  <1>8. ASSUME NEW w \in Windows, ClickAway(w) PROVE Inv'
    BY <1>8 DEF ClickAway, Hide, Inv, TypeOK, ShownIsOpen, overflow
  <1>9. CASE UNCHANGED vars
    BY <1>9 DEF vars, contextMenu, overflow, Inv, TypeOK, ShownIsOpen
  <1>10. ASSUME NEW w \in Windows, Measure(w) PROVE Inv'
    <2>1. /\ overflowed' \in SUBSET alive' /\ bar' \in SUBSET overflowed'
          /\ overflowed \subseteq overflowed'
      BY <1>10 DEF Measure, TabAuto, Inv, TypeOK
    <2> QED
      BY <1>10, <2>1 DEF Measure, contextMenu, Inv, TypeOK, ShownIsOpen
  <1> QED
    BY <1>1, <1>2, <1>3, <1>4, <1>5, <1>6, <1>7, <1>8, <1>9, <1>10, LoadInv, LeaveInv, AddTabInv
       DEF Next

\* In every window the tabs are a list, in tab_list too, the home tab stays
\* and the tab that is shown is one of them, after every sequence of clicks
\* in any number of windows; where no tab is shown, the tabs of the window
\* have overflowed since it was loaded.
THEOREM TabsStayGood == Spec => [](TypeOK /\ ShownIsOpen)
  <1>1. Init => Inv
    BY InitInv
  <1>2. Inv /\ [Next]_vars => Inv'
    BY NextInv
  <1>3. Spec => []Inv
    BY <1>1, <1>2, PTL DEF Spec
  <1>4. Inv => TypeOK /\ ShownIsOpen
    BY DEF Inv
  <1> QED
    BY <1>3, <1>4, PTL

-----------------------------------------------------------------------------
(* The memory of the tabs, and what a reload makes of it *)

\* Two lists that agree on every pair of a set keep the same part in it.
Agree(L, M, S) == \A a, b \in S : <<a, b>> \in L <=> <<a, b>> \in M

LEMMA KeepAgree ==
    ASSUME NEW L \in SUBSET (Tabs \X Tabs), NEW M \in SUBSET (Tabs \X Tabs), NEW S
    PROVE  Keep(L, S) = Keep(M, S) <=> Agree(L, M, S)
  <1>1. \A a, b : <<a, b>> \in Keep(L, S) <=> <<a, b>> \in L /\ a \in S /\ b \in S
    BY DEF Keep
  <1>2. \A a, b : <<a, b>> \in Keep(M, S) <=> <<a, b>> \in M /\ a \in S /\ b \in S
    BY DEF Keep
  <1>3. Keep(L, S) \in SUBSET (Tabs \X Tabs) /\ Keep(M, S) \in SUBSET (Tabs \X Tabs)
    BY DEF Keep
  <1>4. ASSUME Keep(L, S) = Keep(M, S) PROVE Agree(L, M, S)
    BY <1>1, <1>2, <1>4 DEF Agree
  <1>5. ASSUME Agree(L, M, S) PROVE Keep(L, S) = Keep(M, S)
    <2>1. \A a, b : <<a, b>> \in Keep(L, S) <=> <<a, b>> \in Keep(M, S)
      BY <1>1, <1>2, <1>5 DEF Agree
    <2> QED
      BY <1>3, <2>1
  <1> QED
    BY <1>4, <1>5

\* What is home comes first; what is not is in tab_list, unless another
\* window touched it.
HomeFirst == \A w \in Windows : \A t \in Elements(tabs[w]) : <<Home, t>> \in tabs[w]
MemoryAgrees == \A w \in alive : Agree(tabs[w], tabList, Urls \ others[w])

MemInv == Inv /\ HomeFirst /\ MemoryAgrees

LEMMA MemoryIs == Inv => (MemoryIsTabs <=> MemoryAgrees)
  <1> SUFFICES ASSUME Inv PROVE MemoryIsTabs <=> MemoryAgrees
    OBVIOUS
  <1>1. ASSUME NEW w \in alive
        PROVE  Keep(tabs[w], Urls \ others[w]) = Keep(tabList, Urls \ others[w])
                   <=> Agree(tabs[w], tabList, Urls \ others[w])
    <2>1. tabs[w] \in SUBSET (Tabs \X Tabs) /\ tabList \in SUBSET (Tabs \X Tabs)
      BY DEF Inv, TypeOK, Tabs
    <2> QED
      BY <2>1, KeepAgree
  <1> QED
    BY <1>1 DEF MemoryIsTabs, MemoryAgrees

LEMMA StillMem ==
    ASSUME MemInv, UNCHANGED <<alive, tabs, tabList, others>>
    PROVE  HomeFirst' /\ MemoryAgrees'
  BY DEF MemInv, HomeFirst, MemoryAgrees

LEMMA LoadMem ==
    ASSUME MemInv, NEW w \in Windows, Load(w)
    PROVE  HomeFirst' /\ MemoryAgrees'
  <1>1. /\ Elements(Loaded) = Elements(tabList) \cup {Home}
        /\ \A a, b : <<a, b>> \in Loaded <=>
                         \/ a = Home /\ b \in Elements(tabList) \cup {Home}
                         \/ <<a, b>> \in tabList
    BY LoadedList DEF MemInv, Inv, TypeOK
  <1>2. tabs' = [tabs EXCEPT ![w] = Loaded] /\ tabs \in [Windows -> SUBSET (Tabs \X Tabs)]
    BY DEF Load, MemInv, Inv, TypeOK
  <1>3. HomeFirst'
    BY <1>1, <1>2 DEF MemInv, HomeFirst
  <1>4. Agree(Loaded, tabList, Urls)
    BY <1>1, HomeIsNoUrl DEF Agree
  <1>5. ASSUME NEW v \in alive' PROVE Agree(tabs'[v], tabList', (Urls \ others[v])')
    <2>1. tabList' = tabList /\ v \in Windows
      BY DEF Load, MemInv, Inv, TypeOK
    <2>2. CASE v = w
      BY <1>2, <1>4, <2>1, <2>2 DEF Agree
    <2>3. CASE v # w
      <3>1. v \in alive /\ others'[v] = others[v] /\ tabs'[v] = tabs[v]
        BY <1>2, <2>1, <2>3 DEF Load, MemInv, Inv, TypeOK
      <3> QED
        BY <2>1, <3>1 DEF MemInv, MemoryAgrees
    <2> QED
      BY <2>2, <2>3
  <1> QED
    BY <1>3, <1>5 DEF MemoryAgrees

LEMMA LeaveMem ==
    ASSUME MemInv, NEW w \in Windows, Leave(w)
    PROVE  HomeFirst' /\ MemoryAgrees'
  <1>1. tabs' = [tabs EXCEPT ![w] = OnlyHome] /\ tabs \in [Windows -> SUBSET (Tabs \X Tabs)]
    BY DEF Leave, MemInv, Inv, TypeOK
  <1>2. HomeFirst'
    BY <1>1, HomeList DEF MemInv, HomeFirst
  <1>3. \A v \in alive' : v \in alive /\ tabs'[v] = tabs[v] /\ others'[v] = others[v]
    BY <1>1 DEF Leave, MemInv, Inv, TypeOK
  <1>4. tabList' = tabList
    BY DEF Leave
  <1> QED
    BY <1>2, <1>3, <1>4 DEF MemInv, MemoryAgrees

LEMMA AddTabMem ==
    ASSUME MemInv, NEW w \in Windows, NEW u \in Urls, AddTab(w, u)
    PROVE  HomeFirst' /\ MemoryAgrees'
  <1> DEFINE new == Appended(tabs[w], u)
  <1>1. /\ tabs[w] \in SUBSET (Tabs \X Tabs) /\ IsList(tabs[w])
        /\ u \in Tabs /\ u \notin Elements(tabs[w]) /\ Home \in Elements(tabs[w])
    BY DEF AddTab, MemInv, Inv, TypeOK, ShownIsOpen, Tabs
  <1>2. /\ Elements(new) = Elements(tabs[w]) \cup {u}
        /\ \A a, b : <<a, b>> \in new <=>
                         <<a, b>> \in tabs[w] \/ (b = u /\ a \in Elements(tabs[w]) \cup {u})
    BY <1>1, AppendedList
  <1>3. \A a : a \in Elements(tabs[w]) <=> <<a, a>> \in tabs[w]
    BY <1>1, ListFacts
  <1>4. tabs' = [tabs EXCEPT ![w] = new] /\ tabs \in [Windows -> SUBSET (Tabs \X Tabs)]
    BY DEF AddTab, MemInv, Inv, TypeOK
  <1> HIDE DEF new
  <1>5. HomeFirst'
    <2>1. \A t \in Elements(new) : <<Home, t>> \in new
      BY <1>1, <1>2 DEF MemInv, HomeFirst
    <2> QED
      BY <1>4, <2>1 DEF MemInv, HomeFirst
  <1>6. tabList \in SUBSET (Urls \X Urls) /\ IsList(tabList)
    BY DEF MemInv, Inv, TypeOK
  <1>7. \A a : a \in Elements(tabList) <=> <<a, a>> \in tabList
    BY <1>6, ListFacts
  <1>8. CASE u \in Elements(tabList)
    <2>1. tabList' = tabList
      BY <1>8 DEF AddTab, SetData
    <2>2. ASSUME NEW v \in alive' PROVE Agree(tabs'[v], tabList', (Urls \ others[v])')
      <3>1. v \in alive /\ v \in Windows
        BY DEF AddTab, MemInv, Inv, TypeOK
      <3>2. Agree(tabs[v], tabList, Urls \ others[v])
        BY <3>1 DEF MemInv, MemoryAgrees
      <3>3. CASE v = w
        <4>1. others'[v] = others[v]
          BY <3>1, <3>3 DEF AddTab, Tell
        <4>2. u \in others[w]
          BY <1>1, <1>3, <1>7, <1>8, <3>2, <3>3 DEF Agree
        <4>3. tabs'[v] = new
          BY <1>4, <3>1, <3>3
        <4> QED
          BY <1>2, <2>1, <3>2, <3>3, <4>1, <4>2, <4>3 DEF Agree
      <3>4. CASE v # w
        <4>1. others'[v] = others[v] \cup {u} /\ tabs'[v] = tabs[v]
          BY <1>4, <3>1, <3>4 DEF AddTab, Tell
        <4> QED
          BY <2>1, <3>2, <4>1 DEF Agree
      <3> QED
        BY <3>3, <3>4
    <2> QED
      BY <1>5, <2>2 DEF MemoryAgrees
  <1>9. CASE u \notin Elements(tabList)
    <2>1. \A a, b : <<a, b>> \in tabList' <=>
                        <<a, b>> \in tabList \/ (b = u /\ a \in Elements(tabList) \cup {u})
      BY <1>6, <1>9, AppendedList DEF AddTab, SetData
    <2>2. ASSUME NEW v \in alive' PROVE Agree(tabs'[v], tabList', (Urls \ others[v])')
      <3>1. v \in alive /\ v \in Windows
        BY DEF AddTab, MemInv, Inv, TypeOK
      <3>2. Agree(tabs[v], tabList, Urls \ others[v])
        BY <3>1 DEF MemInv, MemoryAgrees
      <3>3. CASE v = w
        <4>1. others'[v] = others[v]
          BY <3>1, <3>3 DEF AddTab, Tell
        <4>2. \A a \in Urls \ others[v] : a \in Elements(tabs[w]) <=> a \in Elements(tabList)
          BY <1>3, <1>7, <3>2, <3>3 DEF Agree
        <4>3. tabs'[v] = new
          BY <1>4, <3>1, <3>3
        <4> QED
          BY <1>2, <2>1, <3>2, <3>3, <4>1, <4>2, <4>3 DEF Agree
      <3>4. CASE v # w
        <4>1. others'[v] = others[v] \cup {u} /\ tabs'[v] = tabs[v]
          BY <1>4, <3>1, <3>4 DEF AddTab, Tell
        <4> QED
          BY <2>1, <3>2, <4>1 DEF Agree
      <3> QED
        BY <3>3, <3>4
    <2> QED
      BY <1>5, <2>2 DEF MemoryAgrees
  <1> QED
    BY <1>8, <1>9

LEMMA CloseMem ==
    ASSUME MemInv, NEW w \in Windows, NEW S, S \cap Elements(tabs[w]) \subseteq Urls, Close(w, S)
    PROVE  HomeFirst' /\ MemoryAgrees'
  <1> DEFINE gone == S \cap Elements(tabs[w])
             kept == Keep(tabs[w], Tabs \ gone)
  <1>1. /\ tabs[w] \in SUBSET (Tabs \X Tabs) /\ IsList(tabs[w])
        /\ tabList \in SUBSET (Urls \X Urls)
        /\ Home \in Elements(tabs[w])
    BY DEF MemInv, Inv, TypeOK, ShownIsOpen
  <1>2. /\ tabs' = [tabs EXCEPT ![w] = kept] /\ tabs \in [Windows -> SUBSET (Tabs \X Tabs)]
        /\ tabList' = Keep(tabList, Urls \ gone)
        /\ Tell(w, gone) /\ alive' = alive /\ alive \subseteq Windows
    BY DEF Close, MemInv, Inv, TypeOK
  <1>3. gone \subseteq Urls
    OBVIOUS
  <1> HIDE DEF gone
  <1>4. /\ Elements(kept) = Elements(tabs[w]) \cap (Tabs \ gone)
        /\ \A a, b : <<a, b>> \in kept <=>
                         <<a, b>> \in tabs[w] /\ a \in Tabs \ gone /\ b \in Tabs \ gone
    <2> DEFINE R == Tabs \ gone
    <2> HIDE DEF R
    <2>1. /\ Elements(Keep(tabs[w], R)) = Elements(tabs[w]) \cap R
          /\ \A a, b : <<a, b>> \in Keep(tabs[w], R) <=>
                           <<a, b>> \in tabs[w] /\ a \in R /\ b \in R
      BY <1>1, KeepList
    <2> QED
      BY <2>1 DEF R
  <1>5. \A a, b : <<a, b>> \in tabList' <=>
                      <<a, b>> \in tabList /\ a \in Urls \ gone /\ b \in Urls \ gone
    BY <1>2 DEF Keep
  <1> HIDE DEF kept
  <1>6. HomeFirst'
    <2>1. \A t \in Elements(kept) : <<Home, t>> \in kept
      BY <1>3, <1>4, HomeIsNoUrl DEF MemInv, HomeFirst, Tabs
    <2> QED
      BY <1>2, <2>1 DEF MemInv, HomeFirst
  <1>7. ASSUME NEW v \in alive' PROVE Agree(tabs'[v], tabList', (Urls \ others[v])')
    <2>1. v \in alive /\ v \in Windows
      BY <1>2
    <2>2. Agree(tabs[v], tabList, Urls \ others[v])
      BY <2>1 DEF MemInv, MemoryAgrees
    <2>3. CASE v = w
      <3>1. others'[v] = others[v] /\ tabs'[v] = kept
        BY <1>2, <2>1, <2>3 DEF Tell
      <3> QED
        BY <1>4, <1>5, <2>2, <2>3, <3>1 DEF Agree, Tabs
    <2>4. CASE v # w
      <3>1. others'[v] = others[v] \cup gone /\ tabs'[v] = tabs[v]
        BY <1>2, <2>1, <2>4 DEF Tell
      <3> QED
        BY <1>5, <2>2, <3>1 DEF Agree
    <2> QED
      BY <2>3, <2>4
  <1> QED
    BY <1>6, <1>7 DEF MemoryAgrees

LEMMA NextMem == MemInv /\ [Next]_vars => MemInv'
  <1> SUFFICES ASSUME MemInv, [Next]_vars PROVE HomeFirst' /\ MemoryAgrees'
    BY NextInv DEF MemInv
  <1>1. ASSUME NEW w \in Windows, NEW u \in Urls, ShowAgain(w, u) PROVE HomeFirst' /\ MemoryAgrees'
    BY <1>1, StillMem DEF ShowAgain
  <1>2. ASSUME NEW w \in Windows, NEW u \in Urls, CloseIcon(w, u) PROVE HomeFirst' /\ MemoryAgrees'
    BY <1>2, CloseMem DEF CloseIcon
  <1>3. ASSUME NEW w \in Windows, NEW t \in Tabs, ClickTab(w, t) PROVE HomeFirst' /\ MemoryAgrees'
    BY <1>3, StillMem DEF ClickTab
  <1>4. ASSUME NEW w \in Windows, NEW t \in Tabs, RightClick(w, t) PROVE HomeFirst' /\ MemoryAgrees'
    BY <1>4, StillMem DEF RightClick
  <1>5. ASSUME NEW w \in Windows, CloseThis(w) PROVE HomeFirst' /\ MemoryAgrees'
    BY <1>5, MenuSpares, CloseMem DEF CloseThis, MemInv
  <1>6. ASSUME NEW w \in Windows, CloseOther(w) PROVE HomeFirst' /\ MemoryAgrees'
    BY <1>6, CloseMem DEF CloseOther
  <1>7. ASSUME NEW w \in Windows, CloseAll(w) PROVE HomeFirst' /\ MemoryAgrees'
    BY <1>7, CloseMem DEF CloseAll
  <1>8. ASSUME NEW w \in Windows, ClickAway(w) PROVE HomeFirst' /\ MemoryAgrees'
    BY <1>8, StillMem DEF ClickAway
  <1>9. CASE UNCHANGED vars
    BY <1>9, StillMem DEF vars
  <1>10. ASSUME NEW w \in Windows, Measure(w) PROVE HomeFirst' /\ MemoryAgrees'
    BY <1>10, StillMem DEF Measure
  <1> QED
    BY <1>1, <1>2, <1>3, <1>4, <1>5, <1>6, <1>7, <1>8, <1>9, <1>10, LoadMem, LeaveMem, AddTabMem
       DEF Next

LEMMA SpecMem == Spec => []MemInv
  <1>1. Init => MemInv
    <2> SUFFICES ASSUME Init PROVE HomeFirst /\ MemoryAgrees
      BY InitInv DEF MemInv
    <2> QED
      BY HomeList DEF Init, HomeFirst, MemoryAgrees
  <1> QED
    BY <1>1, NextMem, PTL DEF Spec

\* tab_list holds the tabs of every window, in their order, except those
\* that other windows have opened or closed since it was loaded.
THEOREM MemoryStaysTabs == Spec => []MemoryIsTabs
  <1>1. MemInv => MemoryIsTabs
    BY MemoryIs DEF MemInv
  <1> QED
    BY <1>1, SpecMem, PTL

\* Reloading the only window that changed tabs gives it the same tabs, in
\* the same order.
THEOREM ReloadsKeepTabs == Spec => ReloadKeepsTabs
  <1> DEFINE Kept == \A w \in alive : Load(w) /\ others[w] = {} => tabs'[w] = tabs[w]
  <1>1. MemInv => Kept
    <2> SUFFICES ASSUME MemInv, NEW w \in alive, Load(w), others[w] = {}
                 PROVE  tabs'[w] = tabs[w]
      OBVIOUS
    <2>1. /\ w \in Windows /\ tabs'[w] = Loaded
          /\ tabs[w] \in SUBSET (Tabs \X Tabs) /\ IsList(tabs[w]) /\ Home \in Elements(tabs[w])
          /\ tabList \in SUBSET (Urls \X Urls) /\ IsList(tabList)
      BY DEF Load, MemInv, Inv, TypeOK, ShownIsOpen
    <2>2. /\ Loaded \in SUBSET (Tabs \X Tabs)
          /\ \A a, b : <<a, b>> \in Loaded <=>
                           \/ a = Home /\ b \in Elements(tabList) \cup {Home}
                           \/ <<a, b>> \in tabList
      BY <2>1, LoadedList
    <2>3. /\ Ordered(tabs[w])
          /\ \A a : a \in Elements(tabs[w]) <=> <<a, a>> \in tabs[w]
          /\ Elements(tabs[w]) \subseteq Tabs
      BY <2>1, ListFacts
    <2>4. \A a : a \in Elements(tabList) <=> <<a, a>> \in tabList
      BY <2>1, ListFacts
    <2>5. \A a, b \in Urls : <<a, b>> \in tabs[w] <=> <<a, b>> \in tabList
      BY DEF MemInv, MemoryAgrees, Agree
    <2>6. \A t \in Elements(tabs[w]) : <<Home, t>> \in tabs[w]
      BY <2>1 DEF MemInv, HomeFirst
    <2>7. ASSUME NEW a \in Tabs, NEW b \in Tabs
          PROVE  <<a, b>> \in Loaded <=> <<a, b>> \in tabs[w]
      <3>1. CASE a = Home
        <4>1. <<a, b>> \in tabs[w] <=> b \in Elements(tabs[w])
          BY <2>3, <2>6, <3>1 DEF Ordered
        <4>2. b \in Elements(tabs[w]) <=> b \in Elements(tabList) \cup {Home}
          BY <2>1, <2>3, <2>4, <2>5, HomeIsNoUrl DEF Tabs
        <4>3. <<a, b>> \notin tabList
          BY <2>1, <3>1, HomeIsNoUrl
        <4> QED
          BY <2>2, <3>1, <4>1, <4>2, <4>3
      <3>2. CASE a # Home /\ b = Home
        <4>1. <<a, b>> \notin tabList
          BY <2>1, <3>2, HomeIsNoUrl
        <4>2. <<a, b>> \notin tabs[w]
          BY <2>3, <2>6, <3>2 DEF Ordered
        <4> QED
          BY <2>2, <3>2, <4>1, <4>2
      <3>3. CASE a # Home /\ b # Home
        BY <2>2, <2>5, <3>3 DEF Tabs
      <3> QED
        BY <3>1, <3>2, <3>3
    <2>8. \A a, b : <<a, b>> \in Loaded <=> <<a, b>> \in tabs[w]
      BY <2>1, <2>2, <2>7
    <2>9. Loaded = tabs[w]
      <3>1. Loaded \in SUBSET (Tabs \X Tabs) /\ tabs[w] \in SUBSET (Tabs \X Tabs)
        BY <2>1, <2>2
      <3> QED
        BY <2>8, <3>1, SamePairs
    <2> QED
      BY <2>1, <2>9
  <1> HIDE DEF Kept
  <1>2. Spec => [][Kept]_vars
    BY <1>1, SpecMem, PTL
  <1> QED
    BY <1>2 DEF Kept, ReloadKeepsTabs

-----------------------------------------------------------------------------
(* The context menu *)

MenuInv == Inv /\ MenuIsForItsTab

\* A window whose menu is hidden, or whose menu and tabs stay, keeps the menu
\* over its tab; a tab that is added does not matter.
LEMMA StillMenu ==
    ASSUME MenuInv, over' \in [Windows -> Tabs \cup {Nothing}],
           \A v \in Windows :
               \/ over'[v] = Nothing
               \/ /\ over'[v] = over[v]
                  /\ target'[v] = target[v]
                  /\ Elements(tabs[v]) \subseteq Elements(tabs'[v])
    PROVE  MenuIsForItsTab'
  BY DEF MenuInv, MenuIsForItsTab

LEMMA NextMenu == MenuInv /\ [Next]_vars => MenuInv'
  <1> SUFFICES ASSUME MenuInv, [Next]_vars PROVE MenuIsForItsTab'
    BY NextInv DEF MenuInv
  <1> DEFINE Stays(v) == /\ over'[v] = over[v]
                         /\ target'[v] = target[v]
                         /\ Elements(tabs[v]) \subseteq Elements(tabs'[v])
  <1>0. /\ Inv' /\ over \in [Windows -> Tabs \cup {Nothing}]
        /\ over' \in [Windows -> Tabs \cup {Nothing}]
        /\ target \in [Windows -> Urls \cup {Nothing}]
        /\ tabs \in [Windows -> SUBSET (Tabs \X Tabs)]
    BY NextInv DEF MenuInv, Inv, TypeOK
  <1>1. ASSUME NEW w \in Windows, Load(w) \/ Leave(w) \/ ClickAway(w) PROVE MenuIsForItsTab'
    <2>1. \A v \in Windows : over'[v] = Nothing \/ Stays(v)
      BY <1>0, <1>1 DEF Load, Leave, ClickAway, Hide
    <2> QED
      BY <1>0, <2>1, StillMenu
  <1>2. ASSUME NEW w \in Windows, NEW S, Close(w, S) PROVE MenuIsForItsTab'
    <2>1. \A v \in Windows : over'[v] = Nothing \/ Stays(v)
      BY <1>0, <1>2 DEF Close, Hide
    <2> QED
      BY <1>0, <2>1, StillMenu
  <1>3. ASSUME NEW w \in Windows, NEW t \in Tabs, ClickTab(w, t) PROVE MenuIsForItsTab'
    <2>1. \A v \in Windows : over'[v] = Nothing \/ Stays(v)
      BY <1>0, <1>3 DEF ClickTab, Hide
    <2> QED
      BY <1>0, <2>1, StillMenu
  <1>4. ASSUME NEW w \in Windows, NEW u \in Urls, ShowAgain(w, u) PROVE MenuIsForItsTab'
    <2>1. \A v \in Windows : Stays(v)
      BY <1>0, <1>4 DEF ShowAgain, contextMenu
    <2> QED
      BY <1>0, <2>1, StillMenu
  <1>5. ASSUME NEW w \in Windows, NEW u \in Urls, AddTab(w, u) PROVE MenuIsForItsTab'
    <2>1. Elements(tabs[w]) \subseteq Elements(Appended(tabs[w], u))
      BY DEF Appended, Elements
    <2>2. tabs' = [tabs EXCEPT ![w] = Appended(tabs[w], u)] /\ UNCHANGED contextMenu
      BY <1>5 DEF AddTab
    <2>3. \A v \in Windows : Stays(v)
      BY <1>0, <2>1, <2>2 DEF contextMenu
    <2> QED
      BY <1>0, <2>3, StillMenu
  <1>6. ASSUME NEW w \in Windows, NEW t \in Tabs, RightClick(w, t) PROVE MenuIsForItsTab'
    <2>1. /\ t \in Elements(tabs[w]) /\ tabs' = tabs
          /\ over' = [over EXCEPT ![w] = t]
          /\ target' = [target EXCEPT ![w] = IF t = Home THEN target[w] ELSE t]
      BY <1>6 DEF RightClick
    <2>2. ASSUME NEW v \in Windows, over'[v] # Nothing
          PROVE  over'[v] \in Elements(tabs'[v]) /\ (over'[v] # Home => target'[v] = over'[v])
      <3>1. CASE v = w
        BY <1>0, <2>1, <3>1
      <3>2. CASE v # w
        BY <1>0, <2>1, <2>2, <3>2 DEF MenuInv, MenuIsForItsTab
      <3> QED
        BY <3>1, <3>2
    <2> QED
      BY <2>2 DEF MenuIsForItsTab
  <1>7. CASE UNCHANGED vars \/ \E w \in Windows : Measure(w)
    <2>1. \A v \in Windows : Stays(v)
      BY <1>7 DEF vars, Measure, contextMenu
    <2> QED
      BY <1>0, <2>1, StillMenu
  <1> QED
    BY <1>1, <1>2, <1>3, <1>4, <1>5, <1>6, <1>7
       DEF Next, CloseIcon, CloseThis, CloseOther, CloseAll

\* The context menu of a window stands under an open tab and, but for the
\* home tab, closes what it stands under.
THEOREM MenuStaysForItsTab == Spec => []MenuIsForItsTab
  <1>1. Init => MenuInv
    BY InitInv DEF MenuInv, MenuIsForItsTab, Init
  <1>2. MenuInv => MenuIsForItsTab
    BY DEF MenuInv
  <1> QED
    BY <1>1, <1>2, NextMenu, PTL DEF Spec

-----------------------------------------------------------------------------
(* The words of the md5: safeAdd adds 32-bit numbers, what TLC's own        *)
(* integers, of 32 bits with a sign, cannot be asked                        *)

\* The number a word stands for
Value(w) == Half * w[1] + w[2]

LEMMA HalvesAreNat == \A n \in Halves : n \in Nat /\ n <= 65535
  BY SMT DEF Halves, Half

LEMMA DivMod ==
    ASSUME NEW n \in Nat
    PROVE  /\ n \div Half \in Nat /\ n % Half \in Halves
           /\ n = Half * (n \div Half) + (n % Half)
  BY DEF Half, Halves

\* Z3 multiplies by constants only; these two facts are about any modulus.
LEMMA NextMultiple ==
    ASSUME NEW m \in Nat, NEW a \in Int, NEW b \in Int, a + 1 <= b
    PROVE  m * a + m <= m * b
  <1> DEFINE e == b - a
  <1>1. e \in Int /\ e >= 1
    BY SMT
  <1>2. m * b = m * a + m * e
    BY SMT
  <1> HIDE DEF e
  <1>3. m * e >= m
    BY <1>1, SMT
  <1> QED
    BY <1>1, <1>2, <1>3, SMT

LEMMA DivisionIsUnique ==
    ASSUME NEW m \in Nat, m > 0, NEW d \in Nat, NEW r \in Nat, r < m
    PROVE  (m * d + r) % m = r /\ (m * d + r) \div m = d
  <1> DEFINE n == m * d + r
             q == n \div m
             s == n % m
  <1>1. n \in Nat
    BY SMT
  <1>2. q \in Int /\ s \in Int /\ 0 <= s /\ s < m /\ n = m * q + s
    <2> HIDE DEF n
    <2> QED
      BY <1>1, SMT
  <1>3. m * d + r = m * q + s
    BY <1>2
  <1> HIDE DEF q, s, n
  <1>4. ASSUME d + 1 <= q PROVE FALSE
    <2>1. m * d + m <= m * q
      BY <1>2, <1>4, NextMultiple
    <2> QED
      BY <1>2, <1>3, <2>1, SMT
  <1>5. ASSUME q + 1 <= d PROVE FALSE
    <2>1. m * q + m <= m * d
      BY <1>2, <1>5, NextMultiple
    <2> QED
      BY <1>2, <1>3, <2>1, SMT
  <1>6. q = d
    BY <1>2, <1>4, <1>5, SMT
  <1>7. s = r
    BY <1>2, <1>3, <1>6, SMT
  <1> QED
    BY <1>6, <1>7 DEF n, q, s

\* The carries of the two halves, put together.
LEMMA Carried ==
    ASSUME NEW a \in Halves, NEW b \in Halves, NEW p \in Halves, NEW q \in Halves,
           NEW c \in Nat, NEW d \in Nat, NEW l \in Halves, NEW h \in Halves,
           b + q = Half * c + l, a + p + c = Half * d + h
    PROVE  (Half * a + b) + (Half * p + q) = (Half * Half) * d + (Half * h + l)
  <1>1. /\ a \in Int /\ b \in Int /\ p \in Int /\ q \in Int
        /\ c \in Int /\ d \in Int /\ l \in Int /\ h \in Int
    BY HalvesAreNat
  <1> QED
    BY <1>1, SMT DEF Half

LEMMA HalvesMakeWord ==
    ASSUME NEW h \in Halves, NEW l \in Halves
    PROVE  Half * h + l \in Nat /\ Half * h + l < Half * Half
  <1>1. h \in Int /\ 0 <= h /\ h <= 65535 /\ l \in Int /\ 0 <= l /\ l <= 65535
    BY HalvesAreNat, SMT
  <1>2. Half * h + l < Half * Half
    BY <1>1, SMT DEF Half
  <1>3. Half * h + l \in Int /\ Half * h + l >= 0
    BY <1>1, SMT DEF Half
  <1> QED
    BY <1>2, <1>3, SMT

\* "Add integers, wrapping at 2^32" (xadmin.js): the sum of any two words is
\* a word, and it stands for the sum of their numbers modulo 2^32, although
\* only sums of halves are ever formed.
THEOREM SafeAddWraps ==
    ASSUME NEW u \in Words, NEW v \in Words
    PROVE  /\ SafeAdd(u, v) \in Words
           /\ Value(SafeAdd(u, v)) = (Value(u) + Value(v)) % (Half * Half)
  <1>0. u[1] \in Halves /\ u[2] \in Halves /\ v[1] \in Halves /\ v[2] \in Halves
    BY DEF Words
  <1> DEFINE a == u[1]
             b == u[2]
             p == v[1]
             q == v[2]
             lsw == b + q
             c == lsw \div Half
             l == lsw % Half
             msw == a + p + c
             d == msw \div Half
             h == msw % Half
  <1>1. /\ SafeAdd(u, v) = <<h, l>>
        /\ Value(u) = Half * a + b /\ Value(v) = Half * p + q
    BY DEF SafeAdd, Value
  <1>2. a \in Halves /\ b \in Halves /\ p \in Halves /\ q \in Halves
    BY <1>0
  <1> HIDE DEF a, b, p, q
  <1>3. lsw \in Nat
    BY <1>2, HalvesAreNat, SMT
  <1>4. c \in Nat /\ l \in Halves /\ lsw = Half * c + l
    <2> HIDE DEF lsw
    <2> QED
      BY <1>3, DivMod
  <1>5. b + q = Half * c + l
    BY <1>4
  <1> HIDE DEF lsw, c, l
  <1>6. msw \in Nat
    BY <1>2, <1>4, HalvesAreNat, SMT
  <1>7. d \in Nat /\ h \in Halves /\ msw = Half * d + h
    <2> HIDE DEF msw
    <2> QED
      BY <1>6, DivMod
  <1>8. a + p + c = Half * d + h
    BY <1>7
  <1> HIDE DEF msw, d, h
  <1>9. Value(u) + Value(v) = (Half * Half) * d + (Half * h + l)
    <2>1. (Half * a + b) + (Half * p + q) = (Half * Half) * d + (Half * h + l)
      BY <1>2, <1>4, <1>5, <1>7, <1>8, Carried
    <2> QED
      BY <1>1, <2>1
  <1>10. ((Half * Half) * d + (Half * h + l)) % (Half * Half) = Half * h + l
    <2> DEFINE r == Half * h + l
               m == Half * Half
    <2>1. r \in Nat /\ r < m
      BY <1>4, <1>7, HalvesMakeWord
    <2>2. m \in Nat /\ m > 0
      BY SMT DEF Half
    <2> HIDE DEF r, m
    <2>3. (m * d + r) % m = r
      BY <1>7, <2>1, <2>2, DivisionIsUnique
    <2> QED
      BY <2>3 DEF r, m
  <1>11. Value(SafeAdd(u, v)) = Half * h + l
    BY <1>1 DEF Value
  <1>12. SafeAdd(u, v) \in Words
    BY <1>1, <1>4, <1>7 DEF Words
  <1> QED
    BY <1>9, <1>10, <1>11, <1>12

\* What a half gives to the upper one when it is shifted by n is below 2^n, and
\* what is left is a multiple of 2^n.
LEMMA ShiftBounds ==
    ASSUME NEW h \in Halves, NEW n \in 0 .. 15
    PROVE  (h * 2 ^ n) % Half <= Half - 2 ^ n /\ (h * 2 ^ n) \div Half < 2 ^ n
  <1>0. CASE n = 0
    BY <1>0, SMT DEF Half, Halves
  <1>1. CASE n = 1
    BY <1>1, SMT DEF Half, Halves
  <1>2. CASE n = 2
    BY <1>2, SMT DEF Half, Halves
  <1>3. CASE n = 3
    BY <1>3, SMT DEF Half, Halves
  <1>4. CASE n = 4
    BY <1>4, SMT DEF Half, Halves
  <1>5. CASE n = 5
    BY <1>5, SMT DEF Half, Halves
  <1>6. CASE n = 6
    BY <1>6, SMT DEF Half, Halves
  <1>7. CASE n = 7
    BY <1>7, SMT DEF Half, Halves
  <1>8. CASE n = 8
    BY <1>8, SMT DEF Half, Halves
  <1>9. CASE n = 9
    BY <1>9, SMT DEF Half, Halves
  <1>10. CASE n = 10
    BY <1>10, SMT DEF Half, Halves
  <1>11. CASE n = 11
    BY <1>11, SMT DEF Half, Halves
  <1>12. CASE n = 12
    BY <1>12, SMT DEF Half, Halves
  <1>13. CASE n = 13
    BY <1>13, SMT DEF Half, Halves
  <1>14. CASE n = 14
    BY <1>14, SMT DEF Half, Halves
  <1>15. CASE n = 15
    BY <1>15, SMT DEF Half, Halves
  <1> QED
    BY <1>0, <1>1, <1>2, <1>3, <1>4, <1>5, <1>6, <1>7, <1>8, <1>9, <1>10, <1>11,
       <1>12, <1>13, <1>14, <1>15

LEMMA PowersAreNat ==
    ASSUME NEW n \in 0 .. 15
    PROVE  2 ^ n \in Nat
  <1>0. CASE n = 0
    BY <1>0, SMT
  <1>1. CASE n = 1
    BY <1>1, SMT
  <1>2. CASE n = 2
    BY <1>2, SMT
  <1>3. CASE n = 3
    BY <1>3, SMT
  <1>4. CASE n = 4
    BY <1>4, SMT
  <1>5. CASE n = 5
    BY <1>5, SMT
  <1>6. CASE n = 6
    BY <1>6, SMT
  <1>7. CASE n = 7
    BY <1>7, SMT
  <1>8. CASE n = 8
    BY <1>8, SMT
  <1>9. CASE n = 9
    BY <1>9, SMT
  <1>10. CASE n = 10
    BY <1>10, SMT
  <1>11. CASE n = 11
    BY <1>11, SMT
  <1>12. CASE n = 12
    BY <1>12, SMT
  <1>13. CASE n = 13
    BY <1>13, SMT
  <1>14. CASE n = 14
    BY <1>14, SMT
  <1>15. CASE n = 15
    BY <1>15, SMT
  <1> QED
    BY <1>0, <1>1, <1>2, <1>3, <1>4, <1>5, <1>6, <1>7, <1>8, <1>9, <1>10, <1>11,
       <1>12, <1>13, <1>14, <1>15

LEMMA ShiftedHalf ==
    ASSUME NEW h \in Halves, NEW n \in 0 .. 15
    PROVE  /\ (h * 2 ^ n) \div Half \in Nat
           /\ (h * 2 ^ n) % Half \in Nat
           /\ h * 2 ^ n = (Half * ((h * 2 ^ n) \div Half)) + ((h * 2 ^ n) % Half)
  <1> DEFINE up == 2 ^ n
             s == h * up
  <1>0. up \in Nat
    BY PowersAreNat
  <1> HIDE DEF up
  <1>1. h \in Nat /\ up \in Nat
    BY <1>0, HalvesAreNat
  <1>2. s \in Nat
    BY <1>1, SMT
  <1> HIDE DEF s
  <1>3. s \div Half \in Nat /\ s % Half \in Nat /\ s = (Half * (s \div Half)) + (s % Half)
    BY <1>2, DivMod, HalvesAreNat
  <1> QED
    BY <1>3 DEF s, up

LEMMA ShiftedRest ==
    ASSUME NEW h \in Halves, NEW n \in 0 .. 15
    PROVE  (h * 2 ^ n) % Half \in Halves
  <1> DEFINE up == 2 ^ n
             s == h * up
  <1>0. up \in Nat
    BY PowersAreNat
  <1> HIDE DEF up
  <1>1. h \in Nat /\ up \in Nat
    BY <1>0, HalvesAreNat
  <1>2. s \in Nat
    BY <1>1, SMT
  <1> HIDE DEF s
  <1>3. s % Half \in Halves
    BY <1>2, DivMod
  <1> QED
    BY <1>3 DEF s, up

\* The halves that exchange their upper bits are halves again.
LEMMA TurnedHalf ==
    ASSUME NEW h \in Halves, NEW l \in Halves, NEW n \in 0 .. 15
    PROVE  ((h * 2 ^ n) % Half) + ((l * 2 ^ n) \div Half) \in Halves
  <1> DEFINE up == 2 ^ n
             p == (h * up) % Half
             q == (l * up) \div Half
  <1>1. up \in Nat /\ p \in Nat /\ q \in Nat /\ p <= Half - up /\ q < up
    BY ShiftBounds, ShiftedHalf, PowersAreNat
  <1> HIDE DEF up, p, q
  <1>2. p + q \in Nat /\ p + q < 65536
    BY <1>1, SMT DEF Half
  <1>3. p + q \in Halves
    BY <1>1, <1>2, SMT DEF Half, Halves
  <1> QED
    BY <1>3 DEF up, p, q

\* "Bitwise rotate a 32-bit number to the left" (xadmin.js), by 0 to 31 places,
\* of which the operations use 4 to 23.  The word stays a word; of the number
\* shifted without a bound, v, it keeps the lower 32 bits and adds what went
\* beyond them at the right end.  (Half is 2^16: the second v is shifted by n + 16.)
THEOREM BitRotateLeftRotates ==
    ASSUME NEW w \in Words, NEW n \in 0 .. 15
    PROVE  /\ \A cnt \in {n, n + 16} : BitRotateLeft(w, cnt) \in Words
           /\ LET v == Value(w) * 2 ^ n IN
                 Value(BitRotateLeft(w, n)) = (v % (Half * Half)) + (v \div (Half * Half))
           /\ LET v == Half * (Value(w) * 2 ^ n) IN
                 Value(BitRotateLeft(w, n + 16)) = (v % (Half * Half)) + (v \div (Half * Half))
  <1> DEFINE h == w[1]
             l == w[2]
             up == 2 ^ n
             hq == (h * up) \div Half
             hr == (h * up) % Half
             lq == (l * up) \div Half
             lr == (l * up) % Half
  <1>1. h \in Halves /\ l \in Halves /\ w = <<h, l>>
    BY DEF Words
  <1>2. n < 16 /\ ~(n + 16 < 16) /\ n % 16 = n /\ (n + 16) % 16 = n
    BY SMT
  <1>3. BitRotateLeft(w, n) = <<hr + lq, lr + hq>> /\ BitRotateLeft(w, n + 16) = <<lr + hq, hr + lq>>
    BY <1>2 DEF BitRotateLeft
  <1>4. hr + lq \in Halves /\ lr + hq \in Halves
    BY <1>1, TurnedHalf
  <1>5. /\ up \in Nat /\ hq \in Nat /\ hr \in Nat /\ lq \in Nat /\ lr \in Nat
        /\ hq < up /\ lq < up /\ hr <= Half - up /\ lr <= Half - up
        /\ h * up = Half * hq + hr /\ l * up = Half * lq + lr
    BY <1>1, ShiftBounds, ShiftedHalf, PowersAreNat
  <1>6. h \in Nat /\ l \in Nat
    BY <1>1, HalvesAreNat
  <1>7. Value(w) * up = (Half * Half) * hq + (Half * (hr + lq) + lr)
    <2>1. Value(w) * up = Half * (h * up) + l * up
      <3> HIDE DEF up, h, l
      <3>1. Value(w) = Half * h + l
        BY DEF Value, h, l
      <3> QED
        BY <1>5, <1>6, <3>1, SMT DEF Half
    <2> HIDE DEF up, hq, hr, lq, lr
    <2> QED
      BY <1>5, <2>1, SMT DEF Half
  <1>8. Value(<<hr + lq, lr + hq>>) =
            ((Value(w) * up) % (Half * Half)) + ((Value(w) * up) \div (Half * Half))
    <2> DEFINE m == Half * Half
               r == Half * (hr + lq) + lr
               v == Value(w) * up
    <2>1. lr \in Halves
      BY <1>1, ShiftedRest
    <2>2. r \in Nat /\ r < m
      BY <1>4, <2>1, HalvesMakeWord
    <2>3. v = m * hq + r
      BY <1>7
    <2>4. Value(<<hr + lq, lr + hq>>) = r + hq
      <3> HIDE DEF up, hq, hr, lq, lr
      <3> QED
        BY <1>5, SMT DEF Value, Half
    <2>5. m \in Nat /\ m > 0
      BY SMT DEF Half
    <2> HIDE DEF m, r, v, up, hq, hr, lq, lr
    <2>6. v % m = r /\ v \div m = hq
      BY <1>5, <2>2, <2>3, <2>5, DivisionIsUnique
    <2> QED
      BY <2>4, <2>6 DEF v, m
  <1>9. Value(<<lr + hq, hr + lq>>) =
            ((Half * (Value(w) * up)) % (Half * Half)) + ((Half * (Value(w) * up)) \div (Half * Half))
    <2> DEFINE m == Half * Half
               d == Half * hq + (hr + lq)
               r == Half * lr
               v == Half * (Value(w) * up)
    <2>1. lr \in Halves
      BY <1>1, ShiftedRest
    <2>2. r \in Nat /\ r < m /\ d \in Nat
      <3>1. lr \in Nat /\ lr <= 65535
        BY <2>1, HalvesAreNat
      <3> HIDE DEF up, hq, hr, lq, lr
      <3>2. r \in Nat /\ r < m
        BY <3>1, SMT DEF Half
      <3>3. d \in Nat
        BY <1>5, SMT DEF Half
      <3> QED
        BY <3>2, <3>3
    <2>3. v = m * d + r
      <3> DEFINE x == Value(w) * up
      <3>1. x = (Half * Half) * hq + (Half * (hr + lq) + lr)
        BY <1>7
      <3> HIDE DEF x, up, hq, hr, lq, lr
      <3>2. Half * x = m * d + r
        BY <1>5, <3>1, SMT DEF Half
      <3> QED
        BY <3>2 DEF x
    <2>4. Value(<<lr + hq, hr + lq>>) = r + d
      <3> HIDE DEF up, hq, hr, lq, lr
      <3> QED
        BY <1>5, SMT DEF Value, Half
    <2>5. m \in Nat /\ m > 0
      BY SMT DEF Half
    <2> HIDE DEF m, d, r, v, up, hq, hr, lq, lr
    <2>6. v % m = r /\ v \div m = d
      BY <2>2, <2>3, <2>5, DivisionIsUnique
    <2> QED
      BY <2>4, <2>6 DEF v, m
  <1>10. \A cnt \in {n, n + 16} : BitRotateLeft(w, cnt) \in Words
    BY <1>3, <1>4 DEF Words
  <1> QED
    BY <1>3, <1>8, <1>9, <1>10

-----------------------------------------------------------------------------
(* Words as sets of bits *)

LEMMA NatsBelowHalf ==
    ASSUME NEW n \in Nat, n <= 65535
    PROVE  n \in Halves
  <1>1. n <= Half - 1
    BY SMT DEF Half
  <1> QED
    BY <1>1, SMT DEF Halves

LEMMA BitsMakeHalf ==
    ASSUME NEW S
    PROVE  FromBits(S) \in Halves
  <1> DEFINE bit(k) == IF k \in S THEN 2 ^ k ELSE 0
             four(k) == bit(k) + bit(k + 1) + bit(k + 2) + bit(k + 3)
  <1>1. four(0) \in Nat /\ four(0) <= 15
    <2>1. bit(0) \in {0, 1} /\ bit(1) \in {0, 2} /\ bit(2) \in {0, 4} /\ bit(3) \in {0, 8}
      BY SMT
    <2>2. four(0) = bit(0) + bit(1) + bit(2) + bit(3)
      BY SMT
    <2> HIDE DEF bit, four
    <2> QED
      BY <2>1, <2>2, SMT
  <1>2. four(4) \in Nat /\ four(4) <= 240
    <2>1. bit(4) \in {0, 16} /\ bit(5) \in {0, 32} /\ bit(6) \in {0, 64} /\ bit(7) \in {0, 128}
      BY SMT
    <2>2. four(4) = bit(4) + bit(5) + bit(6) + bit(7)
      BY SMT
    <2> HIDE DEF bit, four
    <2> QED
      BY <2>1, <2>2, SMT
  <1>3. four(8) \in Nat /\ four(8) <= 3840
    <2>1. bit(8) \in {0, 256} /\ bit(9) \in {0, 512} /\ bit(10) \in {0, 1024} /\ bit(11) \in {0, 2048}
      BY SMT
    <2>2. four(8) = bit(8) + bit(9) + bit(10) + bit(11)
      BY SMT
    <2> HIDE DEF bit, four
    <2> QED
      BY <2>1, <2>2, SMT
  <1>4. four(12) \in Nat /\ four(12) <= 61440
    <2>1. bit(12) \in {0, 4096} /\ bit(13) \in {0, 8192} /\ bit(14) \in {0, 16384} /\ bit(15) \in {0, 32768}
      BY SMT
    <2>2. four(12) = bit(12) + bit(13) + bit(14) + bit(15)
      BY SMT
    <2> HIDE DEF bit, four
    <2> QED
      BY <2>1, <2>2, SMT
  <1>5. FromBits(S) = four(0) + four(4) + four(8) + four(12)
    BY DEF FromBits
  <1> HIDE DEF four
  <1>6. FromBits(S) \in Nat /\ FromBits(S) <= 65535
    BY <1>1, <1>2, <1>3, <1>4, <1>5, SMT
  <1> QED
    BY <1>6, NatsBelowHalf

\* A half is the sum of its bits.
LEMMA HalfIsItsBits ==
    ASSUME NEW n \in Halves
    PROVE  FromBits(Bits(n)) = n
  <1> DEFINE bit(k) == IF k \in Bits(n) THEN 2 ^ k ELSE 0
             four(k) == bit(k) + bit(k + 1) + bit(k + 2) + bit(k + 3)
  <1>0. n \in Nat /\ n <= 65535
    BY HalvesAreNat
  <1>1. four(0) \in Int /\ four(0) = 1 * (n \div 1) - 16 * (n \div 16)
    <2>1. bit(0) = 1 * (n \div 1) - 2 * (n \div 2)
      <3>1. bit(0) = IF (n \div 1) % 2 = 1 THEN 1 ELSE 0
        BY SMT DEF Bits
      <3> HIDE DEF bit
      <3> QED
        BY <1>0, <3>1, SMT
    <2>2. bit(1) = 2 * (n \div 2) - 4 * (n \div 4)
      <3>1. bit(1) = IF (n \div 2) % 2 = 1 THEN 2 ELSE 0
        BY SMT DEF Bits
      <3> HIDE DEF bit
      <3> QED
        BY <1>0, <3>1, SMT
    <2>3. bit(2) = 4 * (n \div 4) - 8 * (n \div 8)
      <3>1. bit(2) = IF (n \div 4) % 2 = 1 THEN 4 ELSE 0
        BY SMT DEF Bits
      <3> HIDE DEF bit
      <3> QED
        BY <1>0, <3>1, SMT
    <2>4. bit(3) = 8 * (n \div 8) - 16 * (n \div 16)
      <3>1. bit(3) = IF (n \div 8) % 2 = 1 THEN 8 ELSE 0
        BY SMT DEF Bits
      <3> HIDE DEF bit
      <3> QED
        BY <1>0, <3>1, SMT
    <2>5. four(0) = bit(0) + bit(1) + bit(2) + bit(3)
      BY SMT
    <2> HIDE DEF bit, four
    <2> QED
      BY <1>0, <2>1, <2>2, <2>3, <2>4, <2>5, SMT
  <1>2. four(4) \in Int /\ four(4) = 16 * (n \div 16) - 256 * (n \div 256)
    <2>1. bit(4) = 16 * (n \div 16) - 32 * (n \div 32)
      <3>1. bit(4) = IF (n \div 16) % 2 = 1 THEN 16 ELSE 0
        BY SMT DEF Bits
      <3> HIDE DEF bit
      <3> QED
        BY <1>0, <3>1, SMT
    <2>2. bit(5) = 32 * (n \div 32) - 64 * (n \div 64)
      <3>1. bit(5) = IF (n \div 32) % 2 = 1 THEN 32 ELSE 0
        BY SMT DEF Bits
      <3> HIDE DEF bit
      <3> QED
        BY <1>0, <3>1, SMT
    <2>3. bit(6) = 64 * (n \div 64) - 128 * (n \div 128)
      <3>1. bit(6) = IF (n \div 64) % 2 = 1 THEN 64 ELSE 0
        BY SMT DEF Bits
      <3> HIDE DEF bit
      <3> QED
        BY <1>0, <3>1, SMT
    <2>4. bit(7) = 128 * (n \div 128) - 256 * (n \div 256)
      <3>1. bit(7) = IF (n \div 128) % 2 = 1 THEN 128 ELSE 0
        BY SMT DEF Bits
      <3> HIDE DEF bit
      <3> QED
        BY <1>0, <3>1, SMT
    <2>5. four(4) = bit(4) + bit(5) + bit(6) + bit(7)
      BY SMT
    <2> HIDE DEF bit, four
    <2> QED
      BY <1>0, <2>1, <2>2, <2>3, <2>4, <2>5, SMT
  <1>3. four(8) \in Int /\ four(8) = 256 * (n \div 256) - 4096 * (n \div 4096)
    <2>1. bit(8) = 256 * (n \div 256) - 512 * (n \div 512)
      <3>1. bit(8) = IF (n \div 256) % 2 = 1 THEN 256 ELSE 0
        BY SMT DEF Bits
      <3> HIDE DEF bit
      <3> QED
        BY <1>0, <3>1, SMT
    <2>2. bit(9) = 512 * (n \div 512) - 1024 * (n \div 1024)
      <3>1. bit(9) = IF (n \div 512) % 2 = 1 THEN 512 ELSE 0
        BY SMT DEF Bits
      <3> HIDE DEF bit
      <3> QED
        BY <1>0, <3>1, SMT
    <2>3. bit(10) = 1024 * (n \div 1024) - 2048 * (n \div 2048)
      <3>1. bit(10) = IF (n \div 1024) % 2 = 1 THEN 1024 ELSE 0
        BY SMT DEF Bits
      <3> HIDE DEF bit
      <3> QED
        BY <1>0, <3>1, SMT
    <2>4. bit(11) = 2048 * (n \div 2048) - 4096 * (n \div 4096)
      <3>1. bit(11) = IF (n \div 2048) % 2 = 1 THEN 2048 ELSE 0
        BY SMT DEF Bits
      <3> HIDE DEF bit
      <3> QED
        BY <1>0, <3>1, SMT
    <2>5. four(8) = bit(8) + bit(9) + bit(10) + bit(11)
      BY SMT
    <2> HIDE DEF bit, four
    <2> QED
      BY <1>0, <2>1, <2>2, <2>3, <2>4, <2>5, SMT
  <1>4. four(12) \in Int /\ four(12) = 4096 * (n \div 4096) - 65536 * (n \div 65536)
    <2>1. bit(12) = 4096 * (n \div 4096) - 8192 * (n \div 8192)
      <3>1. bit(12) = IF (n \div 4096) % 2 = 1 THEN 4096 ELSE 0
        BY SMT DEF Bits
      <3> HIDE DEF bit
      <3> QED
        BY <1>0, <3>1, SMT
    <2>2. bit(13) = 8192 * (n \div 8192) - 16384 * (n \div 16384)
      <3>1. bit(13) = IF (n \div 8192) % 2 = 1 THEN 8192 ELSE 0
        BY SMT DEF Bits
      <3> HIDE DEF bit
      <3> QED
        BY <1>0, <3>1, SMT
    <2>3. bit(14) = 16384 * (n \div 16384) - 32768 * (n \div 32768)
      <3>1. bit(14) = IF (n \div 16384) % 2 = 1 THEN 16384 ELSE 0
        BY SMT DEF Bits
      <3> HIDE DEF bit
      <3> QED
        BY <1>0, <3>1, SMT
    <2>4. bit(15) = 32768 * (n \div 32768) - 65536 * (n \div 65536)
      <3>1. bit(15) = IF (n \div 32768) % 2 = 1 THEN 32768 ELSE 0
        BY SMT DEF Bits
      <3> HIDE DEF bit
      <3> QED
        BY <1>0, <3>1, SMT
    <2>5. four(12) = bit(12) + bit(13) + bit(14) + bit(15)
      BY SMT
    <2> HIDE DEF bit, four
    <2> QED
      BY <1>0, <2>1, <2>2, <2>3, <2>4, <2>5, SMT
  <1>5. FromBits(Bits(n)) = four(0) + four(4) + four(8) + four(12)
    BY DEF FromBits
  <1> HIDE DEF four
  <1> QED
    BY <1>0, <1>1, <1>2, <1>3, <1>4, <1>5, SMT

\* The bits that the padding adds.
LEMMA BitsAre ==
    ASSUME NEW n \in Nat
    PROVE  Bits(n) \subseteq 0 .. 15 /\ \A k \in 0 .. 15 : k \in Bits(n) <=> (n \div 2 ^ k) % 2 = 1
  BY DEF Bits

LEMMA MarkBits == Bits(0) = {} /\ Bits(128) = {7} /\ Bits(32768) = {15}
  <1>1. ASSUME NEW k \in 0 .. 15
        PROVE  /\ (0 \div 2 ^ k) % 2 # 1
               /\ ((128 \div 2 ^ k) % 2 = 1) <=> (k = 7)
               /\ ((32768 \div 2 ^ k) % 2 = 1) <=> (k = 15)
    <2>0. CASE k = 0
      BY <2>0, SMT
    <2>1. CASE k = 1
      BY <2>1, SMT
    <2>2. CASE k = 2
      BY <2>2, SMT
    <2>3. CASE k = 3
      BY <2>3, SMT
    <2>4. CASE k = 4
      BY <2>4, SMT
    <2>5. CASE k = 5
      BY <2>5, SMT
    <2>6. CASE k = 6
      BY <2>6, SMT
    <2>7. CASE k = 7
      BY <2>7, SMT
    <2>8. CASE k = 8
      BY <2>8, SMT
    <2>9. CASE k = 9
      BY <2>9, SMT
    <2>10. CASE k = 10
      BY <2>10, SMT
    <2>11. CASE k = 11
      BY <2>11, SMT
    <2>12. CASE k = 12
      BY <2>12, SMT
    <2>13. CASE k = 13
      BY <2>13, SMT
    <2>14. CASE k = 14
      BY <2>14, SMT
    <2>15. CASE k = 15
      BY <2>15, SMT
    <2> QED
      BY <2>0, <2>1, <2>2, <2>3, <2>4, <2>5, <2>6, <2>7, <2>8, <2>9, <2>10, <2>11,
         <2>12, <2>13, <2>14, <2>15
  <1>2. \A k \in 0 .. 15 : k \notin Bits(0) /\ (k \in Bits(128) <=> k = 7)
                           /\ (k \in Bits(32768) <=> k = 15)
    BY <1>1, BitsAre, SMT
  <1>3. Bits(0) \subseteq 0 .. 15 /\ Bits(128) \subseteq 0 .. 15 /\ Bits(32768) \subseteq 0 .. 15
    BY BitsAre, SMT
  <1> QED
    BY <1>2, <1>3, SMT

\* A 1 bit put into a half: at the right end of an empty one, or at its left end.
LEMMA MarkedHalf ==
    ASSUME NEW n \in Halves
    PROVE  /\ OrHalf(n, 0) = n
           /\ OrHalf(0, 128) = 128
           /\ n < 32768 => OrHalf(n, 32768) = n + 32768
  <1>1. OrHalf(n, 0) = n
    BY MarkBits, HalfIsItsBits DEF OrHalf
  <1>2. OrHalf(0, 128) = 128
    <2>1. 128 \in Halves
      BY SMT DEF Halves, Half
    <2>2. Bits(0) \cup Bits(128) = Bits(128)
      BY MarkBits
    <2> QED
      BY <2>1, <2>2, HalfIsItsBits DEF OrHalf
  <1>3. ASSUME n < 32768 PROVE OrHalf(n, 32768) = n + 32768
    <2>1. n \in Nat /\ n <= 65535
      BY HalvesAreNat
    <2>2. 15 \notin Bits(n)
      <3>1. (n \div 32768) % 2 # 1
        BY <2>1, <1>3, SMT
      <3> QED
        BY <3>1, SMT DEF Bits
    <2>3. FromBits(Bits(n) \cup {15}) = FromBits(Bits(n)) + 32768
      <3> DEFINE bit(S, k) == IF k \in S THEN 2 ^ k ELSE 0
                 four(S, k) == bit(S, k) + bit(S, k + 1) + bit(S, k + 2) + bit(S, k + 3)
                 A == Bits(n)
                 B == Bits(n) \cup {15}
      <3>1. FromBits(A) = four(A, 0) + four(A, 4) + four(A, 8) + four(A, 12)
        BY DEF FromBits
      <3>2. FromBits(B) = four(B, 0) + four(B, 4) + four(B, 8) + four(B, 12)
        BY DEF FromBits
      <3>3. four(B, 0) = four(A, 0) /\ four(A, 0) \in Int
        BY SMT
      <3>4. four(B, 4) = four(A, 4) /\ four(A, 4) \in Int
        BY SMT
      <3>5. four(B, 8) = four(A, 8) /\ four(A, 8) \in Int
        BY SMT
      <3>6. four(B, 12) = four(A, 12) + 32768 /\ four(A, 12) \in Int
        BY <2>2, SMT
      <3> HIDE DEF four, A, B
      <3>7. FromBits(B) = FromBits(A) + 32768
        BY <3>1, <3>2, <3>3, <3>4, <3>5, <3>6, SMT
      <3> QED
        BY <3>7 DEF A, B
    <2> QED
      BY <2>3, MarkBits, HalfIsItsBits DEF OrHalf
  <1> QED
    BY <1>1, <1>2, <1>3

LEMMA BitwiseWords ==
    ASSUME NEW u \in Words, NEW v \in Words
    PROVE  /\ BitAnd(u, v) \in Words /\ BitOr(u, v) \in Words
           /\ BitXor(u, v) \in Words /\ BitNot(u) \in Words
  <1>1. BitAnd(u, v) \in Words /\ BitOr(u, v) \in Words /\ BitXor(u, v) \in Words
    BY BitsMakeHalf DEF BitAnd, BitOr, BitXor, AndHalf, OrHalf, XorHalf, Words
  <1>2. BitNot(u) \in Words
    <2>1. u[1] \in Halves /\ u[2] \in Halves
      BY DEF Words
    <2>2. \A n \in Halves : Half - 1 - n \in Halves
      BY SMT DEF Halves, Half
    <2> QED
      BY <2>1, <2>2 DEF BitNot, Words
  <1> QED
    BY <1>1, <1>2

-----------------------------------------------------------------------------
(* What the md5 makes of words and bytes *)

LEMMA WordOfNumber ==
    ASSUME NEW n \in Int
    PROVE  Word(n) \in Words
  <1>1. \A k \in Int : k % Half \in Halves
    BY SMT DEF Halves, Half
  <1>2. n \div Half \in Int
    BY SMT DEF Half
  <1> QED
    BY <1>1, <1>2 DEF Word, Words

LEMMA RotatedWord ==
    ASSUME NEW w \in Words, NEW s \in 0 .. 31
    PROVE  BitRotateLeft(w, s) \in Words
  <1>1. PICK n \in 0 .. 15 : s \in {n, n + 16}
    <2>1. CASE s < 16
      BY <2>1, SMT
    <2>2. CASE s >= 16
      <3>1. s - 16 \in 0 .. 15 /\ s = s - 16 + 16
        BY <2>2, SMT
      <3> QED
        BY <3>1
    <2> QED
      BY <2>1, <2>2, SMT
  <1> QED
    BY <1>1, BitRotateLeftRotates

\* What one operation makes of words is a word.
LEMMA OperationMakesWord ==
    ASSUME NEW q \in Words, NEW a \in Words, NEW b \in Words, NEW w \in Words,
           NEW t \in Words, NEW s \in 0 .. 31
    PROVE  Md5cmn(q, a, b, w, s, t) \in Words
  <1> DEFINE sum == SafeAdd(SafeAdd(a, q), SafeAdd(w, t))
  <1>1. sum \in Words
    BY SafeAddWraps
  <1> HIDE DEF sum
  <1>2. BitRotateLeft(sum, s) \in Words
    BY <1>1, RotatedWord
  <1>3. SafeAdd(BitRotateLeft(sum, s), b) \in Words
    BY <1>2, SafeAddWraps
  <1> QED
    BY <1>3 DEF Md5cmn, sum

LEMMA MixedMakesWord ==
    ASSUME NEW n \in 0 .. 63, NEW b \in Words, NEW c \in Words, NEW d \in Words
    PROVE  Mixed(n, b, c, d) \in Words
  <1>1. /\ BitOr(BitAnd(b, c), BitAnd(BitNot(b), d)) \in Words
        /\ BitOr(BitAnd(b, d), BitAnd(c, BitNot(d))) \in Words
        /\ BitXor(BitXor(b, c), d) \in Words
        /\ BitXor(c, BitOr(b, BitNot(d))) \in Words
    BY BitwiseWords
  <1>2. n < 16 \/ n \in 16 .. 31 \/ n \in 32 .. 47 \/ n \in 48 .. 63
    BY SMT
  <1> QED
    BY <1>1, <1>2, Zenon DEF Mixed

\* Every operation has its word of the block, its rotation and its constant.
LEMMA OperationTables ==
    ASSUME NEW n \in 0 .. 63
    PROVE  Input(n) \in 0 .. 15 /\ Rotation(n) \in 0 .. 31 /\ Constants[n + 1] \in Int
  <1>1. Input(n) \in 0 .. 15
    BY SMT DEF Input
  <1>2. Rotation(n) \in 0 .. 31
    <2>1. n \div 16 \in {0, 1, 2, 3} /\ n % 4 \in {0, 1, 2, 3}
      BY SMT
    <2> DEFINE i == n \div 16
               j == n % 4
    <2> HIDE DEF i, j
    <2>2. i \in {0, 1, 2, 3} /\ j \in {0, 1, 2, 3}
      BY <2>1 DEF i, j
    <2>3. <<<<7, 12, 17, 22>>, <<5, 9, 14, 20>>, <<4, 11, 16, 23>>, <<6, 10, 15, 21>>>>
              [1 + i][1 + j] \in 0 .. 31
      BY <2>2, SMT
    <2> QED
      BY <2>3 DEF Rotation, i, j
  <1>3. Constants \in Seq(Int) /\ Len(Constants) = 64
    BY SMT DEF Constants
  <1>4. n + 1 \in 1 .. Len(Constants)
    BY <1>3, SMT
  <1>5. Constants[n + 1] \in Int
    <2>1. \A c \in Seq(Int) : \A i \in 1 .. Len(c) : c[i] \in Int
      BY SMT
    <2> QED
      BY <1>3, <1>4, <2>1, Zenon
  <1> QED
    BY <1>1, <1>2, <1>5

\* encodeURIComponent and unescape make bytes of a code point.
LEMMA Utf8MakesBytes ==
    ASSUME NEW c \in CodePoints
    PROVE  Utf8(c) \in Seq(Bytes)
  <1>0. c \in Nat /\ c <= 1114111
    <2>1. MaxCodePoint \in Nat /\ MaxCodePoint <= 1114111
      BY SMT DEF MaxCodePoint
    <2> QED
      BY <2>1, SMT DEF CodePoints
  <1>1. CASE c < 128
    <2> DEFINE p == c
    <2>1. Utf8(c) = <<p>>
      BY <1>0, <1>1, SMT DEF Utf8
    <2>2. p \in Nat /\ p <= 255
      BY <1>0, <1>1, SMT
    <2> HIDE DEF p
    <2>3. p \in Bytes
      BY <2>2, SMT DEF Bytes
    <2> QED
      BY <2>1, <2>3
  <1>2. CASE 128 <= c /\ c < 2048
    <2> DEFINE p == 192 + c \div 64
               q == 128 + (c % 64)
    <2>1. Utf8(c) = <<p, q>>
      BY <1>0, <1>2, SMT DEF Utf8
    <2>2. p \in Nat /\ p <= 255 /\ q \in Nat /\ q <= 255
      BY <1>0, <1>2, SMT
    <2> HIDE DEF p, q
    <2>3. p \in Bytes /\ q \in Bytes
      BY <2>2, SMT DEF Bytes
    <2> QED
      BY <2>1, <2>3
  <1>3. CASE 2048 <= c /\ c < 65536
    <2> DEFINE p == 224 + c \div 4096
               q == 128 + ((c \div 64) % 64)
               r == 128 + (c % 64)
    <2>1. Utf8(c) = <<p, q, r>>
      BY <1>0, <1>3, SMT DEF Utf8
    <2>2. p \in Nat /\ p <= 255 /\ q \in Nat /\ q <= 255 /\ r \in Nat /\ r <= 255
      BY <1>0, <1>3, SMT
    <2> HIDE DEF p, q, r
    <2>3. p \in Bytes /\ q \in Bytes /\ r \in Bytes
      BY <2>2, SMT DEF Bytes
    <2> QED
      BY <2>1, <2>3
  <1>4. CASE 65536 <= c
    <2> DEFINE p == 240 + c \div 262144
               q == 128 + ((c \div 4096) % 64)
               r == 128 + ((c \div 64) % 64)
               t == 128 + (c % 64)
    <2>1. Utf8(c) = <<p, q, r, t>>
      BY <1>0, <1>4, SMT DEF Utf8
    <2>2. p \in Nat /\ p <= 255 /\ q \in Nat /\ q <= 255 /\ r \in Nat /\ r <= 255 /\ t \in Nat /\ t <= 255
      BY <1>0, <1>4, SMT
    <2> HIDE DEF p, q, r, t
    <2>3. p \in Bytes /\ q \in Bytes /\ r \in Bytes /\ t \in Bytes
      BY <2>2, SMT DEF Bytes
    <2> QED
      BY <2>1, <2>3
  <1> QED
    BY <1>0, <1>1, <1>2, <1>3, <1>4, SMT

LEMMA BytesAreNat == \A n \in Bytes : n \in Nat /\ n <= 255
  BY SMT DEF Bytes

LEMMA ByteAtIsByte ==
    ASSUME NEW s \in Seq(Bytes), NEW k \in Int
    PROVE  ByteAt(s, k) \in Bytes
  <1>1. 0 \in Bytes
    BY SMT DEF Bytes
  <1>2. k \in 1 .. Len(s) => s[k] \in Bytes
    OBVIOUS
  <1> QED
    BY <1>1, <1>2, Zenon DEF ByteAt

\* Two bytes make a half.
LEMMA BytesMakeHalf ==
    ASSUME NEW m \in Bytes, NEW n \in Bytes
    PROVE  256 * m + n \in Halves /\ (256 * m + n) % 256 = n /\ (256 * m + n) \div 256 = m
  <1>1. m \in Nat /\ n \in Nat /\ m <= 255 /\ n <= 255
    BY BytesAreNat
  <1>2. 256 * m + n \in Nat /\ 256 * m + n <= 65535
    BY <1>1, SMT
  <1>3. (256 * m + n) % 256 = n /\ (256 * m + n) \div 256 = m
    BY <1>1, SMT
  <1> QED
    BY <1>2, <1>3, NatsBelowHalf

LEMMA Rstr2binlMakesWords ==
    ASSUME NEW s \in Seq(Bytes)
    PROVE  Rstr2binl(s) \in Seq(Words) /\ Len(Rstr2binl(s)) = (Len(s) + 3) \div 4
  <1>1. \A k \in Int : 256 * ByteAt(s, 4 * k) + ByteAt(s, 4 * k - 1) \in Halves
                       /\ 256 * ByteAt(s, 4 * k - 2) + ByteAt(s, 4 * k - 3) \in Halves
    <2> TAKE k \in Int
    <2>1. 4 * k \in Int /\ 4 * k - 1 \in Int /\ 4 * k - 2 \in Int /\ 4 * k - 3 \in Int
      BY SMT
    <2>2. /\ ByteAt(s, 4 * k) \in Bytes /\ ByteAt(s, 4 * k - 1) \in Bytes
          /\ ByteAt(s, 4 * k - 2) \in Bytes /\ ByteAt(s, 4 * k - 3) \in Bytes
      BY <2>1, ByteAtIsByte
    <2> QED
      BY <2>2, BytesMakeHalf
  <1> DEFINE n == (Len(s) + 3) \div 4
             word(k) == <<256 * ByteAt(s, 4 * k) + ByteAt(s, 4 * k - 1),
                          256 * ByteAt(s, 4 * k - 2) + ByteAt(s, 4 * k - 3)>>
  <1>2. n \in Nat
    BY SMT
  <1>3. \A k \in 1 .. n : word(k) \in Words
    <2>1. \A k \in 1 .. n : k \in Int
      BY SMT
    <2> QED
      BY <1>1, <2>1 DEF Words
  <1>4. Rstr2binl(s) = [k \in 1 .. n |-> word(k)]
    BY DEF Rstr2binl
  <1> HIDE DEF n, word
  <1>5. Rstr2binl(s) \in Seq(Words) /\ Len(Rstr2binl(s)) = n
    BY <1>2, <1>3, <1>4, SMT
  <1> QED
    BY <1>5 DEF n

\* The padding fills blocks of 16 words.
LEMMA PaddedMakesBlocks ==
    ASSUME NEW words \in Seq(Words), NEW len \in Nat
    PROVE  /\ Padded(words, len) \in Seq(Words)
           /\ Len(Padded(words, len)) = ((len + 64) \div 512) * 16 + 16
           /\ Len(Padded(words, len)) % 16 = 0 /\ Len(Padded(words, len)) >= 16
  <1> DEFINE q == (len + 64) \div 512
             final == q * 16 + 14
             There(k) == IF k < Len(words) THEN words[k + 1] ELSE Word(0)
             Marked(k) == IF k = len \div 32
                          THEN BitOr(There(k), BitRotateLeft(Word(128), len % 32))
                          ELSE There(k)
             word(k) == IF k - 1 = final THEN Word(len) ELSE Marked(k - 1)
  <1>1. q \in Nat
    BY SMT
  <1>2. \A k \in Nat : There(k) \in Words
    <2> TAKE k \in Nat
    <2>1. Word(0) \in Words
      BY WordOfNumber
    <2>2. k < Len(words) => k + 1 \in 1 .. Len(words)
      BY SMT
    <2>3. k < Len(words) => words[k + 1] \in Words
      BY <2>2
    <2> QED
      BY <2>1, <2>3
  <1>3. BitRotateLeft(Word(128), len % 32) \in Words
    <2>1. Word(128) \in Words
      BY WordOfNumber
    <2>2. len % 32 \in 0 .. 31
      BY SMT
    <2> QED
      BY <2>1, <2>2, RotatedWord
  <1>4. \A k \in Nat : Marked(k) \in Words
    BY <1>2, <1>3, BitwiseWords
  <1>5. Word(len) \in Words
    BY WordOfNumber
  <1> DEFINE n == final + 2
  <1>6. \A k \in 1 .. n : word(k) \in Words
    <2> HIDE DEF Marked, There, final
    <2>1. \A k \in 1 .. n : k - 1 \in Nat
      BY SMT
    <2> QED
      BY <1>4, <1>5, <2>1
  <1>7. Padded(words, len) = [k \in 1 .. n |-> word(k)]
    BY DEF Padded
  <1>8. n \in Nat /\ n = q * 16 + 16 /\ n % 16 = 0 /\ n >= 16
    <2> HIDE DEF q
    <2> QED
      BY <1>1, SMT
  <1> HIDE DEF n, word
  <1>9. Padded(words, len) \in Seq(Words) /\ Len(Padded(words, len)) = n
    BY <1>6, <1>7, <1>8, SMT
  <1> QED
    BY <1>8, <1>9

LEMMA PadMakesBlock ==
    ASSUME NEW words \in Seq(Words), NEW byte \in Int
    PROVE  Pad(words, byte) \in Seq(Words)
  <1> DEFINE wide == byte * 257 * Half + byte * 257
             word(k) == BitXor(IF k <= Len(words) THEN words[k] ELSE Word(0), Word(wide))
  <1>1. wide \in Int
    BY SMT DEF Half
  <1>2. \A k \in 1 .. 16 : word(k) \in Words
    <2> TAKE k \in 1 .. 16
    <2>1. Word(0) \in Words /\ Word(wide) \in Words
      BY <1>1, WordOfNumber
    <2>2. k <= Len(words) => words[k] \in Words
      BY SMT
    <2> QED
      BY <2>1, <2>2, BitwiseWords
  <1>3. Pad(words, byte) = [k \in 1 .. 16 |-> word(k)]
    BY DEF Pad
  <1> HIDE DEF word
  <1> QED
    BY <1>2, <1>3, SMT

-----------------------------------------------------------------------------
(* The md5: an operation finds words everywhere *)

IsBlocks(p) == p \in Seq(Words) /\ Len(p) % 16 = 0 /\ Len(p) >= 16

\* What is hashed stays what was padded, from the stage's first block to its last.
WordsInv ==
    /\ WordsFillBlocks
    /\ stage = "encode" => at = 0
    /\ stage = "plain" => padded = Padded(Rstr2binl(rawString), 8 * Len(rawString))
    /\ stage = "key" => padded = Padded(Rstr2binl(rawKey), 8 * Len(rawKey))

LEMMA MessageFillsBlocks ==
    ASSUME rawKey \in Seq(Bytes), rawString \in Seq(Bytes),
           NEW s \in {"plain", "key", "inner", "outer"},
           NEW words \in Seq(Words), NEW digest \in Seq(Words)
    PROVE  IsBlocks(Message(s, words, digest))
  <1>1. /\ 8 * Len(rawString) \in Nat /\ 8 * Len(rawKey) \in Nat
        /\ 512 + 8 * Len(rawString) \in Nat /\ 512 + 128 \in Nat
    BY SMT
  <1>2. Rstr2binl(rawString) \in Seq(Words)
    BY Rstr2binlMakesWords
  <1>3. CASE s = "plain"
    <2>1. Message(s, words, digest) = Padded(Rstr2binl(rawString), 8 * Len(rawString))
      BY <1>3 DEF Message
    <2> QED
      BY <1>1, <1>2, <2>1, PaddedMakesBlocks DEF IsBlocks
  <1>4. CASE s = "key"
    <2>1. Message(s, words, digest) = Padded(words, 8 * Len(rawKey))
      BY <1>4 DEF Message
    <2> QED
      BY <1>1, <2>1, PaddedMakesBlocks DEF IsBlocks
  <1>5. CASE s = "inner"
    <2> DEFINE all == Pad(words, 54) \o Rstr2binl(rawString)
    <2>1. Message(s, words, digest) = Padded(all, 512 + 8 * Len(rawString))
      BY <1>5 DEF Message
    <2>2. all \in Seq(Words)
      BY <1>2, PadMakesBlock
    <2> HIDE DEF all
    <2> QED
      BY <1>1, <2>1, <2>2, PaddedMakesBlocks DEF IsBlocks
  <1>6. CASE s = "outer"
    <2> DEFINE all == Pad(words, 92) \o digest
    <2>1. Message(s, words, digest) = Padded(all, 512 + 128)
      BY <1>6 DEF Message
    <2>2. all \in Seq(Words)
      BY PadMakesBlock
    <2> DEFINE len == 512 + 128
    <2>3. len \in Nat
      BY <1>1
    <2> HIDE DEF all, len
    <2>4. IsBlocks(Padded(all, len))
      BY <2>2, <2>3, PaddedMakesBlocks DEF IsBlocks
    <2> QED
      BY <2>1, <2>4 DEF len
  <1> QED
    BY <1>3, <1>4, <1>5, <1>6

LEMMA StartIsWords == Start \in [1 .. 4 -> Words]
  <1>1. /\ Word(1732584193) \in Words /\ Word(-271733879) \in Words
        /\ Word(-1732584194) \in Words /\ Word(271733878) \in Words
    <2>1. 1732584193 \in Int /\ -271733879 \in Int /\ -1732584194 \in Int /\ 271733878 \in Int
      BY SMT
    <2> QED
      BY <2>1, WordOfNumber, SMT
  <1> QED
    BY <1>1, SMT DEF Start

LEMMA SumIsWords ==
    ASSUME WordsFillBlocks
    PROVE  Sum \in [1 .. 4 -> Words] /\ Sum \in Seq(Words)
  <1>1. \A k \in 1 .. 4 : SafeAdd(reg[k], old[k]) \in Words
    <2> TAKE k \in 1 .. 4
    <2>1. reg[k] \in Words /\ old[k] \in Words
      BY DEF WordsFillBlocks
    <2> QED
      BY <2>1, SafeAddWraps
  <1> DEFINE f(k) == SafeAdd(reg[k], old[k])
  <1>2. Sum = [k \in 1 .. 4 |-> f(k)]
    BY DEF Sum
  <1> HIDE DEF f
  <1>3. \A k \in 1 .. 4 : f(k) \in Words
    BY <1>1 DEF f
  <1> QED
    BY <1>2, <1>3, SMT

LEMMA Md5InitInv == Md5Init => WordsInv
  <1> SUFFICES ASSUME Md5Init PROVE WordsInv
    OBVIOUS
  <1> USE DEF Md5Init
  <1>1. job \in Jobs /\ stage = "encode" /\ at = 0
    OBVIOUS
  <1>2. rawKey \in Seq(Bytes) /\ rawString \in Seq(Bytes) /\ padded \in Seq(Words) /\ bkey \in Seq(Words)
    OBVIOUS
  <1>3. encoded \in 0 .. Len(job.key) + Len(job.string)
    <2> DEFINE full == Len(job.key) + Len(job.string)
    <2>1. full \in Nat
      <3>1. job.key \in Seq(CodePoints) /\ job.string \in Seq(CodePoints)
        BY <1>1, JobsAreCalls
      <3> DEFINE m == Len(job.key)
                 n == Len(job.string)
      <3>2. m \in Nat /\ n \in Nat
        BY <3>1
      <3> HIDE DEF m, n
      <3>3. m + n \in Nat
        BY <3>2, SMT
      <3> QED
        BY <3>3 DEF m, n
    <2> HIDE DEF full
    <2>2. 0 \in 0 .. full
      BY <2>1, SMT
    <2> QED
      BY <2>2 DEF full
  <1>4. at \in Nat /\ at % 16 = 0 /\ step \in 0 .. 64
    BY SMT
  <1>5. reg \in [1 .. 4 -> Words] /\ old \in [1 .. 4 -> Words]
    BY StartIsWords
  <1> QED
    BY <1>1, <1>2, <1>3, <1>4, <1>5, Zenon DEF WordsInv, WordsFillBlocks

LEMMA EncodeInv ==
    ASSUME WordsInv, Str2rstrUTF8
    PROVE  WordsInv'
  <1> USE DEF WordsInv, WordsFillBlocks
  <1>1. /\ job' = job /\ stage' = stage /\ padded' = padded /\ at' = at /\ step' = step
        /\ reg' = reg /\ old' = old /\ bkey' = bkey /\ stage = "encode"
    BY DEF Str2rstrUTF8, hash
  <1> DEFINE keyed == Len(job.key)
             full == Len(job.string)
  <1>2. keyed \in Nat /\ full \in Nat /\ job.key \in Seq(CodePoints) /\ job.string \in Seq(CodePoints)
    BY JobsAreCalls
  <1>3. encoded \in 0 .. keyed + full /\ encoded < keyed + full /\ encoded' = encoded + 1
    BY DEF Str2rstrUTF8
  <1>4. encoded' \in 0 .. keyed + full
    <2> HIDE DEF keyed, full
    <2> QED
      BY <1>2, <1>3, SMT
  <1>5. CASE encoded < keyed
    <2>1. rawKey' = rawKey \o Utf8(job.key[encoded + 1]) /\ rawString' = rawString
      BY <1>5 DEF Str2rstrUTF8
    <2>2. job.key[encoded + 1] \in CodePoints
      BY <1>2, <1>3, <1>5, SMT
    <2>3. Utf8(job.key[encoded + 1]) \in Seq(Bytes)
      BY <2>2, Utf8MakesBytes
    <2>4. rawKey' \in Seq(Bytes) /\ rawString' \in Seq(Bytes)
      BY <2>1, <2>3
    <2> QED
      BY <1>1, <1>4, <2>4, Zenon
  <1>6. CASE ~(encoded < keyed)
    <2>1. rawString' = rawString \o Utf8(job.string[encoded - keyed + 1]) /\ rawKey' = rawKey
      BY <1>6 DEF Str2rstrUTF8
    <2>2. job.string[encoded - keyed + 1] \in CodePoints
      <3>1. encoded - keyed + 1 \in 1 .. full
        <4> HIDE DEF keyed, full
        <4> QED
          BY <1>2, <1>3, <1>6, SMT
      <3>2. \A s \in Seq(CodePoints) : \A i \in 1 .. Len(s) : s[i] \in CodePoints
        OBVIOUS
      <3> QED
        BY <1>2, <3>1, <3>2, Zenon
    <2>3. Utf8(job.string[encoded - keyed + 1]) \in Seq(Bytes)
      BY <2>2, Utf8MakesBytes
    <2>4. rawKey' \in Seq(Bytes) /\ rawString' \in Seq(Bytes)
      <3>1. \A p, q \in Seq(Bytes) : p \o q \in Seq(Bytes)
        OBVIOUS
      <3>2. rawString \in Seq(Bytes) /\ rawKey \in Seq(Bytes)
        OBVIOUS
      <3> QED
        BY <2>1, <2>3, <3>1, <3>2, Zenon
    <2> QED
      BY <1>1, <1>4, <2>4, Zenon
  <1> QED
    BY <1>5, <1>6

LEMMA BeginInv ==
    ASSUME WordsInv, BeginHash
    PROVE  WordsInv'
  <1> USE DEF WordsInv, WordsFillBlocks
  <1>1. /\ job' = job /\ rawKey' = rawKey /\ rawString' = rawString /\ encoded' = encoded
        /\ at' = at /\ step' = step /\ reg' = reg /\ old' = old /\ at = 0
    BY DEF BeginHash, input
  <1>2. /\ stage' = FirstStage /\ bkey' = Rstr2binl(rawKey)
        /\ padded' = Message(FirstStage, Rstr2binl(rawKey), <<>>)
    BY DEF BeginHash
  <1>3. FirstStage \in {"plain", "key", "inner"}
    BY DEF FirstStage
  <1>4. bkey' \in Seq(Words)
    BY <1>2, Rstr2binlMakesWords
  <1>5. IsBlocks(padded')
    <2>1. <<>> \in Seq(Words) /\ Rstr2binl(rawKey) \in Seq(Words)
      BY <1>2, <1>4
    <2>2. FirstStage \in {"plain", "key", "inner", "outer"}
      BY <1>3
    <2>3. rawKey \in Seq(Bytes) /\ rawString \in Seq(Bytes)
      OBVIOUS
    <2> HIDE DEF WordsInv, WordsFillBlocks
    <2> QED
      BY <1>2, <2>1, <2>2, <2>3, MessageFillsBlocks
  <1>6. at' + 16 <= Len(padded') /\ Len(padded') % 16 = 0 /\ padded' \in Seq(Words)
    BY <1>1, <1>5, SMT DEF IsBlocks
  <1>7. /\ stage' = "plain" => padded' = Padded(Rstr2binl(rawString'), 8 * Len(rawString'))
        /\ stage' = "key" => padded' = Padded(Rstr2binl(rawKey'), 8 * Len(rawKey'))
    BY <1>1, <1>2 DEF Message
  <1> QED
    BY <1>1, <1>2, <1>3, <1>4, <1>6, <1>7, Zenon

LEMMA OperateInv ==
    ASSUME WordsInv, Operate
    PROVE  WordsInv'
  <1> USE DEF WordsInv, WordsFillBlocks
  <1>1. /\ job' = job /\ rawKey' = rawKey /\ rawString' = rawString /\ encoded' = encoded
        /\ stage' = stage /\ padded' = padded /\ at' = at /\ old' = old /\ bkey' = bkey
        /\ stage # "encode" /\ step < 64 /\ step' = step + 1
    BY DEF Operate, input
  <1>2. step \in 0 .. 63 /\ step' \in 0 .. 64
    BY <1>1, SMT
  <1> DEFINE w == padded[at + Input(step) + 1]
             t == Word(Constants[step + 1])
             q == Mixed(step, reg[2], reg[3], reg[4])
             new == Md5cmn(q, reg[1], reg[2], w, Rotation(step), t)
  <1>3. reg[1] \in Words /\ reg[2] \in Words /\ reg[3] \in Words /\ reg[4] \in Words
    BY SMT
  <1>4. w \in Words
    <2>1. Input(step) \in 0 .. 15
      BY <1>2, OperationTables
    <2>2. at + Input(step) + 1 \in 1 .. Len(padded)
      <3> DEFINE n == Len(padded)
      <3>1. padded \in Seq(Words) /\ at \in Nat /\ at + 16 <= n
        BY <1>1, Zenon
      <3> HIDE DEF WordsInv, WordsFillBlocks
      <3>2. n \in Nat
        BY <3>1
      <3> HIDE DEF n
      <3>3. at + Input(step) + 1 \in 1 .. n
        BY <2>1, <3>1, <3>2, SMT
      <3> QED
        BY <3>3 DEF n
    <2> QED
      BY <2>2
  <1>5. t \in Words
    BY <1>2, OperationTables, WordOfNumber
  <1>6. q \in Words
    BY <1>2, <1>3, MixedMakesWord
  <1>7. Rotation(step) \in 0 .. 31
    BY <1>2, OperationTables
  <1>8. new \in Words
    <2> HIDE DEF w, t, q
    <2> QED
      BY <1>3, <1>4, <1>5, <1>6, <1>7, OperationMakesWord
  <1>9. reg' = <<reg[4], new, reg[2], reg[3]>>
    BY DEF Operate
  <1>10. reg' \in [1 .. 4 -> Words]
    <2> HIDE DEF new
    <2> QED
      BY <1>3, <1>8, <1>9, SMT
  <1> QED
    BY <1>1, <1>2, <1>10, Zenon

LEMMA NextBlockInv ==
    ASSUME WordsInv, NextBlock
    PROVE  WordsInv'
  <1> USE DEF WordsInv, WordsFillBlocks
  <1>1. /\ job' = job /\ rawKey' = rawKey /\ rawString' = rawString /\ encoded' = encoded
        /\ stage' = stage /\ padded' = padded /\ bkey' = bkey /\ stage # "encode"
        /\ at + 16 < Len(padded) /\ at' = at + 16 /\ step' = 0 /\ reg' = Sum /\ old' = Sum
    BY DEF NextBlock, input
  <1>2. reg' \in [1 .. 4 -> Words] /\ old' \in [1 .. 4 -> Words]
    BY <1>1, SumIsWords
  <1>3. at' \in Nat /\ at' % 16 = 0 /\ step' \in 0 .. 64
    BY <1>1, SMT
  <1>4. at' + 16 <= Len(padded')
    <2> DEFINE n == Len(padded)
    <2>1. padded \in Seq(Words) /\ n % 16 = 0 /\ at + 16 < n
      BY <1>1, Zenon
    <2>2. at \in Nat /\ at % 16 = 0
      OBVIOUS
    <2> HIDE DEF WordsInv, WordsFillBlocks
    <2>3. n \in Nat
      BY <2>1
    <2> HIDE DEF n
    <2>4. at + 32 <= n
      BY <2>1, <2>2, <2>3, SMT
    <2> QED
      BY <1>1, <2>2, <2>4, SMT DEF n
  <1> QED
    BY <1>1, <1>2, <1>3, <1>4, Zenon

LEMMA EndInv ==
    ASSUME WordsInv, EndHash
    PROVE  WordsInv'
  <1> USE DEF WordsInv, WordsFillBlocks
  <1>1. /\ job' = job /\ rawKey' = rawKey /\ rawString' = rawString /\ encoded' = encoded
        /\ stage' = AfterStage /\ stage \notin {"encode", "done"}
        /\ bkey' = IF stage = "key" THEN Sum ELSE bkey
    BY DEF EndHash, input
  <1>2. AfterStage \in {"inner", "outer", "done"}
    <2>1. stage \in {"key", "inner", "outer", "plain"}
      BY <1>1
    <2> QED
      BY <2>1, SMT DEF AfterStage
  <1>3. Sum \in [1 .. 4 -> Words] /\ Sum \in Seq(Words)
    BY SumIsWords
  <1>4. bkey' \in Seq(Words)
    BY <1>1, <1>3
  <1>5. CASE AfterStage = "done"
    <2>1. reg' = Sum /\ padded' = padded /\ at' = at /\ step' = step /\ old' = old
      BY <1>5 DEF EndHash
    <2> QED
      BY <1>1, <1>3, <1>4, <1>5, <2>1, Zenon
  <1>6. CASE AfterStage # "done"
    <2>1. /\ padded' = Message(AfterStage, bkey', Sum)
          /\ at' = 0 /\ step' = 0 /\ reg' = Start /\ old' = Start
      BY <1>6 DEF EndHash
    <2>2. IsBlocks(padded')
      BY <1>2, <1>3, <1>4, <1>6, <2>1, MessageFillsBlocks
    <2>3. /\ padded' \in Seq(Words) /\ at' + 16 <= Len(padded') /\ Len(padded') % 16 = 0
          /\ at' \in Nat /\ at' % 16 = 0 /\ step' \in 0 .. 64
      BY <2>1, <2>2, SMT DEF IsBlocks
    <2>4. reg' \in [1 .. 4 -> Words] /\ old' \in [1 .. 4 -> Words]
      BY <2>1, StartIsWords
    <2>5. stage' # "encode" /\ stage' # "plain" /\ stage' # "key"
      BY <1>1, <1>2
    <2> QED
      BY <1>1, <1>2, <1>4, <2>3, <2>4, <2>5, Zenon
  <1> QED
    BY <1>5, <1>6

LEMMA Md5NextInv == WordsInv /\ [Md5Next]_md5Vars => WordsInv'
  <1> SUFFICES ASSUME WordsInv, [Md5Next]_md5Vars PROVE WordsInv'
    OBVIOUS
  <1>1. CASE Str2rstrUTF8
    BY <1>1, EncodeInv
  <1>2. CASE BeginHash
    BY <1>2, BeginInv
  <1>3. CASE Operate
    BY <1>3, OperateInv
  <1>4. CASE NextBlock
    BY <1>4, NextBlockInv
  <1>5. CASE EndHash
    BY <1>5, EndInv
  <1>6. CASE UNCHANGED md5Vars
    BY <1>6, Zenon DEF md5Vars, input, hash, WordsInv, WordsFillBlocks
  <1> QED
    BY <1>1, <1>2, <1>3, <1>4, <1>5, <1>6 DEF Md5Next

LEMMA SpecWords == Md5Spec => []WordsInv
  BY Md5InitInv, Md5NextInv, PTL DEF Md5Spec

\* At every step of every call the registers are words, the blocks fill the
\* padded words, and an operation finds its word in the block: each read of
\* x[i + k] in binlMD5 is of a word that the padding has put there.
THEOREM Md5StaysInWords == Md5Spec => []WordsFillBlocks
  <1>1. WordsInv => WordsFillBlocks
    BY DEF WordsInv
  <1> QED
    BY <1>1, SpecWords, PTL

-----------------------------------------------------------------------------
(* The bytes of a padded message *)

LEMMA SmallWords == Word(0) = <<0, 0>> /\ Word(128) = <<0, 128>>
  BY SMT DEF Word, Half

\* The 1 bit after the message, at the left end of the byte that follows it.
LEMMA MarkRotated ==
    /\ BitRotateLeft(<<0, 128>>, 0) = <<0, 128>>
    /\ BitRotateLeft(<<0, 128>>, 8) = <<0, 32768>>
    /\ BitRotateLeft(<<0, 128>>, 16) = <<128, 0>>
    /\ BitRotateLeft(<<0, 128>>, 24) = <<32768, 0>>
  <1>1. /\ 0 % 16 = 0 /\ 8 % 16 = 8 /\ 16 % 16 = 0 /\ 24 % 16 = 8
        /\ 2 ^ 0 = 1 /\ 2 ^ 8 = 256
        /\ 0 < 16 /\ 8 < 16 /\ ~(16 < 16) /\ ~(24 < 16)
    BY SMT
  <1>2. /\ ((0 * 1) % Half) + (128 * 1) \div Half = 0
        /\ ((128 * 1) % Half) + (0 * 1) \div Half = 128
        /\ ((0 * 256) % Half) + (128 * 256) \div Half = 0
        /\ ((128 * 256) % Half) + (0 * 256) \div Half = 32768
    BY SMT DEF Half
  <1> QED
    BY <1>1, <1>2, SMT DEF BitRotateLeft

\* The word of four bytes, and the one that rstr2binl and the padding make of those
\* of a string from 4 * j + 1 on
FromBytes(a, b, c, d) == <<256 * d + c, 256 * b + a>>

WordAt(s, j) ==
    FromBytes(ByteAt(s, 4 * j + 1), ByteAt(s, 4 * j + 2), ByteAt(s, 4 * j + 3),
              ByteAt(s, 4 * j + 4))

LEMMA WordsAre ==
    ASSUME NEW s \in Seq(Bytes), NEW j \in Nat
    PROVE  (IF j < Len(Rstr2binl(s)) THEN Rstr2binl(s)[j + 1] ELSE Word(0)) = WordAt(s, j)
  <1> DEFINE n == Len(s)
  <1>1. Len(Rstr2binl(s)) = (n + 3) \div 4 /\ n \in Nat
    BY Rstr2binlMakesWords
  <1>2. CASE j < (n + 3) \div 4
    <2>1. j + 1 \in 1 .. (n + 3) \div 4
      BY <1>1, <1>2, SMT
    <2>2. Rstr2binl(s)[j + 1] =
            <<256 * ByteAt(s, 4 * (j + 1)) + ByteAt(s, 4 * (j + 1) - 1),
              256 * ByteAt(s, 4 * (j + 1) - 2) + ByteAt(s, 4 * (j + 1) - 3)>>
      BY <2>1 DEF Rstr2binl
    <2>3. /\ 4 * (j + 1) = 4 * j + 4 /\ 4 * (j + 1) - 1 = 4 * j + 3
          /\ 4 * (j + 1) - 2 = 4 * j + 2 /\ 4 * (j + 1) - 3 = 4 * j + 1
      BY SMT
    <2> QED
      BY <1>1, <1>2, <2>2, <2>3 DEF WordAt, FromBytes
  <1>3. CASE ~(j < (n + 3) \div 4)
    <2>1. 4 * j >= n
      <3> HIDE DEF n
      <3> QED
        BY <1>1, <1>3, SMT
    <2>2. \A i \in {1, 2, 3, 4} : ByteAt(s, 4 * j + i) = 0
      <3> TAKE i \in {1, 2, 3, 4}
      <3>1. 4 * j + i \notin 1 .. n
        <4> HIDE DEF n
        <4> QED
          BY <1>1, <2>1, SMT
      <3> QED
        BY <3>1 DEF ByteAt
    <2>3. WordAt(s, j) = <<0, 0>>
      BY <2>2, SMT DEF WordAt, FromBytes
    <2> QED
      BY <1>1, <1>3, <2>3, SmallWords
  <1> QED
    BY <1>2, <1>3

\* The bytes of a word, and of one that the padding marks.
LEMMA BytesOfWord ==
    ASSUME NEW a \in Bytes, NEW b \in Bytes, NEW c \in Bytes, NEW d \in Bytes,
           NEW r \in 0 .. 3
    PROVE  ByteOf(FromBytes(a, b, c, d), r) = <<a, b, c, d>>[r + 1]
  <1> DEFINE h == 256 * d + c
             l == 256 * b + a
  <1>1. h % 256 = c /\ h \div 256 = d /\ l % 256 = a /\ l \div 256 = b
    BY BytesMakeHalf
  <1> HIDE DEF h, l
  <1>2. ByteOf(<<h, l>>, r) = <<a, b, c, d>>[r + 1]
    <2>1. CASE r = 0
      BY <1>1, <2>1, SMT DEF ByteOf
    <2>2. CASE r = 1
      BY <1>1, <2>2, SMT DEF ByteOf
    <2>3. CASE r = 2
      BY <1>1, <2>3, SMT DEF ByteOf
    <2>4. CASE r = 3
      BY <1>1, <2>4, SMT DEF ByteOf
    <2> QED
      BY <2>1, <2>2, <2>3, <2>4, SMT
  <1> QED
    BY <1>2 DEF h, l, FromBytes

\* The word of the 1 bit: the bytes of the message before it stay, those after it are 0.
LEMMA MarkedWord ==
    ASSUME NEW a \in Bytes, NEW b \in Bytes, NEW c \in Bytes
    PROVE  /\ BitOr(FromBytes(0, 0, 0, 0), BitRotateLeft(Word(128), 0)) = FromBytes(128, 0, 0, 0)
           /\ BitOr(FromBytes(a, 0, 0, 0), BitRotateLeft(Word(128), 8)) = FromBytes(a, 128, 0, 0)
           /\ BitOr(FromBytes(a, b, 0, 0), BitRotateLeft(Word(128), 16)) = FromBytes(a, b, 128, 0)
           /\ BitOr(FromBytes(a, b, c, 0), BitRotateLeft(Word(128), 24)) = FromBytes(a, b, c, 128)
  <1>1. a \in Nat /\ a <= 255 /\ c \in Nat /\ c <= 255
    BY BytesAreNat
  <1> DEFINE l == 256 * b + a
  <1>2. 0 \in Halves /\ a \in Halves /\ c \in Halves /\ l \in Halves
    BY <1>1, BytesMakeHalf, NatsBelowHalf
  <1> HIDE DEF l
  <1>3. /\ OrHalf(0, 0) = 0 /\ OrHalf(l, 0) = l /\ OrHalf(0, 128) = 128
        /\ OrHalf(a, 32768) = a + 32768 /\ OrHalf(c, 32768) = c + 32768
    BY <1>1, <1>2, MarkedHalf
  <1>4. /\ BitOr(<<0, 0>>, <<0, 128>>) = <<0, 128>>
        /\ BitOr(<<0, a>>, <<0, 32768>>) = <<0, a + 32768>>
        /\ BitOr(<<0, l>>, <<128, 0>>) = <<128, l>>
        /\ BitOr(<<c, l>>, <<32768, 0>>) = <<c + 32768, l>>
    BY <1>3 DEF BitOr
  <1>5. /\ 256 * 0 + 0 = 0 /\ 256 * 0 + 128 = 128 /\ 256 * 0 + a = a /\ 256 * 0 + c = c
        /\ 256 * 128 + a = a + 32768 /\ 256 * 128 + c = c + 32768
    BY <1>1, SMT
  <1> QED
    BY <1>4, <1>5, SmallWords, MarkRotated DEF l, FromBytes

\* Byte k of a message, of the 1 bit after it, and of the zeros after that
MessageByte(s, k) == IF k = Len(s) + 1 THEN 128 ELSE ByteAt(s, k)

\* The word in which the message ends.
LEMMA MarkedBytes ==
    ASSUME NEW s \in Seq(Bytes), NEW j \in Nat, j = Len(s) \div 4, NEW r \in 0 .. 3
    PROVE  ByteOf(BitOr(WordAt(s, j), BitRotateLeft(Word(128), (8 * Len(s)) % 32)), r)
               = MessageByte(s, 4 * j + r + 1)
  <1> DEFINE n == Len(s)
             m == n % 4
             b(i) == ByteAt(s, 4 * j + i)
             word == BitOr(WordAt(s, j), BitRotateLeft(Word(128), (8 * n) % 32))
  <1>1. n \in Nat /\ j = n \div 4
    OBVIOUS
  <1>2. n = 4 * j + m /\ m \in 0 .. 3 /\ (8 * n) % 32 = 8 * m
    <2> HIDE DEF n
    <2> QED
      BY <1>1, SMT
  <1>3. \A i \in 1 .. 4 : b(i) \in Bytes /\ (i > m => b(i) = 0)
    <2> TAKE i \in 1 .. 4
    <2>1. 4 * j + i \in Int
      BY SMT
    <2>2. i > m => 4 * j + i \notin 1 .. n
      <3> HIDE DEF n, m
      <3> QED
        BY <1>1, <1>2, SMT
    <2> QED
      BY <2>1, <2>2, ByteAtIsByte DEF ByteAt
  <1>4. \A i \in 1 .. 4 : MessageByte(s, 4 * j + i) = IF i = m + 1 THEN 128 ELSE b(i)
    <2> TAKE i \in 1 .. 4
    <2>1. 4 * j + i = n + 1 <=> i = m + 1
      <3> HIDE DEF n, m
      <3> QED
        BY <1>1, <1>2, SMT
    <2> QED
      BY <2>1, Zenon DEF MessageByte
  <1>5. WordAt(s, j) = FromBytes(b(1), b(2), b(3), b(4))
    BY DEF WordAt
  <1>6. 0 \in Bytes /\ 128 \in Bytes
    BY SMT DEF Bytes
  <1>7. r + 1 \in 1 .. 4 /\ 4 * j + (r + 1) = 4 * j + r + 1
    BY SMT
  <1>8. ByteOf(word, r) = IF r + 1 = m + 1 THEN 128 ELSE b(r + 1)
    <2> HIDE DEF n, m, b
    <2>1. /\ b(1) \in Bytes /\ b(2) \in Bytes /\ b(3) \in Bytes /\ b(4) \in Bytes
          /\ (1 > m => b(1) = 0) /\ (2 > m => b(2) = 0)
          /\ (3 > m => b(3) = 0) /\ (4 > m => b(4) = 0)
      BY <1>3, SMT
    <2> DEFINE mark(k) == BitRotateLeft(Word(128), k)
    <2>2. /\ BitOr(FromBytes(0, 0, 0, 0), mark(0)) = FromBytes(128, 0, 0, 0)
          /\ BitOr(FromBytes(b(1), 0, 0, 0), mark(8)) = FromBytes(b(1), 128, 0, 0)
          /\ BitOr(FromBytes(b(1), b(2), 0, 0), mark(16)) = FromBytes(b(1), b(2), 128, 0)
          /\ BitOr(FromBytes(b(1), b(2), b(3), 0), mark(24)) = FromBytes(b(1), b(2), b(3), 128)
      BY <2>1, MarkedWord
    <2>3. word = BitOr(WordAt(s, j), mark((8 * n) % 32))
      OBVIOUS
    <2> HIDE DEF word, mark
    <2>4. CASE m = 0
      <3>1. WordAt(s, j) = FromBytes(0, 0, 0, 0) /\ (8 * n) % 32 = 0
        BY <1>2, <1>5, <2>1, <2>4, SMT
      <3>2. word = FromBytes(128, 0, 0, 0)
        BY <2>2, <2>3, <3>1, Zenon
      <3>3. ByteOf(word, r) = <<128, 0, 0, 0>>[r + 1]
        BY <1>6, <2>1, <3>2, BytesOfWord
      <3>4. <<128, 0, 0, 0>>[r + 1] = IF r + 1 = m + 1 THEN 128 ELSE b(r + 1)
        BY <2>1, <2>4, SMT
      <3> QED
        BY <3>3, <3>4
    <2>5. CASE m = 1
      <3>1. WordAt(s, j) = FromBytes(b(1), 0, 0, 0) /\ (8 * n) % 32 = 8
        BY <1>2, <1>5, <2>1, <2>5, SMT
      <3>2. word = FromBytes(b(1), 128, 0, 0)
        BY <2>2, <2>3, <3>1, Zenon
      <3>3. ByteOf(word, r) = <<b(1), 128, 0, 0>>[r + 1]
        BY <1>6, <2>1, <3>2, BytesOfWord
      <3>4. <<b(1), 128, 0, 0>>[r + 1] = IF r + 1 = m + 1 THEN 128 ELSE b(r + 1)
        BY <2>1, <2>5, SMT
      <3> QED
        BY <3>3, <3>4
    <2>6. CASE m = 2
      <3>1. WordAt(s, j) = FromBytes(b(1), b(2), 0, 0) /\ (8 * n) % 32 = 16
        BY <1>2, <1>5, <2>1, <2>6, SMT
      <3>2. word = FromBytes(b(1), b(2), 128, 0)
        BY <2>2, <2>3, <3>1, Zenon
      <3>3. ByteOf(word, r) = <<b(1), b(2), 128, 0>>[r + 1]
        BY <1>6, <2>1, <3>2, BytesOfWord
      <3>4. <<b(1), b(2), 128, 0>>[r + 1] = IF r + 1 = m + 1 THEN 128 ELSE b(r + 1)
        BY <2>1, <2>6, SMT
      <3> QED
        BY <3>3, <3>4
    <2>7. CASE m = 3
      <3>1. WordAt(s, j) = FromBytes(b(1), b(2), b(3), 0) /\ (8 * n) % 32 = 24
        BY <1>2, <1>5, <2>1, <2>7, SMT
      <3>2. word = FromBytes(b(1), b(2), b(3), 128)
        BY <2>2, <2>3, <3>1, Zenon
      <3>3. ByteOf(word, r) = <<b(1), b(2), b(3), 128>>[r + 1]
        BY <1>6, <2>1, <3>2, BytesOfWord
      <3>4. <<b(1), b(2), b(3), 128>>[r + 1] = IF r + 1 = m + 1 THEN 128 ELSE b(r + 1)
        BY <2>1, <2>7, SMT
      <3> QED
        BY <3>3, <3>4
    <2> QED
      BY <1>2, <2>4, <2>5, <2>6, <2>7, SMT
  <1>9. MessageByte(s, 4 * j + r + 1) = IF r + 1 = m + 1 THEN 128 ELSE b(r + 1)
    BY <1>4, <1>7
  <1> QED
    BY <1>8, <1>9

LEMMA ByteOfWordAt ==
    ASSUME NEW s \in Seq(Bytes), NEW j \in Nat, NEW r \in 0 .. 3
    PROVE  ByteOf(WordAt(s, j), r) = ByteAt(s, 4 * j + r + 1)
  <1> DEFINE b(i) == ByteAt(s, 4 * j + i)
  <1>1. \A i \in 1 .. 4 : b(i) \in Bytes
    <2>1. \A i \in 1 .. 4 : 4 * j + i \in Int
      BY SMT
    <2> QED
      BY <2>1, ByteAtIsByte
  <1>2. WordAt(s, j) = FromBytes(b(1), b(2), b(3), b(4))
    BY DEF WordAt
  <1>3. 4 * j + (r + 1) = 4 * j + r + 1
    BY SMT
  <1>4. ByteAt(s, 4 * j + r + 1) = b(r + 1)
    BY <1>3
  <1> HIDE DEF b
  <1>5. b(1) \in Bytes /\ b(2) \in Bytes /\ b(3) \in Bytes /\ b(4) \in Bytes
    BY <1>1, SMT
  <1>6. ByteOf(WordAt(s, j), r) = <<b(1), b(2), b(3), b(4)>>[r + 1]
    BY <1>2, <1>5, BytesOfWord
  <1>7. <<b(1), b(2), b(3), b(4)>>[r + 1] = b(r + 1)
    BY <1>5, SMT
  <1> QED
    BY <1>4, <1>6, <1>7

\* The bytes of what rstrMD5 hashes, for a message of any length.
LEMMA PaddedBytes ==
    ASSUME NEW s \in Seq(Bytes)
    PROVE  LET n == Len(s)
               bytes == Binl2rstr(Padded(Rstr2binl(s), 8 * n))
               bits == Binl2rstr(<<Word(8 * n), Word(0)>>)
           IN  /\ Len(bytes) % 64 = 0
               /\ Len(bytes) \in n + 9 .. n + 72
               /\ \A k \in DOMAIN bytes :
                     bytes[k] = IF k <= n THEN s[k]
                                ELSE IF k = n + 1 THEN 128
                                ELSE IF k <= Len(bytes) - 8 THEN 0
                                ELSE bits[k - (Len(bytes) - 8)]
  <1> DEFINE n == Len(s)
             words == Rstr2binl(s)
             p == Padded(words, 8 * n)
             bytes == Binl2rstr(p)
             bits == Binl2rstr(<<Word(8 * n), Word(0)>>)
             q == (8 * n + 64) \div 512
             final == q * 16 + 14
             There(j) == IF j < Len(words) THEN words[j + 1] ELSE Word(0)
             Marked(j) == IF j = (8 * n) \div 32
                          THEN BitOr(There(j), BitRotateLeft(Word(128), (8 * n) % 32))
                          ELSE There(j)
             word(j) == IF j = final THEN Word(8 * n) ELSE Marked(j)
  <1>1. n \in Nat /\ 8 * n \in Nat /\ words \in Seq(Words)
    <2>1. n \in Nat
      OBVIOUS
    <2> HIDE DEF n
    <2>2. 8 * n \in Nat
      BY <2>1, SMT
    <2> QED
      BY <2>1, <2>2, Rstr2binlMakesWords
  <1>2. /\ q \in Nat /\ 64 * q <= n + 8 /\ n + 8 <= 64 * q + 63
        /\ (8 * n) \div 32 = n \div 4
    <2> HIDE DEF n
    <2> QED
      BY <1>1, SMT
  <1>3. p \in Seq(Words) /\ Len(p) = q * 16 + 16
    BY <1>1, PaddedMakesBlocks
  <1>4. p = [k \in 1 .. final + 2 |-> word(k - 1)]
    BY DEF Padded
  <1>5. Len(bytes) = 64 * q + 64 /\ DOMAIN bytes = 1 .. 64 * q + 64
    <2>1. bytes = [k \in 1 .. 4 * Len(p) |-> ByteOf(p[1 + (k - 1) \div 4], (k - 1) % 4)]
      BY DEF Binl2rstr
    <2>2. 4 * Len(p) = 64 * q + 64 /\ 4 * Len(p) \in Nat
      <3> HIDE DEF p, q
      <3> QED
        BY <1>2, <1>3, SMT
    <2> HIDE DEF bytes, p, q
    <2> QED
      BY <2>1, <2>2
  <1>6. ASSUME NEW k \in 1 .. 64 * q + 64
        PROVE  bytes[k] = IF k <= n THEN s[k]
                          ELSE IF k = n + 1 THEN 128
                          ELSE IF k <= 64 * q + 56 THEN 0
                          ELSE bits[k - (64 * q + 56)]
    <2> DEFINE j == (k - 1) \div 4
               r == (k - 1) % 4
    <2>1. /\ j \in Nat /\ r \in 0 .. 3 /\ k = 4 * j + r + 1 /\ j <= 16 * q + 15
          /\ k \in Int
      <3> HIDE DEF q
      <3> QED
        BY <1>2, SMT
    <2>2. bytes[k] = ByteOf(word(j), r)
      <3>1. bytes[k] = ByteOf(p[1 + j], r)
        <4>1. 1 .. 4 * Len(p) = 1 .. 64 * q + 64
          <5> HIDE DEF p, q
          <5> QED
            BY <1>2, <1>3, SMT
        <4> QED
          BY <4>1 DEF Binl2rstr
      <3>2. 1 + j \in 1 .. final + 2 /\ (1 + j) - 1 = j
        <4> HIDE DEF q, j
        <4> QED
          BY <1>2, <2>1, SMT
      <3>3. p[1 + j] = word(j)
        <4> HIDE DEF p, word, final, j
        <4> QED
          BY <1>4, <3>2
      <3> QED
        BY <3>1, <3>3
    <2>3. There(j) = WordAt(s, j)
      BY <2>1, WordsAre
    <2>4. k = n + 1 => j = n \div 4
      <3> HIDE DEF n, j, r
      <3> QED
        BY <1>1, <2>1, SMT
    <2>5. ByteAt(s, k) = IF k <= n THEN s[k] ELSE 0
      <3>1. k >= 1
        <4> HIDE DEF q
        <4> QED
          BY <1>2, SMT
      <3>2. k \in 1 .. n <=> k <= n
        <4> HIDE DEF n
        <4> QED
          BY <1>1, <2>1, <3>1, SMT
      <3> QED
        BY <3>2 DEF ByteAt
    <2>6. \A i \in 1 .. 8 :
             bits[i] = ByteOf(<<Word(8 * n), Word(0)>>[1 + (i - 1) \div 4], (i - 1) % 4)
      BY SMT DEF Binl2rstr
    <2>7. \A i \in 0 .. 3 : ByteOf(Word(0), i) = 0
      BY SmallWords, SMT DEF ByteOf
    <2> DEFINE e == k - (64 * q + 56)
    <2>8. CASE j = n \div 4
      <3>1. j # final /\ k <= 64 * q + 56
        <4> HIDE DEF n, q, j, r
        <4> QED
          BY <1>1, <1>2, <2>1, <2>8, SMT
      <3>2. bytes[k] = ByteOf(BitOr(WordAt(s, j), BitRotateLeft(Word(128), (8 * n) % 32)), r)
        <4> HIDE DEF There, n, j, r, bytes, final
        <4> QED
          BY <1>2, <2>2, <2>3, <2>8, <3>1
      <3>3. bytes[k] = MessageByte(s, k)
        <4> HIDE DEF bytes, r
        <4> QED
          BY <2>1, <2>8, <3>2, MarkedBytes
      <3>4. k = n + 1 => ~(k <= n)
        <4> HIDE DEF n
        <4> QED
          BY <1>1, SMT
      <3> HIDE DEF bytes, bits, q
      <3> QED
        BY <2>5, <3>1, <3>3, <3>4 DEF MessageByte
    <2>9. CASE j # n \div 4 /\ j # final /\ k <= 64 * q + 56
      <3>1. bytes[k] = ByteOf(WordAt(s, j), r)
        <4> HIDE DEF There, n, j, r, bytes, final
        <4> QED
          BY <1>2, <2>2, <2>3, <2>9
      <3>2. bytes[k] = ByteAt(s, k)
        <4> HIDE DEF bytes, j, r
        <4> QED
          BY <2>1, <3>1, ByteOfWordAt
      <3> HIDE DEF bytes, bits, q, n, j
      <3> QED
        BY <2>4, <2>5, <2>9, <3>2
    <2>10. CASE j = final
      <3>1. /\ e = r + 1 /\ e \in 1 .. 8 /\ (e - 1) \div 4 = 0 /\ (e - 1) % 4 = r
            /\ ~(k <= n) /\ k # n + 1 /\ ~(k <= 64 * q + 56)
        <4> HIDE DEF n, q, j, r
        <4> QED
          BY <1>1, <1>2, <2>1, <2>10, SMT
      <3>2. bits[e] = ByteOf(Word(8 * n), r)
        <4> HIDE DEF bits, e, r, n
        <4> QED
          BY <2>6, <3>1
      <3>3. bytes[k] = ByteOf(Word(8 * n), r)
        <4> HIDE DEF bytes, final, Marked, r, n, j
        <4> QED
          BY <2>2, <2>10
      <3> HIDE DEF bytes, bits, q, n
      <3> QED
        BY <3>1, <3>2, <3>3
    <2>11. CASE j # final /\ ~(k <= 64 * q + 56)
      <3>1. /\ e = r + 5 /\ e \in 1 .. 8 /\ (e - 1) \div 4 = 1 /\ (e - 1) % 4 = r
            /\ ~(k <= n) /\ k # n + 1 /\ j # n \div 4
        <4> HIDE DEF n, q, j, r
        <4> QED
          BY <1>1, <1>2, <2>1, <2>11, SMT
      <3>2. bits[e] = ByteOf(Word(0), r)
        <4> DEFINE pair == <<Word(8 * n), Word(0)>>
        <4>1. pair[1 + 1] = Word(0)
          BY SMT
        <4> HIDE DEF pair, bits, e, r, n
        <4>2. bits[e] = ByteOf(pair[1 + (e - 1) \div 4], (e - 1) % 4)
          BY <2>6, <3>1 DEF pair
        <4> QED
          BY <3>1, <4>1, <4>2
      <3>3. bytes[k] = ByteOf(WordAt(s, j), r)
        <4> HIDE DEF There, n, j, r, bytes, final
        <4> QED
          BY <1>2, <2>2, <2>3, <2>11, <3>1
      <3>4. bytes[k] = ByteAt(s, k)
        <4> HIDE DEF bytes, j, r
        <4> QED
          BY <2>1, <3>3, ByteOfWordAt
      <3> HIDE DEF bytes, bits, q, n, r
      <3> QED
        BY <2>1, <2>5, <2>7, <2>11, <3>1, <3>2, <3>4
    <2> HIDE DEF j, final, bytes, bits, q, n
    <2> QED
      BY <2>8, <2>9, <2>10, <2>11
  <1>7. (64 * q + 64) % 64 = 0 /\ 64 * q + 64 \in n + 9 .. n + 72 /\ (64 * q + 64) - 8 = 64 * q + 56
    <2> HIDE DEF n, q
    <2> QED
      BY <1>1, <1>2, SMT
  <1>8. \A k \in DOMAIN bytes :
           bytes[k] = IF k <= n THEN s[k]
                      ELSE IF k = n + 1 THEN 128
                      ELSE IF k <= Len(bytes) - 8 THEN 0
                      ELSE bits[k - (Len(bytes) - 8)]
    <2> HIDE DEF bytes, bits, n, q
    <2> QED
      BY <1>5, <1>6, <1>7
  <1> HIDE DEF q
  <1>9. Len(bytes) % 64 = 0 /\ Len(bytes) \in n + 9 .. n + 72
    <2> HIDE DEF bytes, n
    <2> QED
      BY <1>5, <1>7
  <1> QED
    BY <1>8, <1>9, Zenon

\* What the padding leaves of a message, for messages of any length: its bytes, the 1
\* bit after them and, in the last eight bytes of the last block, its length in bits.
THEOREM PaddingIsRight == Md5Spec => []PaddingFillsBlocks
  <1>1. WordsInv => PaddingFillsBlocks
    <2> SUFFICES ASSUME WordsInv PROVE PaddingFillsBlocks
      OBVIOUS
    <2>1. CASE stage = "plain"
      <3>1. padded = Padded(Rstr2binl(rawString), 8 * Len(rawString)) /\ rawString \in Seq(Bytes)
        BY <2>1 DEF WordsInv, WordsFillBlocks
      <3> QED
        BY <2>1, <3>1, PaddedBytes, Zenon DEF PaddingFillsBlocks
    <2>2. CASE stage = "key"
      <3>1. padded = Padded(Rstr2binl(rawKey), 8 * Len(rawKey)) /\ rawKey \in Seq(Bytes)
        BY <2>2 DEF WordsInv, WordsFillBlocks
      <3>2. stage # "plain"
        BY <2>2
      <3> QED
        BY <2>2, <3>1, <3>2, PaddedBytes, Zenon DEF PaddingFillsBlocks
    <2>3. CASE stage \notin {"plain", "key"}
      BY <2>3, Zenon DEF PaddingFillsBlocks
    <2> QED
      BY <2>1, <2>2, <2>3
  <1> QED
    BY <1>1, SpecWords, PTL
=============================================================================
