-------------------------- MODULE AdminMenu_proofs --------------------------
(***************************************************************************)
(* Proofs about AdminMenu, for every set of windows and every menu of two  *)
(* levels.                                                                 *)
(***************************************************************************)
EXTENDS AdminMenu, TLAPS

Pages ==
    [opened : SUBSET Tops, visible : SUBSET Tops, active : Items \cup {Null},
     nav : {"wide", "shrinking", "narrow", "growing"}, cover : BOOLEAN,
     cate : [f1 : Tops \cup {Null}, f2 : Subs \cup {Null}]]

\* What cate says was clicked last
Latest(c) == IF c.f2 # Null THEN c.f2 ELSE c.f1

-----------------------------------------------------------------------------
(* One click, and the clicks of end *)

LEMMA StoredIs ==
    ASSUME NEW c \in [f1 : Tops \cup {Null}, f2 : Subs \cup {Null}], NEW i \in Items
    PROVE  /\ Stored(c, i) \in [f1 : Tops \cup {Null}, f2 : Subs \cup {Null}]
           /\ Latest(Stored(c, i)) = i
           /\ i \in Tops => Stored(c, i) = [f1 |-> i, f2 |-> Null]
           /\ i \in Subs => Stored(c, i) = [f1 |-> c.f1, f2 |-> i]
  BY TwoLevels, NullIsNoItem DEF Stored, Latest, Items

\* What a click makes of the page p
ClickMade(p, i, small, q) ==
    /\ q.opened = Toggled(p.opened, i)
    /\ q.active = i
    /\ q.cate = Stored(p.cate, i)
    /\ q.nav = IF p.nav = "narrow" THEN "growing" ELSE p.nav
    /\ q.cover = (p.cover \/ small)

LEMMA ClickedIs ==
    ASSUME NEW p \in Pages, NEW i \in Items, NEW small \in BOOLEAN
    PROVE  /\ Clicked(p, i, small) \in Pages
           /\ ClickMade(p, i, small, Clicked(p, i, small))
  <1>1. Toggled(p.opened, i) \in SUBSET Tops
    BY DEF Toggled, Pages, Items
  <1>2. Stored(p.cate, i) \in [f1 : Tops \cup {Null}, f2 : Subs \cup {Null}]
    BY StoredIs DEF Pages
  <1> QED
    BY <1>1, <1>2 DEF Clicked, ClickMade, Pages

\* Shrinking closes the sub-menu that is open, whichever it is.
LEMMA CollapsedIs ==
    ASSUME NEW p \in Pages, NEW small \in BOOLEAN
    PROVE  /\ Collapsed(p, small) \in Pages
           /\ Collapsed(p, small).opened = {}
           /\ Collapsed(p, small).cover = FALSE
           /\ p.opened = {} => Collapsed(p, small).cate = p.cate
           /\ p.opened # {} =>
                  Collapsed(p, small).cate = Stored(p.cate, CHOOSE t \in p.opened : TRUE)
  <1> DEFINE t == CHOOSE u \in p.opened : TRUE
  <1>1. CASE p.opened = {}
    BY <1>1 DEF Collapsed, Pages
  <1>2. CASE p.opened # {}
    <2>1. t \in p.opened /\ t \in Tops /\ t \in Items /\ t \notin Subs
      BY <1>2, TwoLevels DEF Pages, Items
    <2>2. /\ Clicked(p, t, small) \in Pages
          /\ Clicked(p, t, small).opened = Toggled(p.opened, t)
          /\ Clicked(p, t, small).cate = Stored(p.cate, t)
      BY <2>1, ClickedIs DEF ClickMade
    <2>3. Toggled(p.opened, t) = {}
      BY <2>1 DEF Toggled
    <2>4. Collapsed(p, small) = [Clicked(p, t, small) EXCEPT !.nav = "shrinking", !.cover = FALSE]
      BY <1>2 DEF Collapsed
    <2> HIDE DEF t
    <2>5. /\ Collapsed(p, small) \in Pages /\ Collapsed(p, small).opened = {}
          /\ Collapsed(p, small).cover = FALSE
          /\ Collapsed(p, small).cate = Stored(p.cate, t)
      BY <2>2, <2>3, <2>4 DEF Pages
    <2> QED
      BY <1>2, <2>5 DEF t
  <1> QED
    BY <1>1, <1>2

\* end clicks what the table names, and the table is the same afterwards.
LEMMA EndIs ==
    ASSUME NEW p \in Pages, p.opened = {}, p.active = Null, p.nav \in {"wide", "narrow"},
           NEW small \in BOOLEAN
    PROVE  /\ End(p, p.cate, small) \in Pages
           /\ End(p, p.cate, small).cate = p.cate
           /\ End(p, p.cate, small).active = Latest(p.cate)
           /\ End(p, p.cate, small).opened = {p.cate.f1} \ {Null}
           /\ End(p, p.cate, small).cover => p.cover \/ small
           /\ End(p, p.cate, small).nav \in {"shrinking", "narrow"}
                  => End(p, p.cate, small).opened = {}
  <1> DEFINE c == p.cate
             first == IF c.f1 = Null THEN p ELSE Clicked(p, c.f1, small)
  <1>1. /\ c \in [f1 : Tops \cup {Null}, f2 : Subs \cup {Null}]
        /\ c.f1 \in Tops \cup {Null} /\ c.f2 \in Subs \cup {Null}
    BY DEF Pages
  <1>2. /\ first \in Pages
        /\ first.opened = {c.f1} \ {Null}
        /\ first.active = c.f1
        /\ first.cate.f1 = c.f1
        /\ c.f2 = Null => first.cate = c
        /\ first.cover => p.cover \/ small
        /\ first.nav \in {"shrinking", "narrow"} => first.opened = {}
        /\ first.nav \in {"wide", "narrow", "growing"}
    <2>1. CASE c.f1 = Null
      BY <2>1
    <2>2. CASE c.f1 # Null
      <3>1. c.f1 \in Tops /\ c.f1 \in Items /\ c.f1 \notin Subs
        BY <1>1, <2>2, TwoLevels DEF Items
      <3>2. Stored(c, c.f1) = [f1 |-> c.f1, f2 |-> Null]
        BY <1>1, <3>1, StoredIs
      <3>3. Toggled(p.opened, c.f1) = {c.f1} \ {Null}
        BY <2>2, <3>1 DEF Toggled
      <3>4. first = Clicked(p, c.f1, small)
        BY <2>2
      <3>5. c.f2 = Null => c = [f1 |-> c.f1, f2 |-> Null]
        BY <1>1
      <3> HIDE DEF c
      <3>6. Clicked(p, c.f1, small) \in Pages /\ ClickMade(p, c.f1, small, Clicked(p, c.f1, small))
        BY <3>1, ClickedIs
      <3>7. Stored(p.cate, c.f1) = [f1 |-> c.f1, f2 |-> Null]
        BY <3>2 DEF c
      <3> HIDE DEF first
      <3> QED
        BY <3>3, <3>4, <3>5, <3>6, <3>7 DEF ClickMade
    <2> QED
      BY <2>1, <2>2
  <1>3. End(p, c, small) = IF c.f2 = Null THEN first ELSE Clicked(first, c.f2, small)
    BY DEF End
  <1> HIDE DEF first
  <1>4. CASE c.f2 = Null
    BY <1>2, <1>3, <1>4 DEF Latest
  <1>5. CASE c.f2 # Null
    <2>1. c.f2 \in Subs /\ c.f2 \in Items
      BY <1>1, <1>5 DEF Items
    <2>2. first.cate \in [f1 : Tops \cup {Null}, f2 : Subs \cup {Null}]
      BY <1>2 DEF Pages
    <2>3. Stored(first.cate, c.f2) = c
      BY <1>1, <1>2, <2>1, <2>2, StoredIs
    <2>4. Toggled(first.opened, c.f2) = first.opened
      BY <2>1 DEF Toggled
    <2>5. /\ Clicked(first, c.f2, small) \in Pages
          /\ Clicked(first, c.f2, small).opened = first.opened
          /\ Clicked(first, c.f2, small).active = c.f2
          /\ Clicked(first, c.f2, small).cate = c
          /\ Clicked(first, c.f2, small).nav = IF first.nav = "narrow" THEN "growing" ELSE first.nav
          /\ Clicked(first, c.f2, small).cover = (first.cover \/ small)
      <3>1. first \in Pages
        BY <1>2
      <3>2. Clicked(first, c.f2, small) \in Pages
            /\ ClickMade(first, c.f2, small, Clicked(first, c.f2, small))
        <4> HIDE DEF c
        <4> QED
          BY <2>1, <3>1, ClickedIs
      <3> QED
        BY <2>3, <2>4, <3>2 DEF ClickMade
    <2> QED
      BY <1>2, <1>3, <1>5, <2>5 DEF Latest
  <1> QED
    BY <1>4, <1>5

-----------------------------------------------------------------------------
(* The invariant *)

\* A menu that is narrow, or on its way there, has no sub-menu open.
NarrowingIsClosed ==
    \A w \in Windows \ late : nav[w] \in {"shrinking", "narrow"} => opened[w] = {}

Inv == TypeOK /\ MemoryIsLastClick /\ NarrowingIsClosed

LEMMA PageType == TypeOK => \A w \in Windows : Page(w) \in Pages /\ FreshPage(w) \in Pages
  BY DEF TypeOK, Page, FreshPage, Pages, Resting, Items

\* What an action that writes one page has to establish.
LEMMA PageStep ==
    ASSUME Inv, NEW w \in Windows, NEW p \in Pages, Becomes(w, p),
           p.cover => w \in Small,
           alive' \in SUBSET Windows, late' \in SUBSET Windows,
           late \subseteq late' \cup {w},
           last' = Latest(p.cate),
           w \notin late' => (p.nav \in {"shrinking", "narrow"} => p.opened = {})
    PROVE  Inv'
  <1>1. last' \in Items \cup {Null}
    BY DEF Latest, Pages, Items
  <1>2. TypeOK'
    BY <1>1 DEF Inv, TypeOK, Becomes, Pages
  <1>3. MemoryIsLastClick'
    BY DEF MemoryIsLastClick, Becomes, Latest
  <1>4. NarrowingIsClosed'
    BY DEF NarrowingIsClosed, Inv, TypeOK, Becomes
  <1> QED
    BY <1>2, <1>3, <1>4 DEF Inv

LEMMA ClickInv ==
    ASSUME Inv, NEW w \in Windows, NEW i \in Items, Click(w, i)
    PROVE  Inv'
  <1> DEFINE q == Page(w)
             small == w \in Small
             p == Clicked(q, i, small)
  <1>1. q \in Pages /\ small \in BOOLEAN
    BY PageType DEF Inv
  <1>2. /\ p \in Pages /\ p.opened = Toggled(q.opened, i)
        /\ p.cate = Stored(q.cate, i)
        /\ p.nav = IF q.nav = "narrow" THEN "growing" ELSE q.nav
        /\ p.cover = (q.cover \/ small)
    <2> HIDE DEF q, small
    <2> QED
      BY <1>1, ClickedIs DEF ClickMade
  <1>3. Latest(p.cate) = i
    BY <1>1, <1>2, StoredIs DEF Pages
  <1>4. p.cover => w \in Small
    BY <1>2 DEF Inv, TypeOK, Page
  <1>5. Becomes(w, p) /\ last' = i /\ alive' = alive
        /\ late' = IF nav[w] = "shrinking" THEN late \cup {w} ELSE late
    BY DEF Click
  <1>6. p.nav \in {"shrinking", "narrow"} => w \in late'
    BY <1>2, <1>5 DEF Page
  <1> HIDE DEF p
  <1> QED
    BY <1>2, <1>3, <1>4, <1>5, <1>6, PageStep DEF Inv, TypeOK

LEMMA CollapseInv ==
    ASSUME Inv, NEW w \in Windows, Collapse(w)
    PROVE  Inv'
  <1> DEFINE p == Collapsed(Page(w), w \in Small)
  <1>1. Page(w) \in Pages /\ (w \in Small) \in BOOLEAN
    BY PageType DEF Inv
  <1>2. /\ p \in Pages /\ p.opened = {} /\ p.cover = FALSE
        /\ Page(w).opened = {} => p.cate = Page(w).cate
        /\ Page(w).opened # {} =>
               p.cate = Stored(Page(w).cate, CHOOSE t \in Page(w).opened : TRUE)
    BY <1>1, CollapsedIs
  <1>3. /\ Becomes(w, p) /\ alive' = alive /\ late' = late \ {w}
        /\ last' = IF opened[w] = {} THEN last ELSE CHOOSE t \in opened[w] : TRUE
    BY DEF Collapse
  <1>4. last' = Latest(p.cate)
    <2>1. CASE opened[w] = {}
      BY <1>2, <1>3, <2>1 DEF Page, Inv, MemoryIsLastClick, Latest
    <2>2. CASE opened[w] # {}
      <3> DEFINE t == CHOOSE u \in opened[w] : TRUE
      <3>1. t \in opened[w] /\ t \in Items
        BY <2>2 DEF Inv, TypeOK, Items
      <3>2. p.cate = Stored(cate, t) /\ last' = t
        BY <1>2, <1>3, <2>2 DEF Page
      <3> HIDE DEF t, p
      <3> QED
        BY <3>1, <3>2, StoredIs DEF Inv, TypeOK
    <2> QED
      BY <2>1, <2>2
  <1> HIDE DEF p
  <1> QED
    BY <1>2, <1>3, <1>4, PageStep DEF Inv, TypeOK

LEMMA LoadInv ==
    ASSUME Inv, NEW w \in Windows, Load(w)
    PROVE  /\ Inv'
           /\ cate' = cate
           /\ active'[w] = last
           /\ opened'[w] = {cate.f1} \ {Null}
  <1> DEFINE f == FreshPage(w)
             small == w \in Small
             p == End(f, f.cate, small)
  <1>1. /\ f \in Pages /\ f.opened = {} /\ f.active = Null /\ f.cate = cate
        /\ f.cover = FALSE /\ f.nav = Resting(w)
    BY PageType DEF Inv, FreshPage
  <1> HIDE DEF f
  <1>2. small \in BOOLEAN
    OBVIOUS
  <1>3. /\ p \in Pages /\ p.cate = cate /\ p.active = Latest(cate)
        /\ p.opened = {cate.f1} \ {Null}
        /\ p.cover => w \in Small
        /\ p.nav \in {"shrinking", "narrow"} => p.opened = {}
    <2>1. f.nav \in {"wide", "narrow"}
      BY <1>1 DEF Resting
    <2>2. /\ p \in Pages /\ p.cate = f.cate /\ p.active = Latest(f.cate)
          /\ p.opened = {f.cate.f1} \ {Null}
          /\ p.cover => f.cover \/ small
          /\ p.nav \in {"shrinking", "narrow"} => p.opened = {}
      <3> HIDE DEF small
      <3> QED
        BY <1>1, <1>2, <2>1, EndIs
    <2> HIDE DEF p
    <2> QED
      BY <1>1, <2>2
  <1>4. /\ Becomes(w, p) /\ alive' = alive \cup {w} /\ late' = late \ {w}
        /\ last' = Latest(cate)
    <2>1. Becomes(w, p)
      BY <1>1 DEF Load, f
    <2>2. last' = Latest(cate)
      BY DEF Load, Latest, Inv, MemoryIsLastClick
    <2> QED
      BY <2>1, <2>2 DEF Load
  <1> HIDE DEF p
  <1>5. Inv'
    BY <1>3, <1>4, PageStep DEF Inv, TypeOK
  <1>6. last = Latest(cate)
    BY DEF Inv, MemoryIsLastClick, Latest
  <1>7. cate' = cate /\ active'[w] = last /\ opened'[w] = {cate.f1} \ {Null}
    BY <1>3, <1>4, <1>6 DEF Becomes, Inv, TypeOK
  <1> QED
    BY <1>5, <1>7

LEMMA LeaveInv ==
    ASSUME Inv, NEW w \in Windows, Leave(w)
    PROVE  Inv'
  <1>1. FreshPage(w) \in Pages
    BY PageType DEF Inv
  <1>2. /\ FreshPage(w).opened = {} /\ FreshPage(w).cate = cate
        /\ FreshPage(w).cover = FALSE
    BY DEF FreshPage
  <1> QED
    BY <1>1, <1>2, PageStep DEF Leave, Inv, TypeOK, MemoryIsLastClick, Latest

LEMMA NextInv == Inv /\ [Next]_vars => Inv'
  <1> SUFFICES ASSUME Inv, [Next]_vars PROVE Inv'
    OBVIOUS
  <1>1. ASSUME NEW w \in Windows, LeftOpen(w) PROVE Inv'
    BY <1>1, CollapseInv DEF LeftOpen
  <1>2. ASSUME NEW w \in Windows, ClickCover(w) PROVE Inv'
    BY <1>2, CollapseInv DEF ClickCover
  <1>3. ASSUME NEW w \in Windows, LeftOpenExpands(w) PROVE Inv'
    BY <1>3 DEF LeftOpenExpands, Inv, TypeOK, MemoryIsLastClick, NarrowingIsClosed
  <1>4. ASSUME NEW w \in Windows, WidthSettles(w) PROVE Inv'
    BY <1>4 DEF WidthSettles, Inv, TypeOK, MemoryIsLastClick, NarrowingIsClosed
  <1>5. ASSUME NEW w \in Windows, SubMenusSettle(w) PROVE Inv'
    BY <1>5 DEF SubMenusSettle, Inv, TypeOK, MemoryIsLastClick, NarrowingIsClosed
  <1>6. CASE UNCHANGED vars
    BY <1>6 DEF vars, page, Inv, TypeOK, MemoryIsLastClick, NarrowingIsClosed
  <1> QED
    BY <1>1, <1>2, <1>3, <1>4, <1>5, <1>6, LoadInv, LeaveInv, ClickInv DEF Next

LEMMA SpecInv == Spec => []Inv
  <1>1. Init => Inv
    BY NullIsNoItem
       DEF Init, Inv, TypeOK, MemoryIsLastClick, NarrowingIsClosed, NoCate, Resting
  <1> QED
    BY <1>1, NextInv, PTL DEF Spec

\* cate names the last click on the menu of any window, and a menu that has
\* shrunk has nothing open unless it was clicked on its way.
THEOREM MenuStaysGood == Spec => [](TypeOK /\ MemoryIsLastClick /\ NarrowIsClosed)
  <1>1. Inv => TypeOK /\ MemoryIsLastClick /\ NarrowIsClosed
    BY DEF Inv, NarrowingIsClosed, NarrowIsClosed
  <1> QED
    BY <1>1, SpecInv, PTL

\* Every load opens the menu at what was clicked last and leaves cate alone.
THEOREM LoadsRestore == Spec => LoadRestores
  <1> DEFINE Restored == \A w \in Windows : Load(w) =>
                            /\ cate' = cate
                            /\ active'[w] = last
                            /\ opened'[w] = {cate.f1} \ {Null}
  <1>1. Inv => Restored
    BY LoadInv
  <1> HIDE DEF Restored
  <1>2. Spec => [][Restored]_vars
    BY <1>1, SpecInv, PTL
  <1> QED
    BY <1>2 DEF Restored, LoadRestores
=============================================================================
