----------------------------- MODULE AdminMenu ------------------------------
(***************************************************************************)
(* The menu on the left of the admin shell (xadmin.js on main.ftl): the    *)
(* sub-menus a window has open, the width of the menu, and the table cate  *)
(* of localStorage, which all windows share and from which a window that   *)
(* loads opens its menu again, by clicking the li it finds there.          *)
(*                                                                         *)
(* The menu has two levels, so the third key of cate stays null.  A        *)
(* handler of a page is one action; the animations run between them.  The  *)
(* width on the way from one end to the other is a state of its own, as    *)
(* the handlers look for the two ends, and a sub-menu that closes can be   *)
(* clicked until it is gone.  No click falls on the instant at which an    *)
(* animation starts, when the width is still that of the end it leaves.    *)
(***************************************************************************)
CONSTANTS
    Windows,        \* browser windows that may show /admin/index
    Small,          \* those less than 768 pixels wide
    Tops,           \* the li of the first level of #nav
    Subs,           \* the li of the second level
    TopOf,          \* the first-level li that holds a second-level one
    Null            \* null, or a key that is not there

Items == Tops \cup Subs

ASSUME SmallAreWindows == Small \subseteq Windows
ASSUME TwoLevels == TopOf \in [Subs -> Tops] /\ Tops \cap Subs = {}
ASSUME NullIsNoItem == Null \notin Items

VARIABLES
    alive,          \* windows that show the shell
    opened,         \* the first-level li with the class open
    visible,        \* the first-level li whose sub-menu can be clicked
    active,         \* the li whose link is highlighted
    nav,            \* the width of .left-nav: at an end, or moving to it
    cover,          \* windows that show .page-content-bg
    cate,           \* localStorage.cate
    last,           \* history: the li whose handler ran last, in any window
    late            \* history: windows where a li was clicked during the shrinking

page == <<opened, visible, active, nav, cover>>
vars == <<alive, page, cate, last, late>>

NoCate == [f1 |-> Null, f2 |-> Null]

TypeOK ==
    /\ alive \in SUBSET Windows
    /\ opened \in [Windows -> SUBSET Tops]
    /\ visible \in [Windows -> SUBSET Tops]
    /\ active \in [Windows -> Items \cup {Null}]
    /\ nav \in [Windows -> {"wide", "shrinking", "narrow", "growing"}]
    /\ cover \in SUBSET Small
    /\ cate \in [f1 : Tops \cup {Null}, f2 : Subs \cup {Null}]
    /\ last \in Items \cup {Null}
    /\ late \in SUBSET Windows

\* The width the style sheet gives the menu
Resting(w) == IF w \in Small THEN "narrow" ELSE "wide"

Init ==
    /\ alive = {}
    /\ opened = [w \in Windows |-> {}]
    /\ visible = [w \in Windows |-> {}]
    /\ active = [w \in Windows |-> Null]
    /\ nav = [w \in Windows |-> Resting(w)]
    /\ cover = {}
    /\ cate = NoCate
    /\ last = Null
    /\ late = {}

-----------------------------------------------------------------------------
(* A click on a li, as a function of the page and the table.  The handler   *)
(* runs for the innermost li only.                                          *)

Page(w) ==
    [opened |-> opened[w], visible |-> visible[w], active |-> active[w],
     nav |-> nav[w], cover |-> w \in cover, cate |-> cate]

\* Mutant: the key of the level below is not cleared
StoredAbove(c, i) ==
    IF i \in Tops THEN [c EXCEPT !.f1 = i] ELSE [c EXCEPT !.f2 = i]

\* A click clears the key of the level below
Stored(c, i) ==
    IF i \in Tops THEN [f1 |-> i, f2 |-> Null] ELSE [c EXCEPT !.f2 = i]

\* A first-level li opens its sub-menu and closes the others, or closes it
Toggled(open, i) ==
    IF i \in Subs THEN open ELSE {i} \ open

Clicked(p, i, small) ==
    LET open == Toggled(p.opened, i) IN
    [opened |-> open,
     visible |-> p.visible \cup open,
     active |-> i,
     nav |-> IF p.nav = "narrow" THEN "growing" ELSE p.nav,
     cover |-> p.cover \/ small,
     cate |-> Stored(p.cate, i)]

Becomes(w, p) ==
    /\ opened' = [opened EXCEPT ![w] = p.opened]
    /\ visible' = [visible EXCEPT ![w] = p.visible]
    /\ active' = [active EXCEPT ![w] = p.active]
    /\ nav' = [nav EXCEPT ![w] = p.nav]
    /\ cover' = IF p.cover THEN cover \cup {w} ELSE cover \ {w}
    /\ cate' = p.cate

Reachable(w) == Tops \cup {s \in Subs : TopOf[s] \in visible[w]}

Click(w, i) ==
    /\ w \in alive
    /\ i \in Reachable(w)
    /\ Becomes(w, Clicked(Page(w), i, w \in Small))
    /\ last' = i
    /\ late' = IF nav[w] = "shrinking" THEN late \cup {w} ELSE late
    /\ UNCHANGED alive

-----------------------------------------------------------------------------
(* Widening and narrowing the menu *)

\* Mutant: the li with the class open are not clicked
CollapsedOpen(p, small) == [p EXCEPT !.nav = "shrinking", !.cover = FALSE]

\* Every li with the class open is clicked: it closes, and it is stored
Collapsed(p, small) ==
    LET closed == IF p.opened = {} THEN p
                  ELSE Clicked(p, CHOOSE t \in p.opened : TRUE, small)
    IN  [closed EXCEPT !.nav = "shrinking", !.cover = FALSE]

Collapse(w) ==
    /\ Becomes(w, Collapsed(Page(w), w \in Small))
    /\ last' = IF opened[w] = {} THEN last ELSE CHOOSE t \in opened[w] : TRUE
    /\ late' = late \ {w}
    /\ UNCHANGED alive

LeftOpen(w) ==
    /\ w \in alive
    /\ nav[w] = "wide"
    /\ Collapse(w)

\* Any other width, one on the way to narrow included, is made wide
LeftOpenExpands(w) ==
    /\ w \in alive
    /\ nav[w] # "wide"
    /\ nav' = [nav EXCEPT ![w] = "growing"]
    /\ cover' = IF w \in Small THEN cover \cup {w} ELSE cover
    /\ UNCHANGED <<alive, opened, visible, active, cate, last, late>>

ClickCover(w) ==
    /\ w \in alive \cap cover
    /\ Collapse(w)

\* The animation of the width, or of the sub-menus, ends
WidthSettles(w) ==
    /\ nav[w] \in {"shrinking", "growing"}
    /\ nav' = [nav EXCEPT ![w] = IF nav[w] = "shrinking" THEN "narrow" ELSE "wide"]
    /\ UNCHANGED <<alive, opened, visible, active, cover, cate, last, late>>

SubMenusSettle(w) ==
    /\ visible[w] # opened[w]
    /\ visible' = [visible EXCEPT ![w] = opened[w]]
    /\ UNCHANGED <<alive, opened, active, nav, cover, cate, last, late>>

-----------------------------------------------------------------------------
(* Windows *)

FreshPage(w) ==
    [opened |-> {}, visible |-> {}, active |-> Null, nav |-> Resting(w),
     cover |-> FALSE, cate |-> cate]

\* Mutant: the li stored last is clicked first
EndBackwards(p, c, small) ==
    LET first == IF c.f2 = Null THEN p ELSE Clicked(p, c.f2, small) IN
    IF c.f1 = Null THEN first ELSE Clicked(first, c.f1, small)

\* end clicks the li stored under f1 and f2, in this order; it has read the
\* table before, and the clicks write it again
End(p, c, small) ==
    LET first == IF c.f1 = Null THEN p ELSE Clicked(p, c.f1, small) IN
    IF c.f2 = Null THEN first ELSE Clicked(first, c.f2, small)

Load(w) ==
    /\ alive' = alive \cup {w}
    /\ Becomes(w, End(FreshPage(w), cate, w \in Small))
    /\ last' = IF cate.f2 # Null THEN cate.f2 ELSE IF cate.f1 # Null THEN cate.f1 ELSE last
    /\ late' = late \ {w}

Leave(w) ==
    /\ w \in alive
    /\ alive' = alive \ {w}
    /\ Becomes(w, FreshPage(w))
    /\ late' = late \ {w}
    /\ UNCHANGED last

Next ==
    \E w \in Windows :
        \/ Load(w)
        \/ Leave(w)
        \/ \E i \in Items : Click(w, i)
        \/ LeftOpen(w)
        \/ LeftOpenExpands(w)
        \/ ClickCover(w)
        \/ WidthSettles(w)
        \/ SubMenusSettle(w)

Spec == Init /\ [][Next]_vars

-----------------------------------------------------------------------------
(* Properties *)

\* cate names the li that was clicked last in any window, by a hand or by a
\* handler: the sub-menu it opened, or the link it highlighted.
MemoryIsLastClick ==
    last = IF cate.f2 # Null THEN cate.f2 ELSE cate.f1

\* A window that loads opens the sub-menu and highlights the li of cate, and
\* leaves the table as it was, although the clicks of end write it on their
\* way and a first-level click clears the key of the second level.
LoadRestores ==
    [][\A w \in Windows : Load(w) =>
          /\ cate' = cate
          /\ active'[w] = last
          /\ opened'[w] = {cate.f1} \ {Null}]_vars

\* No sub-menu is open in the narrow menu, where it would stand beside the
\* icons: shrinking closes them all, and a click in the narrow menu makes it
\* wide first.  The exception is a li clicked while the menu was shrinking,
\* when the width is at neither of the ends the handlers look for.
NarrowIsClosed ==
    \A w \in Windows \ late : nav[w] = "narrow" => opened[w] = {}
=============================================================================
