----------------------------- MODULE AdminTabs ------------------------------
(***************************************************************************)
(* The tabs of the admin shell (xadmin.js on main.ftl): in every browser   *)
(* window the list of open tabs, the tab that is shown and the context     *)
(* menu of the tabs; in localStorage, which all windows share, the table   *)
(* tab_list, from which a window that loads opens its tabs again.          *)
(*                                                                         *)
(* A handler of a page runs to its end before another one starts and is    *)
(* one action.  md5(url) names a tab: a tab is its url here, and titles    *)
(* are left out.  A list of tabs is the reflexive order of its elements:   *)
(* <<a, b>> belongs to the list when a is b or is left of b.               *)
(*                                                                         *)
(* When the tabs of a window do not fit, layui appends a span, the button  *)
(* that unfolds them, after the last li.  Widths are left out: whether the *)
(* tabs fit is chosen anew whenever layui measures them.                   *)
(***************************************************************************)
EXTENDS FiniteSets

CONSTANTS
    Windows,        \* browser windows that may show /admin/index
    Urls,           \* pages the menu on the left opens in a tab
    Home,           \* li.home, the tab of the welcome page; it has no lay-id
    Nothing         \* undefined, hidden, or no tab

ASSUME UrlsAreFinite == IsFiniteSet(Urls)
ASSUME HomeIsNoUrl == Home \notin Urls
ASSUME NothingIsNoTab == Nothing \notin Urls \cup {Home}

VARIABLES
    alive,          \* windows that show the shell
    tabs,           \* of a window: the li of .layui-tab-title, in their order
    shown,          \* the li with the class layui-this, Nothing when none has it
    bar,            \* windows whose tabs overflow: span.layui-tab-bar is the last child
    target,         \* the attribute lay-id of #tab_right
    over,           \* the li under which #tab_right shows, Nothing when hidden
    tabList,        \* localStorage.tab_list, in the order of its keys
    others,         \* history: tabs that other windows opened or closed since the load
    overflowed      \* history: windows whose tabs overflowed since the load

contextMenu == <<target, over>>
overflow == <<bar, overflowed>>
vars == <<alive, tabs, shown, overflow, contextMenu, tabList, others>>

-----------------------------------------------------------------------------
(* Lists of tabs *)

Elements(L) == {p[1] : p \in L}
Appended(L, x) == L \cup {<<y, x>> : y \in Elements(L) \cup {x}}
Keep(L, S) == {p \in L : p[1] \in S /\ p[2] \in S}
RightOf(L, x) == {y \in Elements(L) : <<x, y>> \in L} \ {x}
First(L) == CHOOSE x \in Elements(L) : \A y \in Elements(L) : <<x, y>> \in L
Final(L) == CHOOSE x \in Elements(L) : \A y \in Elements(L) : <<y, x>> \in L

IsList(L) ==
    /\ \A p \in L : p[1] \in Elements(L) /\ p[2] \in Elements(L)
    /\ \A x, y \in Elements(L) : <<x, y>> \in L \/ <<y, x>> \in L
    /\ \A x, y \in Elements(L) : <<x, y>> \in L /\ <<y, x>> \in L => x = y
    /\ \A x, y, z \in Elements(L) : <<x, y>> \in L /\ <<y, z>> \in L => <<x, z>> \in L

Tabs == Urls \cup {Home}
OnlyHome == {<<Home, Home>>}

TypeOK ==
    /\ alive \in SUBSET Windows
    /\ tabs \in [Windows -> SUBSET (Tabs \X Tabs)]
    /\ \A w \in Windows : IsList(tabs[w])
    /\ shown \in [Windows -> Tabs \cup {Nothing}]
    /\ overflowed \in SUBSET alive
    /\ bar \in SUBSET overflowed
    /\ target \in [Windows -> Urls \cup {Nothing}]
    /\ over \in [Windows -> Tabs \cup {Nothing}]
    /\ tabList \in SUBSET (Urls \X Urls)
    /\ IsList(tabList)
    /\ others \in [Windows -> SUBSET Urls]

Init ==
    /\ alive = {}
    /\ tabs = [w \in Windows |-> OnlyHome]
    /\ shown = [w \in Windows |-> Home]
    /\ bar = {}
    /\ overflowed = {}
    /\ target = [w \in Windows |-> Nothing]
    /\ over = [w \in Windows |-> Nothing]
    /\ tabList = {}
    /\ others = [w \in Windows |-> {}]

-----------------------------------------------------------------------------
(* Windows: a window loads the shell, reloads it, or leaves it *)

\* layui measures the tabs of a window, which overflowed in those of O before
TabAuto(w, O) ==
    \/ bar' = bar \cup {w} /\ overflowed' = O \cup {w}
    \/ bar' = bar \ {w} /\ overflowed' = O

\* 50 ms after a tab closed, or when the size of the window changes
Measure(w) ==
    /\ w \in alive
    /\ TabAuto(w, overflowed)
    /\ UNCHANGED <<alive, tabs, shown, contextMenu, tabList, others>>

\* init adds a tab for every key of tab_list and shows the one added last
Loaded == OnlyHome \cup {<<Home, u>> : u \in Elements(tabList)} \cup tabList

Load(w) ==
    /\ alive' = alive \cup {w}
    /\ tabs' = [tabs EXCEPT ![w] = Loaded]
    /\ shown' = [shown EXCEPT ![w] = Final(Loaded)]
    /\ TabAuto(w, overflowed \ {w})
    /\ target' = [target EXCEPT ![w] = Nothing]
    /\ over' = [over EXCEPT ![w] = Nothing]
    /\ others' = [others EXCEPT ![w] = {}]
    /\ UNCHANGED tabList

Leave(w) ==
    /\ w \in alive
    /\ alive' = alive \ {w}
    /\ tabs' = [tabs EXCEPT ![w] = OnlyHome]
    /\ shown' = [shown EXCEPT ![w] = Home]
    /\ bar' = bar \ {w}
    /\ overflowed' = overflowed \ {w}
    /\ target' = [target EXCEPT ![w] = Nothing]
    /\ over' = [over EXCEPT ![w] = Nothing]
    /\ others' = [others EXCEPT ![w] = {}]
    /\ UNCHANGED tabList

-----------------------------------------------------------------------------
(* Opening, showing and closing tabs *)

\* What window w did to the tabs of S, as the other windows record it
Tell(w, S) ==
    others' = [v \in Windows |-> IF v \in alive \ {w} THEN others[v] \cup S ELSE others[v]]

Hide(w) ==
    /\ over' = [over EXCEPT ![w] = Nothing]
    /\ UNCHANGED target

\* A tab that is already open in the window is only shown
ShowAgain(w, u) ==
    /\ w \in alive
    /\ u \in Elements(tabs[w])
    /\ shown' = [shown EXCEPT ![w] = u]
    /\ UNCHANGED <<alive, tabs, overflow, contextMenu, tabList, others>>

\* layui.data keeps the place of a key it has, and puts a new one last
SetData(u) ==
    tabList' = IF u \in Elements(tabList) THEN tabList ELSE Appended(tabList, u)

\* Mutant: set_data is left out
AddTabUnstored(w, u) ==
    /\ w \in alive
    /\ u \notin Elements(tabs[w])
    /\ tabs' = [tabs EXCEPT ![w] = Appended(tabs[w], u)]
    /\ shown' = [shown EXCEPT ![w] = u]
    /\ TabAuto(w, overflowed)
    /\ Tell(w, {u})
    /\ UNCHANGED <<alive, contextMenu, tabList>>

\* A new tab is appended, before the span, stored under its key and shown
AddTab(w, u) ==
    /\ w \in alive
    /\ u \notin Elements(tabs[w])
    /\ tabs' = [tabs EXCEPT ![w] = Appended(tabs[w], u)]
    /\ SetData(u)
    /\ shown' = [shown EXCEPT ![w] = u]
    /\ TabAuto(w, overflowed)
    /\ Tell(w, {u})
    /\ UNCHANGED <<alive, contextMenu>>

ClickTab(w, t) ==
    /\ w \in alive
    /\ t \in Elements(tabs[w])
    /\ shown' = [shown EXCEPT ![w] = t]
    /\ Hide(w)
    /\ UNCHANGED <<alive, tabs, overflow, tabList, others>>

\* The tab shown after the tabs of S are closed, from left to right: the next
\* child takes the place of a shown tab that closes, or else the previous one.
\* Where the tabs overflow, the child after the last tab is the span, which
\* takes the class layui-this and shows no tab.
Neighbour(L, x, S, isOver) ==
    LET right == Keep(L, RightOf(L, x) \ S) IN
    IF x \notin S THEN x
    ELSE IF right # {} THEN First(right)
    ELSE IF isOver THEN Nothing
    ELSE Final(Keep(L, Tabs \ S))

\* Mutant: the handler of tabDelete is left out
CloseUnforgotten(w, S) ==
    LET gone == S \cap Elements(tabs[w]) IN
    /\ tabs' = [tabs EXCEPT ![w] = Keep(tabs[w], Tabs \ gone)]
    /\ shown' = [shown EXCEPT ![w] = Neighbour(tabs[w], shown[w], gone, w \in bar)]
    /\ Tell(w, gone)
    /\ Hide(w)
    /\ UNCHANGED <<alive, overflow, tabList>>

\* Mutant: a closed tab leaves the context menu where it is
CloseUnderMenu(w, S) ==
    LET gone == S \cap Elements(tabs[w]) IN
    /\ tabs' = [tabs EXCEPT ![w] = Keep(tabs[w], Tabs \ gone)]
    /\ shown' = [shown EXCEPT ![w] = Neighbour(tabs[w], shown[w], gone, w \in bar)]
    /\ tabList' = Keep(tabList, Urls \ gone)
    /\ Tell(w, gone)
    /\ UNCHANGED <<alive, overflow, contextMenu>>

\* Every closed tab is removed from the page and from tab_list
Close(w, S) ==
    LET gone == S \cap Elements(tabs[w]) IN
    /\ tabs' = [tabs EXCEPT ![w] = Keep(tabs[w], Tabs \ gone)]
    /\ shown' = [shown EXCEPT ![w] = Neighbour(tabs[w], shown[w], gone, w \in bar)]
    /\ tabList' = Keep(tabList, Urls \ gone)
    /\ Tell(w, gone)
    /\ Hide(w)
    /\ UNCHANGED <<alive, overflow>>

CloseIcon(w, u) ==
    /\ w \in alive
    /\ u \in Elements(tabs[w])
    /\ Close(w, {u})

-----------------------------------------------------------------------------
(* The context menu of the tabs *)

\* attr(name, undefined) sets nothing: for the home tab the attribute stays
RightClick(w, t) ==
    /\ w \in alive
    /\ t \in Elements(tabs[w])
    /\ over' = [over EXCEPT ![w] = t]
    /\ target' = [target EXCEPT ![w] = IF t = Home THEN target[w] ELSE t]
    /\ UNCHANGED <<alive, tabs, shown, overflow, tabList, others>>

MenuShows(w) == w \in alive /\ over[w] # Nothing

CloseThis(w) == MenuShows(w) /\ Close(w, {target[w]})

\* Mutant: the close icon of the home tab stays
CloseOtherAndHome(w) ==
    /\ MenuShows(w)
    /\ target[w] \in Elements(tabs[w])
    /\ Close(w, Tabs \ {target[w]})

\* The close icon of the home tab is removed before the others are clicked
CloseOther(w) == MenuShows(w) /\ Close(w, Urls \ {target[w]})

CloseAll(w) == MenuShows(w) /\ Close(w, Urls)

ClickAway(w) ==
    /\ MenuShows(w)
    /\ Hide(w)
    /\ UNCHANGED <<alive, tabs, shown, overflow, tabList, others>>

Next ==
    \E w \in Windows :
        \/ Load(w)
        \/ Leave(w)
        \/ Measure(w)
        \/ \E u \in Urls : ShowAgain(w, u) \/ AddTab(w, u) \/ CloseIcon(w, u)
        \/ \E t \in Tabs : ClickTab(w, t) \/ RightClick(w, t)
        \/ CloseThis(w)
        \/ CloseOther(w)
        \/ CloseAll(w)
        \/ ClickAway(w)

Spec == Init /\ [][Next]_vars

-----------------------------------------------------------------------------
(* Properties *)

\* The welcome page stays open in every window, and the tab that is shown is
\* one of its tabs, whichever tabs were closed and in which order: the home
\* li has a close icon like the others, and closing the tab that is shown
\* has to show another one.  A window shows no tab at all only if its tabs
\* overflowed since it was loaded: tabDelete hands the class layui-this to
\* whatever comes next, the span at the end of the tabs included.
ShownIsOpen ==
    \A w \in Windows :
        /\ Home \in Elements(tabs[w])
        /\ shown[w] = Nothing => w \in overflowed
        /\ shown[w] # Nothing => shown[w] \in Elements(tabs[w])

\* tab_list holds the tabs of each window in the order of the window, apart
\* from those that another window has opened or closed since this one was
\* loaded.  A tab that this window still shows and another one closed is the
\* exception: add_tab returns before it stores the tab again.
MemoryIsTabs ==
    \A w \in alive : Keep(tabs[w], Urls \ others[w]) = Keep(tabList, Urls \ others[w])

\* "Remember the tabs over a refresh" (main.ftl): a window that reloads
\* before another one has opened or closed a tab has the same tabs again, in
\* the same order.
ReloadKeepsTabs ==
    [][\A w \in alive : Load(w) /\ others[w] = {} => tabs'[w] = tabs[w]]_vars

\* The context menu stands under an open tab and, but for the home tab, acts
\* on that one: no tab closes, and no page is loaded again, under a menu that
\* stays.  Under the home tab, which has no lay-id, the menu acts on the tab
\* that was clicked with the right button before, open or not.
MenuIsForItsTab ==
    \A w \in Windows : over[w] # Nothing =>
        /\ over[w] \in Elements(tabs[w])
        /\ over[w] # Home => target[w] = over[w]
=============================================================================
