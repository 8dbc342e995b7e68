-------------------------------- MODULE Keys --------------------------------
(***************************************************************************)
(* What a key of the remote control is to a page: the tables of key codes, *)
(* the events that are dispatched (keyevent-init.js, pc-keycodes.js), and  *)
(* the order in which arrows move the focus on the one site whose pages    *)
(* have it done for them (focus.js).                                       *)
(***************************************************************************)
EXTENDS Integers, SequencesExt, FiniteSets

CONSTANT Undefined   \* of a name without a code, of an element that is not there

Numeric == <<"VK_0", "VK_1", "VK_2", "VK_3", "VK_4", "VK_5", "VK_6", "VK_7", "VK_8", "VK_9">>

\* The names the polyfill defines, in KeyEvent and in window.
VK == [VK_LEFT |-> 37, VK_UP |-> 38, VK_RIGHT |-> 39, VK_DOWN |-> 40, VK_ENTER |-> 13,
       VK_BACK |-> 461, VK_RED |-> 403, VK_GREEN |-> 404, VK_YELLOW |-> 405, VK_BLUE |-> 406,
       VK_PLAY |-> 80, VK_PAUSE |-> 81, VK_STOP |-> 83, VK_FAST_FWD |-> 70, VK_REWIND |-> 82,
       VK_PAGE_UP |-> 33, VK_PAGE_DOWN |-> 34]
      @@ [k \in Range(Numeric) |-> 48 + CHOOSE d \in 0 .. 9 : Numeric[d + 1] = k]

\* keyEventInit: what a page has defined before it keeps.
keyEventInit(own) == own @@ VK

\* window[keyCode].
Code(table, name) == IF name \in DOMAIN table THEN table[name] ELSE Undefined

\* PC_KEYCODES, the keys of a keyboard that stand for one of the remote control.
PC_KEYCODES == [r |-> 82, y |-> 89, b |-> 66, g |-> 71, h |-> 72, j |-> 74, k |-> 75, l |-> 76,
                oe |-> 192, left |-> 37, up |-> 38, right |-> 39, down |-> 40, enter |-> 13,
                back |-> 8]

PcName == [r |-> "VK_RED", g |-> "VK_GREEN", y |-> "VK_YELLOW", b |-> "VK_BLUE",
           left |-> "VK_LEFT", up |-> "VK_UP", right |-> "VK_RIGHT", down |-> "VK_DOWN",
           enter |-> "VK_ENTER", back |-> "VK_BACK", k |-> "VK_PAUSE", j |-> "VK_PLAY",
           h |-> "VK_REWIND", l |-> "VK_STOP", oe |-> "VK_FAST_FWD"]

F5 == 116

\* What the keydown listener makes of a keyboard's key, Undefined for most.
NameOf(code) ==
  IF code \in 96 .. 105 THEN Numeric[code - 95]
  ELSE IF \E k \in DOMAIN PcName : PC_KEYCODES[k] = code
       THEN PcName[CHOOSE k \in DOMAIN PcName : PC_KEYCODES[k] = code]
       ELSE Undefined

Event(type, code) == [type |-> type, code |-> code]
Pressed(code) == <<Event("keydown", code), Event("keypress", code), Event("keyup", code)>>

\* Mutant of Listener: the polyfill's own events are not told apart.
ListenToAll(table, code, hbbInternal) ==
  IF NameOf(code) = Undefined THEN <<>> ELSE Pressed(Code(table, NameOf(code)))

\* The keydown listener of window, which comes first: the polyfill's own event
\* goes on to the page's elements, a keyboard's never does, and without it the
\* browser makes no keypress.
Listener(table, code, hbbInternal) ==
  CASE hbbInternal -> <<Event("keydown", code)>>
    [] ~hbbInternal /\ NameOf(code) = Undefined -> <<>>
    [] OTHER -> Pressed(Code(table, NameOf(code)))

\* Nothing listens for the keyup of a keyboard.
Released(code) == <<Event("keyup", code)>>

\* The events of doKeyPress that reach the page.
doKeyPress(table, name) ==
  Listener(table, Code(table, name), TRUE) \o Tail(Pressed(Code(table, name)))

-----------------------------------------------------------------------------
(***************************************************************************)
(* The elements of a page that findNextFocusableElement's selector finds   *)
(* are a sequence in document order of records: tabIndex, whether it is    *)
(* shown, and whether it takes the focus (an <a> without href does not).   *)
(***************************************************************************)
Arrows == [VK_LEFT |-> TRUE, VK_UP |-> TRUE, VK_RIGHT |-> FALSE, VK_DOWN |-> FALSE]

\* The order of the tabulator: indexes above 0 first, then the document's.
Before(links, i, j) ==
  LET Indexed(k) == links[k].tabIndex \notin {0, -1}
  IN IF Indexed(i) /\ Indexed(j) /\ links[i].tabIndex # links[j].tabIndex
     THEN links[i].tabIndex < links[j].tabIndex
     ELSE \/ Indexed(i) /\ ~Indexed(j)
          \/ (Indexed(i) <=> Indexed(j)) /\ i < j

\* What is not shown is left out, unless it has the focus.
QueryResult(links, active) == {i \in DOMAIN links : links[i].shown \/ i = active}

Focusable(links, active) ==
  LET queryResult == QueryResult(links, active)
      Place(i) == 1 + Cardinality({j \in queryResult : Before(links, j, i)})
  IN [n \in 1 .. Cardinality(queryResult) |-> CHOOSE i \in queryResult : Place(i) = n]

\* Mutant of findNextFocusableElement: without the way round.
findNextToTheEnd(links, reverse, active) ==
  LET focusable == Focusable(links, active)
      at == CHOOSE i \in 0 .. Len(focusable) : IF active \in Range(focusable)
                                               THEN i > 0 /\ focusable[i] = active ELSE i = 0
      to == IF reverse THEN at - 1 ELSE at + 1
  IN IF to \in DOMAIN focusable THEN focusable[to] ELSE Undefined

findNextFocusableElement(links, reverse, active) ==
  LET focusable == Focusable(links, active)
      at == CHOOSE i \in 0 .. Len(focusable) : IF active \in Range(focusable)
                                               THEN i > 0 /\ focusable[i] = active ELSE i = 0
      to == IF reverse THEN at - 1 ELSE at + 1
  IN CASE focusable = <<>> -> Undefined
       [] to \in DOMAIN focusable -> focusable[to]
       [] OTHER -> IF reverse THEN Last(focusable) ELSE Head(focusable)
=============================================================================
