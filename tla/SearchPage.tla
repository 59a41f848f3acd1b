----------------------------- MODULE SearchPage -----------------------------
(***************************************************************************)
(* The search box of the javadoc pages: jQuery UI's autocomplete and menu  *)
(* widgets, search.js with its watermark and doSearch, and the index files *)
(* that script.js has loaded in the background, each of which has the      *)
(* results updated when it comes in.                                       *)
(*                                                                         *)
(* The same autocomplete is modelled with the other sources it takes, a    *)
(* URL, whose request is aborted for the next one, and a function that may *)
(* answer late and in any order.  Handlers run one at a time: an event, a  *)
(* timer, an answer or an index file is one step.                          *)
(***************************************************************************)
EXTENDS SearchResults, DocumentReady

CONSTANTS
  Kinds,        \* sources: "page" (doSearch), "url", "function"
  MaxSearches,  \* bound: searches begun
  MaxHolds      \* bound: holds on the ready event at a time

Watermark == "Search"
Empty == ""
Blank == " "
Values == Terms \cup {Watermark, Empty, Blank}

ASSUME SearchPageAssumption ==
  /\ Kinds \subseteq {"page", "url", "function"}
  /\ {Watermark, Empty, Blank} \cap Terms = {}
  /\ MaxSearches \in Nat /\ MaxHolds \in Nat

VARIABLE w      \* the page, see Init

vars == <<w>>

NoUpdate == [term |-> Empty, index |-> 0]

(* boot: the ready event, whether search.js has come, which the page has
   loaded in the background like the index files, and how many of its two
   functions have been called.
   marked: the class of the watermark; searching: the timer of a search,
   "modified" if the key came with a modifier; requests: those a URL or a
   function has not answered; items and active: the menu, -1 for an item
   that is in it no more; timer: the menu is about to collapse; armed: the
   item to be focussed by the next mouse move; restoring: the callback that
   deletes cancelBlur is due; updater: updateSearchResults.  Histories:
   dismissed, the menu was closed by the user and nothing searched since;
   keptBlur, a blur came while cancelBlur was set.  location: the page gone
   to, which may be a part of this one. *)
Init ==
  \E kind \in Kinds :
    w = [kind |-> kind, boot |-> [ready |-> Parsing, script |-> FALSE, run |-> 0],
         value |-> Empty, marked |-> FALSE, focused |-> FALSE, term |-> Empty,
         searching |-> "none", pending |-> 0, loading |-> FALSE, requestIndex |-> 0,
         cancelSearch |-> FALSE, cancelBlur |-> FALSE, restoring |-> FALSE,
         requests |-> {}, disabled |-> FALSE, visible |-> FALSE, items |-> <<>>,
         active |-> 0, timer |-> FALSE, isNewMenu |-> TRUE, armed |-> 0,
         loaded |-> {}, updater |-> NoUpdate, location |-> {},
         dismissed |-> FALSE, keptBlur |-> FALSE]

(* The box can be used when the first of the functions has been called, and
   there is a widget, neither absent nor disabled, when the second has. *)
Enabled(t) == t.boot.run >= 1
Inert(t) == t.disabled \/ t.boot.run < 2

(***************************************************************************)
(* The menu.                                                               *)
(***************************************************************************)
MenuBlur(t) == [t EXCEPT !.active = 0, !.timer = FALSE]
MenuFocus(t, k) == [MenuBlur(t) EXCEPT !.active = k]

IsFirst(t) == t.active = 1
IsLast(t) == t.active = Len(t.items)

(* next, previous, nextPage and previousPage of a menu that need not scroll. *)
Move(t, direction) ==
  LET n == Len(t.items)
      k == IF t.active < 1 THEN (IF direction = "previous" THEN n ELSE 1)
           ELSE CASE direction = "next" -> IF t.active = n THEN 1 ELSE t.active + 1
                  [] direction = "previous" -> IF t.active = 1 THEN n ELSE t.active - 1
                  [] direction = "nextPage" -> n
                  [] direction = "previousPage" -> 1
  IN MenuFocus(t, k)

(* "If the active item has been removed, blur the menu". *)
Refresh(t) == IF t.active = -1 THEN MenuBlur(t) ELSE t

(* autocomplete's menufocus: a mouse that a new menu happens to appear under
   focusses nothing until it moves. *)
MenuFocused(t, k, mouse) ==
  IF t.disabled \/ ~t.isNewMenu THEN t
  ELSE IF mouse THEN [MenuBlur(t) EXCEPT !.isNewMenu = FALSE, !.armed = k]
  ELSE [t EXCEPT !.isNewMenu = FALSE]

(***************************************************************************)
(* Opening, closing and searching.                                         *)
(***************************************************************************)
HideMenu(t) ==
  IF t.visible THEN [MenuBlur(t) EXCEPT !.visible = FALSE, !.isNewMenu = TRUE] ELSE t

(* Variant: a search that is on its way goes on. *)
CloseSearching(t) == HideMenu(t)

Close(t) == HideMenu([t EXCEPT !.cancelSearch = TRUE])

(* _suggest: the menu anew, with its first item active on the page. *)
Suggest(t, items) ==
  LET u == Refresh([t EXCEPT !.items = items, !.isNewMenu = TRUE,
                             !.active = IF @ = 0 THEN 0 ELSE -1,
                             !.armed = IF @ = 0 THEN 0 ELSE -1])
      v == [u EXCEPT !.visible = TRUE]
  IN IF t.kind = "page" THEN MenuFocused(Move(v, "next"), 1, FALSE) ELSE v

(* __response, after the page's own handler of `response'. *)
Responded(t, items) ==
  LET content == IF t.kind = "page" /\ items = <<>>
                 THEN <<[of |-> "no results", term |-> Empty]>> ELSE items
  IN IF ~t.disabled /\ content # <<>> /\ ~t.cancelSearch THEN Suggest(t, content)
     ELSE HideMenu(t)

RespondedDisabled(t, items) ==
  IF items # <<>> /\ ~t.cancelSearch THEN Suggest(t, items) ELSE HideMenu(t)

Answered(t) == [t EXCEPT !.pending = @ - 1,
                         !.loading = IF t.pending - 1 = 0 THEN FALSE ELSE @]

(* Variant: any answer is shown. *)
ResponseAny(t, index, items) == Answered(Responded(t, items))

(* The function _response() makes: only the last request's is shown. *)
Response(t, index, items) ==
  Answered(IF index = t.requestIndex THEN Responded(t, items) ELSE t)

(* What doSearch finds in the index files that have been loaded. *)
Found(t, term) ==
  (IF t.loaded # AllFiles THEN <<[of |-> "loading", term |-> Empty]>> ELSE <<>>)
  \o Results(t.loaded, term)

(* doSearch: blanks close the menu, and what waits for the index files stays
   what it was; anything else has them search again when they come in. *)
DoSearch(t, term, index) ==
  IF term = Blank THEN Close(t)
  ELSE LET u == [t EXCEPT !.updater = IF t.loaded # AllFiles
                                      THEN [term |-> term, index |-> index]
                                      ELSE NoUpdate]
       IN Response(u, index, Found(u, term))

(* A request to a URL is aborted: "error" answers with nothing. *)
Aborted(t) ==
  IF t.kind # "url" \/ t.requests = {} THEN t
  ELSE LET r == CHOOSE r \in t.requests : TRUE
       IN Response([t EXCEPT !.requests = {}], r.index, <<>>)

(* _search: the source is called with the function that takes its answer. *)
Source(t) ==
  LET n == t.requestIndex + 1
      u == [t EXCEPT !.pending = @ + 1, !.loading = TRUE, !.cancelSearch = FALSE,
                     !.requestIndex = n]
  IN IF t.kind = "page" THEN DoSearch(u, u.term, n)
     ELSE [Aborted(u) EXCEPT !.requests = @ \cup {[index |-> n, term |-> u.term]}]

Search(t) ==
  LET u == [t EXCEPT !.term = t.value]
  IN IF t.value = Empty THEN Close(u) ELSE Source([u EXCEPT !.dismissed = FALSE])

Later(t, how) == IF Inert(t) THEN t ELSE [t EXCEPT !.searching = how]

CanSearch == w.requestIndex < MaxSearches

(* The timer of a search: "if the value has changed, or if the user retypes
   the same value". *)
SearchTimer ==
  /\ w.searching # "none" /\ CanSearch
  /\ LET t == [w EXCEPT !.searching = "none"]
     IN w' = IF w.value # w.term \/ (~w.visible /\ w.searching = "plain")
             THEN Search(t) ELSE t

(* A URL or a function answers, with something or with nothing. *)
Reply ==
  \E r \in w.requests, items \in {<<>>, <<1, 2>>} :
    LET found == [k \in DOMAIN items |-> [of |-> k, term |-> r.term]]
    IN w' = Response([w EXCEPT !.requests = @ \ {r}], r.index, found)

(* An index file is there and calls updateSearchResults(). *)
LoadIndex(f) ==
  /\ f \notin w.loaded
  /\ LET t == [w EXCEPT !.loaded = @ \cup {f}]
     IN w' = IF w.updater = NoUpdate THEN t
             ELSE DoSearch(t, w.updater.term, w.updater.index)

(***************************************************************************)
(* The keyboard.  The handlers of the watermark come first.                *)
(***************************************************************************)
Unmark(t) ==
  IF t.kind = "page" /\ t.value = Watermark
  THEN [t EXCEPT !.value = Empty, !.marked = FALSE] ELSE t

(* A key or a paste that changes the text: keydown, then input. *)
Type(v) ==
  /\ w.focused
  /\ w' = Later([Unmark(w) EXCEPT !.value = v], "plain")

(* A key that leaves the text as it is. *)
OtherKey ==
  /\ w.focused
  /\ \E how \in {"plain", "modified"} : w' = Later(Unmark(w), how)

MoveKey(direction) ==
  /\ w.focused /\ CanSearch
  /\ LET t == Unmark(w)
         u == Move(t, direction)
     IN w' = IF Inert(t) THEN t
             ELSE IF ~t.visible THEN Search(t)
             ELSE IF \/ IsFirst(t) /\ direction \in {"previous", "previousPage"}
                     \/ IsLast(t) /\ direction \in {"next", "nextPage"}
             THEN MenuBlur([t EXCEPT !.value = t.term])
             ELSE LET v == MenuFocused(u, u.active, FALSE)
                  IN IF t.kind = "page" THEN v
                     ELSE [v EXCEPT !.value = v.items[v.active].term]

Escape ==
  /\ w.focused
  /\ LET t == Unmark(w)
     IN w' = IF Inert(t) \/ ~t.visible THEN t
             ELSE Close([t EXCEPT !.value = t.term, !.dismissed = TRUE])

(* menuselect: the page's items have no value, so the box is emptied.  Only
   the active item is selected, whatever was clicked. *)
Selected(t) ==
  IF t.disabled THEN [t EXCEPT !.timer = TRUE]
  ELSE LET v == IF t.kind = "page" THEN Empty ELSE t.items[t.active].term
           go == IF t.kind = "page" THEN Target(t.items[t.active], t.loaded) ELSE {}
       IN Close([t EXCEPT !.focused = TRUE, !.value = v, !.term = v, !.dismissed = TRUE,
                          !.location = IF go = {} THEN @ ELSE go])

Enter ==
  /\ w.focused
  /\ LET t == Unmark(w)
     IN w' = IF t.active = 0 \/ Inert(t) THEN t ELSE Selected(t)

(***************************************************************************)
(* The mouse, and the focus.                                               *)
(***************************************************************************)
MouseEnter(k) ==
  /\ w.visible /\ k \in DOMAIN w.items
  /\ w' = MenuFocused(MenuFocus(w, k), k, TRUE)

MouseMove ==
  /\ w.armed # 0
  /\ LET t == [w EXCEPT !.armed = 0]
     IN w' = IF w.armed = -1 \/ ~w.visible THEN t
             ELSE MenuFocused(MenuFocus(t, w.armed), w.armed, TRUE)

(* collapseAll and its timer. *)
MouseLeave == w.visible /\ w' = [w EXCEPT !.timer = TRUE]
Collapse == w.timer /\ w' = MenuBlur(w)

ClickItem(k) ==
  /\ w.visible /\ k \in DOMAIN w.items
  /\ w' = Selected(IF w.active = 0 THEN [w EXCEPT !.active = k] ELSE w)

PressMenu ==
  /\ w.visible /\ ~w.disabled
  /\ w' = [w EXCEPT !.cancelBlur = TRUE, !.restoring = TRUE]

Restore ==
  /\ w.restoring
  /\ w' = [w EXCEPT !.restoring = FALSE, !.cancelBlur = FALSE, !.focused = TRUE]

PressOutside ==
  /\ w.visible /\ ~w.disabled
  /\ w' = Close([w EXCEPT !.dismissed = TRUE])

Focus == Enabled(w) /\ ~w.focused /\ w' = [w EXCEPT !.focused = TRUE]

(* A click into the box. *)
Click == Enabled(w) /\ w' = Unmark([w EXCEPT !.focused = TRUE])

(* Variant: a search that is due stays due. *)
LeaveSearching(t) ==
  IF Inert(t) THEN t
  ELSE IF t.cancelBlur THEN [t EXCEPT !.cancelBlur = FALSE, !.keptBlur = TRUE]
  ELSE Close([t EXCEPT !.dismissed = TRUE])

(* The widget's own handler of blur, unless the menu has been pressed. *)
Leave(t) ==
  IF Inert(t) THEN t
  ELSE IF t.cancelBlur THEN [t EXCEPT !.cancelBlur = FALSE, !.keptBlur = TRUE]
  ELSE Close([t EXCEPT !.searching = "none", !.dismissed = TRUE])

Blur ==
  /\ w.focused
  /\ LET t == IF w.kind = "page" /\ w.value = Empty
              THEN [w EXCEPT !.value = Watermark, !.marked = TRUE] ELSE w
     IN w' = Leave([t EXCEPT !.focused = FALSE])

(* The button that empties the box; the class stays. *)
Reset ==
  /\ w.kind = "page" /\ Enabled(w) /\ ~w.focused
  /\ w' = [w EXCEPT !.value = Empty, !.focused = TRUE]

(* option("disabled"): the request to a URL is aborted. *)
Disable ==
  /\ w.kind # "page" /\ w.boot.run = 2
  /\ w' = IF w.disabled THEN [w EXCEPT !.disabled = FALSE]
          ELSE Aborted([w EXCEPT !.disabled = TRUE])

(***************************************************************************)
(* How the page starts.                                                    *)
(***************************************************************************)
DocumentParsed ==
  /\ ~w.boot.ready.dom
  /\ w' = [w EXCEPT !.boot.ready = Completed(@)]

(* Other scripts may hold the event back, while it has not come: a later hold
   changes nothing but the count. *)
Hold ==
  /\ ~w.boot.ready.resolved /\ w.boot.ready.holds < MaxHolds
  /\ w' = [w EXCEPT !.boot.ready = HoldReady(@)]

Release ==
  /\ w.boot.ready.holds > 0
  /\ w' = [w EXCEPT !.boot.ready = ReleaseReady(@)]

LoadScript ==
  /\ ~w.boot.script
  /\ w' = [w EXCEPT !.boot.script = TRUE]

(* A function given to $(), each from a timer of its own: the first puts the
   watermark in and binds the handlers that keep it, the second makes the
   widget. *)
ReadyFunction ==
  /\ w.boot.ready.resolved /\ w.boot.script /\ w.boot.run < 2
  /\ LET t == [w EXCEPT !.boot.run = @ + 1]
     IN w' = IF t.boot.run = 2 THEN t
             ELSE [t EXCEPT !.focused = TRUE, !.marked = t.kind = "page",
                            !.value = IF t.kind = "page" THEN Watermark ELSE Empty]

Start == DocumentParsed \/ Hold \/ Release \/ LoadScript \/ ReadyFunction

Keyboard ==
  \/ \E v \in Terms \cup {Empty, Blank} : Type(v)
  \/ OtherKey \/ Escape \/ Enter
  \/ \E direction \in {"next", "previous", "nextPage", "previousPage"} : MoveKey(direction)

Mouse ==
  \/ \E k \in DOMAIN w.items : MouseEnter(k) \/ ClickItem(k)
  \/ MouseMove \/ MouseLeave \/ PressMenu \/ PressOutside \/ Click \/ Reset

Next ==
  \/ Start \/ Keyboard \/ Mouse \/ Focus \/ Blur \/ Disable
  \/ SearchTimer \/ Collapse \/ Restore \/ Reply
  \/ \E f \in AllFiles : LoadIndex(f)

Spec == Init /\ [][Next]_vars

(***************************************************************************)
(* Properties.                                                             *)
(***************************************************************************)

(* The parts have their types, and every request an index of its own. *)
TypeOK ==
  /\ w.value \in Values /\ w.term \in Values
  /\ w.searching \in {"none", "plain", "modified"}
  /\ w.pending \in Int /\ w.loaded \subseteq AllFiles
  /\ w.requestIndex \in 0..MaxSearches
  /\ \A q, r \in w.requests : q.index \in 1..w.requestIndex
                              /\ (q.index = r.index => q = r)

(* The page starts when, and only when, the document is there and every hold
   has been released, in whatever order they come: readyWait counts both. *)
StartsWhenReady ==
  LET b == w.boot.ready
  IN /\ b.resolved <=> b.dom /\ b.holds = 0
     /\ w.boot.run > 0 => b.resolved

(* The menu shows what is to be found for the term that was searched last,
   on the page in all the index files that are there by now; with another
   source it may be old until the last request is answered, never older
   than an answer shown before.  The active item is one of those shown: Enter
   cannot select what is no more there. *)
MenuIsCurrent ==
  /\ TypeOK
  /\ w.active \in 0..Len(w.items) /\ (~w.visible => w.active = 0)
  /\ w.visible =>
       IF w.kind = "page"
       THEN \/ w.items = Found(w, w.term)
            \/ (Found(w, w.term) = <<>> /\ w.items[1].of = "no results")
       ELSE w.items[1].term = w.term
            \/ \E r \in w.requests : r.index = w.requestIndex

(* A menu the user has closed, by leaving, Escape, selecting or a click
   elsewhere, is not opened by an answer or an index file that comes in. *)
StaysDismissed == w.dismissed => ~w.visible

(* The page does not search for its own watermark, whatever order the blur,
   the keys and the timer come in; unless a blur comes while the menu is
   being pressed, which the widget ignores and the watermark does not. *)
WatermarkNotSearched == ~w.keptBlur => w.term # Watermark

(* Each category has one heading in the menu, under which its entries come
   once each, the better ranked first, and none that is good enough is left
   out unless there are too many. *)
MenuIsRanked ==
  w.visible /\ w.kind = "page" =>
    LET rows == Rows(w.items)
        headings == SelectSeq(rows, LAMBDA r : r.row = "heading")
        InMenu(f) == SelectSeq(w.items, LAMBDA item : item.of = f)
    IN /\ IsInjective(headings)
       /\ \A f \in w.loaded :
            LET shown == InMenu(f)
                rank(k) == Ranking(f, shown[k].entry, w.term)
            IN /\ IsInjective(shown) /\ Len(shown) <= MaxResults
               /\ \A j, k \in DOMAIN shown : j < k => rank(j) <= rank(k)
               /\ \A e \in DOMAIN Index[f] :
                    Ranking(f, e, w.term) < RankingThreshold =>
                      Len(shown) = MaxResults \/ \E k \in DOMAIN shown : shown[k].entry = e

(* The page gone to is that of an entry found for the term searched last,
   and with its module in front when the entry or the index of the packages
   that is there by now names one, whatever has been loaded meanwhile. *)
GoesWhereShown ==
  [][\A go \in w'.location \ w.location :
       LET e == Entry(go.page)
           named == {k \in DOMAIN Index["packages"] : Index["packages"][k].name = e.p}
           modules == IF "packages" \in w.loaded
                      THEN {Index["packages"][k].m : k \in named} ELSE {}
       IN /\ go.page.term = w.term
          /\ go.page.of \in {"types", "members"} =>
               go.prefix = (IF e.m # None \/ modules = {} THEN e.m
                            ELSE CHOOSE m \in modules : TRUE)]_vars
=============================================================================
