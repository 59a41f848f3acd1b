-------------------------- MODULE SearchPageProofs --------------------------
(***************************************************************************)
(* What holds of the search box for any index files, terms and number of   *)
(* searches, with each of its sources.  Handlers call each other, so every *)
(* operator of the page is shown to take a page in order to one in order   *)
(* (PageOK), and an action is what it calls.  In order means two things:   *)
(*   Basic  the parts fit each other: the menu, the requests that are not  *)
(*          answered, the watermark with the timer of a search, the start; *)
(*   Shown  what is shown was found for the term searched last, and what   *)
(*          would show anything else is stopped: cancelSearch when the     *)
(*          menu was closed, the index of the request when another search  *)
(*          came after, updateSearchResults when an index file comes in.   *)
(* A handler that searches sets the request index, the term and what waits *)
(* for the index files one after the other: Basic holds between the two,   *)
(* Shown only in the end.                                                  *)
(***************************************************************************)
EXTENDS SearchPage, TLAPS, WellFoundedInduction

PageFields ==
  {"kind", "boot", "value", "marked", "focused", "term", "searching", "pending",
   "loading", "requestIndex", "cancelSearch", "cancelBlur", "restoring",
   "requests", "disabled", "visible", "items", "active", "timer", "isNewMenu",
   "armed", "loaded", "updater", "location", "dismissed", "keptBlur"}

(* A sequence of whatever. *)
IsSeq(s) == s \in Seq(ToSet(s))

(* The parts have their types. *)
Typed(t) ==
  /\ DOMAIN t = PageFields
  /\ t.kind \in {"page", "url", "function"}
  /\ t.value \in Values /\ t.term \in Values
  /\ t.searching \in {"none", "plain", "modified"}
  /\ t.pending \in Int /\ t.loaded \subseteq AllFiles
  /\ t.requestIndex \in 0 .. MaxSearches

(* The active item, and the one to be focussed by the next mouse move, are in
   the menu; -1 is one that was in the menu before. *)
MenuOK(t) ==
  /\ IsSeq(t.items) /\ t.active \in 0 .. Len(t.items) /\ t.armed \in -1 .. Len(t.items)
  /\ ~t.visible => t.active = 0

(* Only a URL or a function leaves a request open, a URL only the last one,
   and only the page waits for index files. *)
RequestsOK(t) ==
  /\ \A q, r \in t.requests : q.index \in 1 .. t.requestIndex /\ (q.index = r.index => q = r)
  /\ \A r \in t.requests : r.term \in Values \ {Watermark}
  /\ t.kind = "page" => t.requests = {} /\ ~t.disabled
  /\ t.kind = "url" => \A r \in t.requests : r.index = t.requestIndex
  /\ t.kind # "page" \/ t.requestIndex = 0 => t.updater = NoUpdate

(* No search is due while the watermark is in the box, nothing but the page
   has one, and before there is a widget no key starts a search. *)
MarkOK(t) ==
  /\ t.boot.run < 2 => t.searching = "none"
  /\ IF t.kind = "page"
     THEN ~t.keptBlur => t.term # Watermark /\ (t.value = Watermark => t.searching = "none")
     ELSE /\ t.value # Watermark /\ t.term # Watermark
          /\ \A k \in DOMAIN t.items : t.items[k].term \in Values \ {Watermark}

(* readyWait counts the document and the holds. *)
BootOK(b) ==
  LET r == b.ready
  IN /\ DOMAIN b = {"ready", "script", "run"}
     /\ DOMAIN r = {"dom", "holds", "readyWait", "isReady", "resolved"}
     /\ r.dom \in BOOLEAN /\ r.isReady \in BOOLEAN /\ r.resolved \in BOOLEAN
     /\ r.holds \in Nat /\ b.run \in Nat
     /\ r.readyWait = IF r.dom THEN r.holds ELSE r.holds + 1
     /\ r.isReady = r.dom
     /\ r.resolved <=> r.dom /\ r.holds = 0
     /\ b.run > 0 => r.resolved

Basic(t) == Typed(t) /\ MenuOK(t) /\ RequestsOK(t) /\ MarkOK(t) /\ BootOK(t.boot)

(* The menu shows what MenuIsCurrent says. *)
ShowsFound(t) ==
  IF t.kind = "page"
  THEN \/ t.items = Found(t, t.term)
       \/ (Found(t, t.term) = <<>> /\ t.items[1].of = "no results")
  ELSE t.items[1].term = t.term \/ \E r \in t.requests : r.index = t.requestIndex

(* A menu that is shown is that of the last search, not cancelled; one the
   user closed is cancelled; until all index files are there the last search
   waits for them; and the last request is for the term searched last. *)
Shown(t) ==
  /\ t.visible => ~t.cancelSearch /\ t.items # <<>> /\ t.requestIndex > 0 /\ ShowsFound(t)
  /\ t.dismissed => ~t.visible /\ t.cancelSearch
  /\ t.kind = "page" /\ ~t.cancelSearch /\ t.requestIndex > 0 =>
       t.loaded = AllFiles \/ t.updater = [term |-> t.term, index |-> t.requestIndex]
  /\ \A r \in t.requests : r.index = t.requestIndex /\ ~t.cancelSearch => r.term = t.term


-----------------------------------------------------------------------------
(* Sequences. *)
LEMMA Seqs ==
  /\ IsSeq(<<>>) /\ Len(<<>>) = 0
  /\ \A S : \A s \in Seq(S) : IsSeq(s)
  /\ \A s : IsSeq(s) => Len(s) \in Nat /\ DOMAIN s = 1 .. Len(s) /\ (s # <<>> => Len(s) # 0)
  /\ \A x : IsSeq(<<x>>) /\ Len(<<x>>) = 1 /\ <<x>> # <<>> /\ <<x>>[1] = x
<1>1. ASSUME NEW S, NEW s \in Seq(S) PROVE IsSeq(s)
  BY DEF IsSeq, ToSet
<1>2. ASSUME NEW s, IsSeq(s) PROVE Len(s) \in Nat /\ DOMAIN s = 1 .. Len(s) /\ (s # <<>> => Len(s) # 0)
  BY <1>2 DEF IsSeq
<1>3. ASSUME NEW x PROVE IsSeq(<<x>>) /\ Len(<<x>>) = 1 /\ <<x>> # <<>> /\ <<x>>[1] = x
  <2>1. <<x>> \in Seq({x})
    OBVIOUS
  <2>. QED  BY <1>1, <2>1
<1>4. <<>> \in Seq({}) /\ Len(<<>>) = 0
  OBVIOUS
<1>. QED  BY <1>1, <1>2, <1>3, <1>4

LEMMA Concat ==
  ASSUME NEW s, NEW r, IsSeq(s), IsSeq(r)
  PROVE  IsSeq(s \o r)
<1>1. PICK S : S = ToSet(s) \cup ToSet(r)
  OBVIOUS
<1>2. s \in Seq(S) /\ r \in Seq(S)
  BY <1>1 DEF IsSeq, ToSet
<1>3. s \o r \in Seq(S)
  BY <1>2
<1>. QED  BY <1>3, Seqs

LEMMA Tabled ==
  ASSUME NEW n \in Nat, NEW f, DOMAIN f = 1 .. n, f = [k \in 1 .. n |-> f[k]]
  PROVE  IsSeq(f)
<1>1. PICK S : S = {f[k] : k \in 1 .. n}
  OBVIOUS
<1>2. [k \in 1 .. n |-> f[k]] \in Seq(S)
  BY <1>1
<1>. QED  BY <1>2, Seqs

Less == {ss \in Nat \X Nat : ss[1] < ss[2]}

LEMMA NatMin ==
  ASSUME NEW T, T \subseteq Nat, T # {}
  PROVE \E x \in T : \A y \in T : x <= y
<1>1. OpToRel(<, Nat) = Less
  BY Zenon DEF OpToRel, Less
<1>2. IsWellFoundedOn(Less, Nat)
  BY <1>1, NatLessThanWellFounded, Zenon
<1>3. PICK x \in T : \A y \in T : ~(<<y,x>> \in Less)
  BY <1>2, WFMin, Zenon
<1>4. \A a, b \in Nat : a < b => <<a, b>> \in Less
  <2>. TAKE a, b \in Nat
  <2>. HAVE a < b
  <2>1. <<a, b>> \in Nat \X Nat /\ <<a, b>>[1] < <<a, b>>[2]
    OBVIOUS
  <2>. QED  BY <2>1, Zenon DEF Less
<1>5. \A y \in T : ~(y < x)
  BY <1>3, <1>4
<1>. QED  BY <1>5

LEMMA Induct ==
  ASSUME NEW T, 0 \in T, \A n \in Nat : n \in T => n + 1 \in T
  PROVE  Nat \subseteq T
<1>. SUFFICES ASSUME Nat \ T # {} PROVE FALSE
  OBVIOUS
<1>1. PICK x \in Nat \ T : \A y \in Nat \ T : x <= y
  BY NatMin
<1>2. x # 0 /\ x - 1 \in Nat
  BY <1>1
<1>3. x - 1 \in T
  BY <1>1, <1>2
<1>. QED  BY <1>2, <1>3

-----------------------------------------------------------------------------
(* What is found is a sequence, whatever the index files hold. *)
IsGood(g, f, term, n) ==
  g = [i \in 0 .. n |-> IF i = 0 THEN <<>>
        ELSE IF \/ Len(g[i - 1]) = MaxResults
                \/ Ranking(f, i, term) >= RankingThreshold
        THEN g[i - 1] ELSE Append(g[i - 1], i)]

LEMMA GoodExists ==
  ASSUME NEW f, NEW term, NEW n \in Nat
  PROVE  \E g : IsGood(g, f, term, n)
<1>. DEFINE T == {m \in Nat : \E g : IsGood(g, f, term, m)}
<1>1. 0 \in T
  <2>1. PICK g : g = [i \in 0 .. 0 |-> <<>>]
    OBVIOUS
  <2>2. IsGood(g, f, term, 0)
    BY <2>1 DEF IsGood
  <2>. QED  BY <2>2
<1>2. ASSUME NEW m \in Nat, m \in T PROVE m + 1 \in T
  <2>1. PICK g : IsGood(g, f, term, m)
    BY <1>2
  <2>. DEFINE h == [i \in 0 .. m + 1 |-> IF i <= m THEN g[i]
                     ELSE IF \/ Len(g[i - 1]) = MaxResults
                             \/ Ranking(f, i, term) >= RankingThreshold
                     THEN g[i - 1] ELSE Append(g[i - 1], i)]
  <2>2. \A i \in 0 .. m : g[i] = IF i = 0 THEN <<>>
           ELSE IF \/ Len(g[i - 1]) = MaxResults
                   \/ Ranking(f, i, term) >= RankingThreshold
           THEN g[i - 1] ELSE Append(g[i - 1], i)
    BY <2>1 DEF IsGood
  <2>3. \A i \in 0 .. m + 1 : h[i] = IF i = 0 THEN <<>>
           ELSE IF \/ Len(h[i - 1]) = MaxResults
                   \/ Ranking(f, i, term) >= RankingThreshold
           THEN h[i - 1] ELSE Append(h[i - 1], i)
    BY <2>2
  <2>4. h = [i \in 0 .. m + 1 |-> h[i]]
    OBVIOUS
  <2>. HIDE DEF h
  <2>5. IsGood(h, f, term, m + 1)
    BY <2>3, <2>4 DEF IsGood
  <2>. QED  BY <2>5
<1>. HIDE DEF T
<1>3. Nat \subseteq T
  BY <1>1, <1>2, Induct
<1>. QED  BY <1>3 DEF T

LEMMA GoodSeq ==
  ASSUME NEW f \in AllFiles, NEW term
  PROVE  IsSeq(GoodEnough(f, term))
<1>1. PICK n : n = Len(Index[f]) /\ n \in Nat
  BY SearchResultsAssumption
<1>2. GoodUpto(f, term) = CHOOSE g : IsGood(g, f, term, n)
  BY <1>1 DEF GoodUpto, IsGood
<1>3. \E g : IsGood(g, f, term, n)
  BY <1>1, GoodExists
<1>4. PICK g : g = GoodUpto(f, term) /\ IsGood(g, f, term, n)
  BY <1>2, <1>3
<1>5. \A i \in 0 .. n : g[i] = IF i = 0 THEN <<>>
        ELSE IF \/ Len(g[i - 1]) = MaxResults
                \/ Ranking(f, i, term) >= RankingThreshold
        THEN g[i - 1] ELSE Append(g[i - 1], i)
  BY <1>4 DEF IsGood
<1>. DEFINE U == {i \in Nat : i \in 0 .. n => g[i] \in Seq(Nat)}
<1>6. 0 \in U
  <2>1. ASSUME 0 \in 0 .. n PROVE g[0] = <<>>
    <3>1. g[0] = IF 0 = 0 THEN <<>>
           ELSE IF \/ Len(g[0 - 1]) = MaxResults
                   \/ Ranking(f, 0, term) >= RankingThreshold
           THEN g[0 - 1] ELSE Append(g[0 - 1], 0)
      BY <1>5, <2>1, Zenon
    <3>. QED  BY <3>1
  <2>2. <<>> \in Seq(Nat) /\ 0 \in 0 .. n /\ 0 \in Nat
    BY <1>1
  <2>3. g[0] \in Seq(Nat)
    BY <2>1, <2>2
  <2>. QED  BY <2>2, <2>3
<1>7. ASSUME NEW i \in Nat, i \in U PROVE i + 1 \in U
  <2>. SUFFICES ASSUME i + 1 \in 0 .. n PROVE g[i + 1] \in Seq(Nat)
    OBVIOUS
  <2>1. i + 1 # 0 /\ i + 1 - 1 = i /\ i \in 0 .. n
    BY <1>1
  <2>2. PICK j : j = i + 1 /\ j \in 0 .. n /\ j - 1 = i /\ j # 0
    BY <2>1
  <2>3. g[j] = IF j = 0 THEN <<>>
           ELSE IF \/ Len(g[j - 1]) = MaxResults
                   \/ Ranking(f, j, term) >= RankingThreshold
           THEN g[j - 1] ELSE Append(g[j - 1], j)
    BY <1>5, <2>2, Zenon
  <2>4. g[j] = g[j - 1] \/ g[j] = Append(g[j - 1], j)
    BY ONLY <2>2, <2>3, Zenon
  <2>5. g[i] \in Seq(Nat) /\ j \in Nat
    BY <1>7, <2>1, <2>2
  <2>6. g[j] \in Seq(Nat)
    <3>1. PICK a : a = g[i]
      OBVIOUS
    <3>2. g[j] = a \/ g[j] = Append(a, j)
      BY <2>2, <2>4, <3>1
    <3>3. a \in Seq(Nat) /\ j \in Nat
      BY <2>5, <3>1
    <3>4. Append(a, j) \in Seq(Nat)
      BY ONLY <3>3
    <3>. QED  BY ONLY <3>2, <3>3, <3>4, Zenon
  <2>. QED  BY <2>2, <2>6
<1>. HIDE DEF U
<1>8. Nat \subseteq U
  BY <1>6, <1>7, Induct
<1>9. n \in 0 .. n
  BY <1>1
<1>10. GoodEnough(f, term) \in Seq(Nat)
  BY <1>1, <1>4, <1>8, <1>9 DEF U, GoodEnough
<1>. QED  BY <1>10, Seqs

(* The loops over the files. *)
IsUpto(g, loaded, term, n) ==
  g = [i \in 0 .. n |-> IF i = 0 THEN [result |-> <<>>, new |-> <<>>]
        ELSE IF Files[i] \notin loaded THEN g[i - 1]
        ELSE ConcatResults(g[i - 1], NewResults(Files[i], term))]

LEMMA UptoExists ==
  ASSUME NEW loaded, NEW term, NEW n \in Nat
  PROVE  \E g : IsUpto(g, loaded, term, n)
<1>. DEFINE T == {m \in Nat : \E g : IsUpto(g, loaded, term, m)}
<1>1. 0 \in T
  <2>1. PICK g : g = [i \in 0 .. 0 |-> [result |-> <<>>, new |-> <<>>]]
    OBVIOUS
  <2>2. IsUpto(g, loaded, term, 0)
    BY <2>1 DEF IsUpto
  <2>. QED  BY <2>2
<1>2. ASSUME NEW m \in Nat, m \in T PROVE m + 1 \in T
  <2>1. PICK g : IsUpto(g, loaded, term, m)
    BY <1>2
  <2>. DEFINE h == [i \in 0 .. m + 1 |-> IF i <= m THEN g[i]
                     ELSE IF Files[i] \notin loaded THEN g[i - 1]
                     ELSE ConcatResults(g[i - 1], NewResults(Files[i], term))]
  <2>2. \A i \in 0 .. m : g[i] = IF i = 0 THEN [result |-> <<>>, new |-> <<>>]
           ELSE IF Files[i] \notin loaded THEN g[i - 1]
           ELSE ConcatResults(g[i - 1], NewResults(Files[i], term))
    BY <2>1 DEF IsUpto
  <2>3. \A i \in 0 .. m + 1 : h[i] = IF i = 0 THEN [result |-> <<>>, new |-> <<>>]
           ELSE IF Files[i] \notin loaded THEN h[i - 1]
           ELSE ConcatResults(h[i - 1], NewResults(Files[i], term))
    BY <2>2
  <2>4. h = [i \in 0 .. m + 1 |-> h[i]]
    OBVIOUS
  <2>. HIDE DEF h
  <2>5. IsUpto(h, loaded, term, m + 1)
    BY <2>3, <2>4 DEF IsUpto
  <2>. QED  BY <2>5
<1>. HIDE DEF T
<1>3. Nat \subseteq T
  BY <1>1, <1>2, Induct
<1>. QED  BY <1>3 DEF T

(* concatResults() of sequences. *)
LEMMA ConcatSeq ==
  ASSUME NEW all, NEW new, IsSeq(all.result), all.new = <<>>, IsSeq(new)
  PROVE  IsSeq(ConcatResults(all, new).result) /\ ConcatResults(all, new).new = <<>>
<1>1. PICK r, n : r = all.new \o new /\ n = Len(r)
  OBVIOUS
<1>2. IsSeq(r) /\ n \in Nat /\ DOMAIN r = 1 .. n
  BY <1>1, Concat, Seqs
<1>3. PICK b : b = ByRanking(r)
  OBVIOUS
<1>4. DOMAIN b = DOMAIN r
  BY <1>3 DEF ByRanking
<1>5. ItemsOf(b) = [k \in 1 .. n |-> b[k].item]
  BY <1>2, <1>4 DEF ItemsOf
<1>6. IsSeq(ItemsOf(b))
  BY <1>2, <1>5, Tabled
<1>7. ConcatResults(all, new) = [result |-> all.result \o ItemsOf(b), new |-> <<>>]
  BY <1>1, <1>3 DEF ConcatResults
<1>. QED  BY <1>6, <1>7, Concat

LEMMA FoundSeq ==
  ASSUME NEW t, NEW term
  PROVE  IsSeq(Found(t, term))
<1>1. PICK n : n = Len(Files) /\ n \in Nat /\ \A i \in 1 .. n : Files[i] \in AllFiles
  BY SearchResultsAssumption DEF AllFiles
<1>2. PICK loaded : loaded = t.loaded
  OBVIOUS
<1>3. ResultsUpto(loaded, term) = CHOOSE g : IsUpto(g, loaded, term, n)
  BY <1>1 DEF ResultsUpto, IsUpto
<1>4. \E g : IsUpto(g, loaded, term, n)
  BY <1>1, UptoExists
<1>5. PICK g : g = ResultsUpto(loaded, term) /\ IsUpto(g, loaded, term, n)
  BY <1>3, <1>4
<1>6. \A i \in 0 .. n : g[i] = IF i = 0 THEN [result |-> <<>>, new |-> <<>>]
        ELSE IF Files[i] \notin loaded THEN g[i - 1]
        ELSE ConcatResults(g[i - 1], NewResults(Files[i], term))
  BY <1>5 DEF IsUpto
<1>. DEFINE U == {i \in Nat : i \in 0 .. n => IsSeq(g[i].result) /\ g[i].new = <<>>}
<1>7. 0 \in U
  <2>1. g[0] = [result |-> <<>>, new |-> <<>>]
    BY <1>1, <1>6
  <2>. QED  BY <2>1, Seqs
<1>8. ASSUME NEW i \in Nat, i \in U PROVE i + 1 \in U
  <2>. SUFFICES ASSUME i + 1 \in 0 .. n PROVE IsSeq(g[i + 1].result) /\ g[i + 1].new = <<>>
    OBVIOUS
  <2>1. i + 1 # 0 /\ i + 1 - 1 = i /\ i \in 0 .. n /\ i + 1 \in 1 .. n
    BY <1>1
  <2>2. PICK f : f = Files[i + 1] /\ f \in AllFiles
    BY <1>1, <2>1
  <2>3. g[i + 1] = g[i] \/ g[i + 1] = ConcatResults(g[i], NewResults(f, term))
    BY <1>6, <2>1, <2>2
  <2>4. IsSeq(g[i].result) /\ g[i].new = <<>>
    BY <1>8, <2>1
  <2>5. IsSeq(NewResults(f, term))
    <3>1. PICK good : good = GoodEnough(f, term)
      OBVIOUS
    <3>2. Len(good) \in Nat /\ DOMAIN good = 1 .. Len(good)
      BY <2>2, <3>1, GoodSeq, Seqs
    <3>3. NewResults(f, term) = [k \in 1 .. Len(good) |->
             [ranking |-> Ranking(f, good[k], term),
              item |-> [of |-> f, entry |-> good[k], term |-> term]]]
      BY <3>1, <3>2 DEF NewResults
    <3>. QED  BY <3>2, <3>3, Tabled
  <2>6. IsSeq(ConcatResults(g[i], NewResults(f, term)).result)
        /\ ConcatResults(g[i], NewResults(f, term)).new = <<>>
    BY <2>4, <2>5, ConcatSeq
  <2>. QED  BY <2>3, <2>4, <2>6
<1>. HIDE DEF U
<1>9. Nat \subseteq U
  BY <1>7, <1>8, Induct
<1>10. n \in 0 .. n
  BY <1>1
<1>11. IsSeq(Results(t.loaded, term))
  BY <1>1, <1>2, <1>5, <1>9, <1>10 DEF U, Results
<1>12. IsSeq(IF t.loaded # AllFiles THEN <<[of |-> "loading", term |-> Empty]>> ELSE <<>>)
  BY Seqs
<1>. QED  BY <1>11, <1>12, Concat DEF Found

-----------------------------------------------------------------------------
(* Fields that no property looks at, and pages that differ in them alone or
   in the active item. *)
Idle == {"marked", "focused", "loading", "cancelBlur", "restoring", "timer",
         "isNewMenu", "location"}

Alike(t, u) ==
  /\ DOMAIN u = PageFields /\ u.pending \in Int
  /\ \A f \in PageFields \ (Idle \cup {"active", "armed", "pending"}) : u[f] = t[f]

LEMMA FoundSame ==
  ASSUME NEW t, NEW u, u.loaded = t.loaded
  PROVE  \A term : Found(u, term) = Found(t, term)
BY DEF Found

LEMMA AlikeFields ==
  ASSUME NEW t, NEW u, Alike(t, u)
  PROVE  /\ DOMAIN u = PageFields /\ u.pending \in Int
         /\ u.kind = t.kind /\ u.boot = t.boot /\ u.value = t.value /\ u.term = t.term
         /\ u.searching = t.searching /\ u.requestIndex = t.requestIndex
         /\ u.cancelSearch = t.cancelSearch /\ u.requests = t.requests
         /\ u.disabled = t.disabled /\ u.visible = t.visible /\ u.items = t.items
         /\ u.loaded = t.loaded /\ u.updater = t.updater /\ u.dismissed = t.dismissed
         /\ u.keptBlur = t.keptBlur
BY DEF Alike, PageFields, Idle

LEMMA AlikeOK ==
  ASSUME NEW t, NEW u, Alike(t, u),
         u.active \in 0 .. Len(t.items), ~t.visible => u.active = 0,
         u.armed \in -1 .. Len(t.items)
  PROVE  (Basic(t) => Basic(u)) /\ (Shown(t) => Shown(u))
<1>1. /\ DOMAIN u = PageFields /\ u.pending \in Int
      /\ u.kind = t.kind /\ u.boot = t.boot /\ u.value = t.value /\ u.term = t.term
      /\ u.searching = t.searching /\ u.requestIndex = t.requestIndex
      /\ u.cancelSearch = t.cancelSearch /\ u.requests = t.requests
      /\ u.disabled = t.disabled /\ u.visible = t.visible /\ u.items = t.items
      /\ u.loaded = t.loaded /\ u.updater = t.updater /\ u.dismissed = t.dismissed
      /\ u.keptBlur = t.keptBlur
  BY AlikeFields
<1>2. Typed(t) => Typed(u)
  BY <1>1 DEF Typed
<1>3. MenuOK(t) => MenuOK(u)
  BY <1>1 DEF MenuOK
<1>4. RequestsOK(t) => RequestsOK(u)
  BY <1>1 DEF RequestsOK
<1>5. MarkOK(t) => MarkOK(u)
  BY <1>1 DEF MarkOK
<1>6. \A term : Found(u, term) = Found(t, term)
  BY <1>1, FoundSame
<1>7. ShowsFound(t) => ShowsFound(u)
  BY <1>1, <1>6 DEF ShowsFound
<1>8. Shown(t) => Shown(u)
  BY <1>1, <1>7 DEF Shown
<1>. QED  BY <1>1, <1>2, <1>3, <1>4, <1>5, <1>8 DEF Basic

-----------------------------------------------------------------------------
(* The menu. *)
LEMMA MenuBlurIs ==
  ASSUME NEW t, DOMAIN t = PageFields, t.pending \in Int
  PROVE  Alike(t, MenuBlur(t)) /\ MenuBlur(t).active = 0 /\ MenuBlur(t).armed = t.armed
BY DEF MenuBlur, Alike, PageFields, Idle

LEMMA MenuFocusIs ==
  ASSUME NEW t, DOMAIN t = PageFields, t.pending \in Int, NEW k
  PROVE  /\ Alike(t, MenuFocus(t, k)) /\ MenuFocus(t, k).active = k
         /\ MenuFocus(t, k).armed = t.armed
BY DEF MenuFocus, MenuBlur, Alike, PageFields, Idle

LEMMA MenuFocusedIs ==
  ASSUME NEW t, DOMAIN t = PageFields, t.pending \in Int, NEW k, NEW mouse
  PROVE  /\ Alike(t, MenuFocused(t, k, mouse))
         /\ MenuFocused(t, k, mouse).active \in {0, t.active}
         /\ MenuFocused(t, k, mouse).armed \in {k, t.armed}
BY DEF MenuFocused, MenuBlur, Alike, PageFields, Idle

LEMMA MoveIs ==
  ASSUME NEW t, DOMAIN t = PageFields, t.pending \in Int, IsSeq(t.items), t.items # <<>>,
         t.active \in 0 .. Len(t.items),
         NEW direction \in {"next", "previous", "nextPage", "previousPage"}
  PROVE  /\ Alike(t, Move(t, direction)) /\ Move(t, direction).active \in 1 .. Len(t.items)
         /\ Move(t, direction).armed = t.armed
<1>1. Len(t.items) \in Nat /\ Len(t.items) # 0
  BY Seqs
<1>2. PICK k : k = IF t.active < 1 THEN (IF direction = "previous" THEN Len(t.items) ELSE 1)
                   ELSE CASE direction = "next" -> IF t.active = Len(t.items) THEN 1 ELSE t.active + 1
                          [] direction = "previous" -> IF t.active = 1 THEN Len(t.items) ELSE t.active - 1
                          [] direction = "nextPage" -> Len(t.items)
                          [] direction = "previousPage" -> 1
  OBVIOUS
<1>3. Move(t, direction) = MenuFocus(t, k)
  BY <1>2 DEF Move
<1>4. k \in 1 .. Len(t.items)
  <2>1. CASE t.active < 1
    BY <1>1, <1>2, <2>1
  <2>2. CASE ~(t.active < 1)
    BY <1>1, <1>2, <2>2
  <2>. QED  BY <2>1, <2>2
<1>. QED  BY <1>3, <1>4, MenuFocusIs

(* A page that is in order but for what its menu shows, and one whose menu
   has been closed. *)
Closed(t, u) ==
  /\ DOMAIN u = PageFields /\ u.pending = t.pending
  /\ \A f \in PageFields \ (Idle \cup {"active", "visible"}) : u[f] = t[f]
  /\ ~u.visible /\ u.active = 0

LEMMA HideMenuIs ==
  ASSUME NEW t, DOMAIN t = PageFields, t.pending \in Int, ~t.visible => t.active = 0
  PROVE  Closed(t, HideMenu(t))
<1>1. CASE t.visible
  BY <1>1 DEF HideMenu, MenuBlur, Closed, PageFields, Idle
<1>2. CASE ~t.visible
  BY <1>2 DEF HideMenu, Closed
<1>. QED  BY <1>1, <1>2

LEMMA ClosedFields ==
  ASSUME NEW t, NEW u, Closed(t, u)
  PROVE  /\ DOMAIN u = PageFields /\ u.pending = t.pending
         /\ u.kind = t.kind /\ u.boot = t.boot /\ u.value = t.value /\ u.term = t.term
         /\ u.searching = t.searching /\ u.requestIndex = t.requestIndex
         /\ u.cancelSearch = t.cancelSearch /\ u.requests = t.requests
         /\ u.disabled = t.disabled /\ ~u.visible /\ u.items = t.items /\ u.active = 0
         /\ u.armed = t.armed
         /\ u.loaded = t.loaded /\ u.updater = t.updater /\ u.dismissed = t.dismissed
         /\ u.keptBlur = t.keptBlur
BY DEF Closed, PageFields, Idle

LEMMA ClosedBasic ==
  ASSUME NEW t, NEW u, Closed(t, u), Basic(t)
  PROVE  Basic(u)
<1>1. /\ DOMAIN u = PageFields /\ u.pending = t.pending
      /\ u.kind = t.kind /\ u.boot = t.boot /\ u.value = t.value /\ u.term = t.term
      /\ u.searching = t.searching /\ u.requestIndex = t.requestIndex
      /\ u.cancelSearch = t.cancelSearch /\ u.requests = t.requests
      /\ u.disabled = t.disabled /\ ~u.visible /\ u.items = t.items /\ u.active = 0
      /\ u.armed = t.armed /\ u.loaded = t.loaded /\ u.updater = t.updater /\ u.dismissed = t.dismissed
      /\ u.keptBlur = t.keptBlur
  BY ClosedFields
<1>2. Typed(u)
  BY <1>1 DEF Typed, Basic
<1>3. MenuOK(u)
  <2>1. Len(t.items) \in Nat
    BY Seqs DEF Basic, MenuOK
  <2>. QED  BY <1>1, <2>1 DEF MenuOK, Basic
<1>4. RequestsOK(u)
  BY <1>1 DEF RequestsOK, Basic
<1>5. MarkOK(u)
  BY <1>1 DEF MarkOK, Basic
<1>. QED  BY <1>1, <1>2, <1>3, <1>4, <1>5 DEF Basic

(* close(): nothing that was asked for will be shown. *)
LEMMA CloseOK ==
  ASSUME NEW t, Basic(t)
  PROVE  Basic(Close(t)) /\ Shown(Close(t)) /\ Close(t).cancelSearch
         /\ Close(t).term = t.term /\ Close(t).updater = t.updater
<1>1. PICK s : s = [t EXCEPT !.cancelSearch = TRUE]
  OBVIOUS
<1>2. DOMAIN t = PageFields
  BY DEF Basic, Typed
<1>3. /\ DOMAIN s = PageFields /\ s.cancelSearch
      /\ \A f \in PageFields \ {"cancelSearch"} : s[f] = t[f]
  BY <1>1, <1>2 DEF PageFields
<1>4. /\ s.kind = t.kind /\ s.boot = t.boot /\ s.value = t.value /\ s.term = t.term
      /\ s.searching = t.searching /\ s.requestIndex = t.requestIndex
      /\ s.requests = t.requests /\ s.disabled = t.disabled /\ s.visible = t.visible
      /\ s.items = t.items /\ s.active = t.active /\ s.pending = t.pending
      /\ s.armed = t.armed
      /\ s.loaded = t.loaded /\ s.updater = t.updater /\ s.keptBlur = t.keptBlur
  BY <1>3 DEF PageFields
<1>5. Basic(s)
  <2>1. Typed(s)
    BY <1>3, <1>4 DEF Typed, Basic
  <2>2. MenuOK(s)
    BY <1>4 DEF MenuOK, Basic
  <2>3. RequestsOK(s)
    BY <1>4 DEF RequestsOK, Basic
  <2>4. MarkOK(s)
    BY <1>4 DEF MarkOK, Basic
  <2>. QED  BY <1>4, <2>1, <2>2, <2>3, <2>4 DEF Basic
<1>6. Closed(s, HideMenu(s))
  BY <1>5, HideMenuIs DEF Basic, Typed, MenuOK
<1>7. PICK u : u = HideMenu(s) /\ u = Close(t)
  BY <1>1 DEF Close
<1>8. Basic(u)
  BY <1>5, <1>6, <1>7, ClosedBasic
<1>9. /\ u.cancelSearch /\ ~u.visible /\ u.term = t.term /\ u.updater = t.updater
  <2>1. u.cancelSearch = s.cancelSearch /\ ~u.visible /\ u.term = s.term /\ u.updater = s.updater
    BY <1>6, <1>7, ClosedFields
  <2>. QED  BY <1>3, <1>4, <2>1
<1>10. Shown(u)
  BY <1>9 DEF Shown
<1>. QED  BY <1>7, <1>8, <1>9, <1>10

-----------------------------------------------------------------------------
(* _suggest() and the answers. *)
Opened(t, u, items) ==
  /\ DOMAIN u = PageFields /\ u.pending = t.pending
  /\ \A f \in PageFields \ (Idle \cup {"active", "visible", "items", "armed"}) : u[f] = t[f]
  /\ u.visible /\ u.items = items /\ u.active \in 0 .. Len(items) /\ u.armed \in {0, -1}

LEMMA SuggestIs ==
  ASSUME NEW t, DOMAIN t = PageFields, t.pending \in Int, NEW items, IsSeq(items), items # <<>>
  PROVE  Opened(t, Suggest(t, items), items)
<1>1. PICK s : s = [t EXCEPT !.items = items, !.isNewMenu = TRUE,
                             !.active = IF @ = 0 THEN 0 ELSE -1,
                             !.armed = IF @ = 0 THEN 0 ELSE -1]
  OBVIOUS
<1>2. /\ DOMAIN s = PageFields /\ s.items = items /\ s.active \in {0, -1} /\ s.armed \in {0, -1}
      /\ \A f \in PageFields \ {"items", "isNewMenu", "active", "armed"} : s[f] = t[f]
  BY <1>1 DEF PageFields
<1>3. PICK r : r = Refresh(s)
  OBVIOUS
<1>4. /\ DOMAIN r = PageFields /\ r.items = items /\ r.active = 0 /\ r.armed \in {0, -1}
      /\ \A f \in PageFields \ {"items", "isNewMenu", "active", "armed", "timer"} : r[f] = t[f]
  <2>1. CASE s.active = -1
    <3>1. r = MenuBlur(s)
      BY <1>3, <2>1 DEF Refresh
    <3>. QED  BY <1>2, <3>1 DEF MenuBlur, PageFields
  <2>2. CASE s.active # -1
    <3>1. r = s
      BY <1>3, <2>2 DEF Refresh
    <3>. QED  BY <1>2, <2>2, <3>1
  <2>. QED  BY <2>1, <2>2
<1>5. PICK v : v = [r EXCEPT !.visible = TRUE]
  OBVIOUS
<1>6. /\ DOMAIN v = PageFields /\ v.items = items /\ v.active = 0 /\ v.visible
      /\ v.armed \in {0, -1}
      /\ \A f \in PageFields \ {"items", "isNewMenu", "active", "armed", "timer", "visible"} : v[f] = t[f]
      /\ v.pending = t.pending /\ v.kind = t.kind
  BY <1>4, <1>5 DEF PageFields
<1>7. Suggest(t, items) = IF t.kind = "page" THEN MenuFocused(Move(v, "next"), 1, FALSE) ELSE v
  <2>1. Suggest(t, items) = IF r.kind = "page" \/ t.kind = "page"
                            THEN MenuFocused(Move(v, "next"), 1, FALSE) ELSE v
    <3>1. r.kind = t.kind
      BY <1>4 DEF PageFields
    <3>. QED  BY <1>1, <1>3, <1>5, <3>1 DEF Suggest
  <2>2. r.kind = t.kind
    BY <1>4 DEF PageFields
  <2>. QED  BY <2>1, <2>2
<1>8. Len(items) \in Nat
  BY Seqs
<1>9. Opened(t, v, items)
  BY <1>6, <1>8 DEF Opened, Idle
<1>10. ASSUME NEW x, Alike(v, x), x.pending = v.pending, x.active \in 0 .. Len(items),
              x.armed = v.armed
       PROVE  Opened(t, x, items)
  <2>1. x.items = items /\ x.visible /\ DOMAIN x = PageFields
    BY <1>6, <1>10 DEF Alike, PageFields, Idle
  <2>2. \A f \in PageFields \ (Idle \cup {"active", "visible", "items", "armed"}) : x[f] = t[f]
    BY <1>6, <1>10 DEF Alike, Idle
  <2>. QED  BY <1>6, <1>10, <2>1, <2>2 DEF Opened
<1>11. CASE t.kind = "page"
  <2>1. PICK m : m = Move(v, "next") /\ Alike(v, m) /\ m.active \in 1 .. Len(items)
                /\ m.armed = v.armed
    BY <1>6, <1>8, MoveIs
  <2>2. DOMAIN m = PageFields /\ m.pending \in Int
    BY <2>1 DEF Alike
  <2>3. PICK x : x = MenuFocused(m, 1, FALSE) /\ Alike(m, x) /\ x.active \in {0, m.active}
    BY <2>2, MenuFocusedIs
  <2>4. m.pending = v.pending
    BY <1>6, <2>1 DEF Move, MenuFocus, MenuBlur, PageFields
  <2>5. x.pending = m.pending /\ x.armed = m.armed
    BY <2>2, <2>3 DEF MenuFocused, MenuBlur, PageFields
  <2>6. Alike(v, x)
    BY <2>1, <2>3 DEF Alike
  <2>7. x.active \in 0 .. Len(items)
    <3>1. PICK n \in Nat : n = Len(items)
      BY <1>8
    <3>2. m.active \in 1 .. n
      BY <2>1, <3>1
    <3>3. 0 \in 0 .. n /\ m.active \in 0 .. n
      BY <3>2
    <3>. QED  BY <2>3, <3>1, <3>3
  <2>8. Opened(t, x, items)
    BY <1>10, <2>1, <2>4, <2>5, <2>6, <2>7
  <2>. QED  BY <1>7, <1>11, <2>1, <2>3, <2>8
<1>. QED  BY <1>7, <1>9, <1>11

(* What is kept when an answer comes in. *)
Rest(t, u) ==
  /\ DOMAIN u = PageFields /\ u.pending \in Int
  /\ u.kind = t.kind /\ u.boot = t.boot /\ u.value = t.value /\ u.term = t.term
  /\ u.searching = t.searching /\ u.requestIndex = t.requestIndex
  /\ u.cancelSearch = t.cancelSearch /\ u.requests = t.requests
  /\ u.disabled = t.disabled /\ u.loaded = t.loaded /\ u.updater = t.updater
  /\ u.dismissed = t.dismissed /\ u.keptBlur = t.keptBlur

Content(t, items) ==
  IF t.kind = "page" /\ items = <<>>
  THEN <<[of |-> "no results", term |-> Empty]>> ELSE items

(* The menu is shown or closed by an answer. *)
Answers(t, u, items) ==
  IF ~t.disabled /\ Content(t, items) # <<>> /\ ~t.cancelSearch
  THEN u.visible /\ u.items = Content(t, items)
  ELSE ~u.visible

LEMMA RestBasic ==
  ASSUME NEW t, Basic(t), NEW u, Rest(t, u),
         IsSeq(u.items), u.active \in 0 .. Len(u.items), ~u.visible => u.active = 0,
         u.armed \in -1 .. Len(u.items),
         t.kind # "page" =>
           \A k \in DOMAIN u.items : u.items[k].term \in Values \ {Watermark}
  PROVE  Basic(u)
<1>1. Typed(u)
  BY DEF Basic, Rest, Typed
<1>2. MenuOK(u)
  BY DEF MenuOK
<1>3. RequestsOK(u)
  BY DEF Basic, Rest, RequestsOK
<1>4. MarkOK(u)
  BY DEF Basic, Rest, MarkOK
<1>5. BootOK(u.boot)
  BY DEF Basic, Rest
<1>. QED  BY <1>1, <1>2, <1>3, <1>4, <1>5 DEF Basic

LEMMA RespondedIs ==
  ASSUME NEW t, Basic(t), NEW items, IsSeq(items),
         t.kind # "page" => \A k \in DOMAIN items : items[k].term \in Values \ {Watermark}
  PROVE  /\ Basic(Responded(t, items)) /\ Rest(t, Responded(t, items))
         /\ Answers(t, Responded(t, items), items)
<1>1. PICK c : c = Content(t, items)
  OBVIOUS
<1>2. IsSeq(c) /\ (t.kind # "page" => c = items)
  <2>1. c = items \/ c = <<[of |-> "no results", term |-> Empty]>>
    BY <1>1 DEF Content
  <2>. QED  BY <1>1, <2>1, Seqs DEF Content
<1>3. DOMAIN t = PageFields /\ t.pending \in Int /\ (~t.visible => t.active = 0)
      /\ IsSeq(t.items) /\ Len(t.items) \in Nat
  BY Seqs DEF Basic, Typed, MenuOK
<1>4. CASE ~t.disabled /\ c # <<>> /\ ~t.cancelSearch
  <2>1. PICK u : u = Suggest(t, c) /\ u = Responded(t, items)
    BY <1>1, <1>4 DEF Responded, Content
  <2>2. Opened(t, u, c)
    BY <1>2, <1>3, <1>4, <2>1, SuggestIs
  <2>3. Rest(t, u) /\ u.visible /\ u.items = c /\ u.active \in 0 .. Len(c)
        /\ u.armed \in {0, -1}
    BY <1>3, <2>2 DEF Opened, Rest, PageFields, Idle
  <2>4. Basic(u)
    <3>1. PICK n \in Nat : n = Len(c)
      BY <1>2, Seqs
    <3>2. u.armed \in -1 .. n
      BY <2>3
    <3>. QED  BY <1>2, <2>3, <3>1, <3>2, RestBasic
  <2>. QED  BY <1>1, <1>4, <2>1, <2>3, <2>4 DEF Answers
<1>5. CASE ~(~t.disabled /\ c # <<>> /\ ~t.cancelSearch)
  <2>1. PICK u : u = HideMenu(t) /\ u = Responded(t, items)
    BY <1>1, <1>5 DEF Responded, Content
  <2>2. Closed(t, u)
    BY <1>3, <2>1, HideMenuIs
  <2>3. Rest(t, u) /\ ~u.visible
    BY <1>3, <2>2, ClosedFields DEF Rest
  <2>4. Basic(u)
    BY <2>2, ClosedBasic
  <2>. QED  BY <1>1, <1>5, <2>1, <2>3, <2>4 DEF Answers
<1>. QED  BY <1>4, <1>5

LEMMA AnsweredIs ==
  ASSUME NEW t, Basic(t)
  PROVE  /\ Basic(Answered(t)) /\ Rest(t, Answered(t))
         /\ Answered(t).visible = t.visible /\ Answered(t).items = t.items
<1>1. PICK u : u = Answered(t)
  OBVIOUS
<1>2. DOMAIN t = PageFields /\ t.pending \in Int /\ t.active \in 0 .. Len(t.items)
      /\ t.armed \in -1 .. Len(t.items)
      /\ (~t.visible => t.active = 0)
  BY DEF Basic, Typed, MenuOK
<1>3. Alike(t, u) /\ u.active = t.active /\ u.armed = t.armed
  <2>1. PICK n, l : u = [t EXCEPT !.pending = n, !.loading = l] /\ n = t.pending - 1
    BY <1>1, <1>2 DEF Answered
  <2>2. n \in Int
    BY <1>2, <2>1
  <2>. QED  BY <1>2, <2>1, <2>2 DEF Alike, PageFields, Idle
<1>4. Basic(u)
  BY <1>2, <1>3, AlikeOK
<1>5. Rest(t, u) /\ u.visible = t.visible /\ u.items = t.items
  BY <1>3, AlikeFields DEF Rest
<1>. QED  BY <1>1, <1>4, <1>5

Responds(t, u, index, items) ==
  /\ Basic(u) /\ Rest(t, u)
  /\ index # t.requestIndex => u.visible = t.visible /\ u.items = t.items
  /\ index = t.requestIndex => Answers(t, u, items)

LEMMA ResponseIs ==
  ASSUME NEW t, Basic(t), NEW index, NEW items, IsSeq(items),
         t.kind # "page" => \A k \in DOMAIN items : items[k].term \in Values \ {Watermark}
  PROVE  Responds(t, Response(t, index, items), index, items)
<1>1. PICK u : u = Response(t, index, items)
  OBVIOUS
<1>2. CASE index = t.requestIndex
  <2>1. PICK s : s = Responded(t, items) /\ Basic(s) /\ Rest(t, s) /\ Answers(t, s, items)
    BY RespondedIs
  <2>2. u = Answered(s)
    BY <1>1, <1>2, <2>1 DEF Response
  <2>3. Basic(u) /\ Rest(s, u) /\ u.visible = s.visible /\ u.items = s.items
    BY <2>1, <2>2, AnsweredIs
  <2>4. Rest(t, u) /\ Answers(t, u, items)
    BY <2>1, <2>3 DEF Rest, Answers
  <2>. QED  BY <1>1, <1>2, <2>3, <2>4 DEF Responds
<1>3. CASE index # t.requestIndex
  <2>1. u = Answered(t)
    BY <1>1, <1>3 DEF Response
  <2>. QED  BY <1>1, <1>3, <2>1, AnsweredIs DEF Responds
<1>. QED  BY <1>2, <1>3

-----------------------------------------------------------------------------
(* Searching. *)
PageOK(t) == Basic(t) /\ Shown(t)

LEMMA TermFacts ==
  /\ Watermark # Empty /\ Watermark # Blank /\ Empty # Blank
  /\ {Watermark, Empty, Blank} \cap Terms = {} /\ Terms \subseteq Values
  /\ Watermark \in Values /\ Empty \in Values /\ Blank \in Values
BY SearchPageAssumption DEF Watermark, Empty, Blank, Values

(* doSearch() for what was searched last, and for what was searched before. *)
LEMMA DoSearchOK ==
  ASSUME NEW t, Basic(t), t.kind = "page", t.requestIndex > 0, NEW term,
         term = t.term \/ t.cancelSearch, t.dismissed => t.cancelSearch
  PROVE  PageOK(DoSearch(t, term, t.requestIndex))
<1>1. CASE term = Blank
  BY <1>1, CloseOK DEF DoSearch, PageOK
<1>2. CASE term # Blank
  <2>1. PICK up : up = IF t.loaded # AllFiles
                       THEN [term |-> term, index |-> t.requestIndex] ELSE NoUpdate
    OBVIOUS
  <2>2. PICK s : s = [t EXCEPT !.updater = up]
    OBVIOUS
  <2>3. DOMAIN t = PageFields /\ t.requestIndex \in 0 .. MaxSearches /\ t.requestIndex # 0
    <3>1. DOMAIN t = PageFields /\ t.requestIndex \in 0 .. MaxSearches
      BY DEF Basic, Typed
    <3>. QED  BY <3>1, SearchPageAssumption
  <2>4. /\ DOMAIN s = PageFields /\ s.updater = up
        /\ s.kind = t.kind /\ s.boot = t.boot /\ s.value = t.value /\ s.term = t.term
        /\ s.searching = t.searching /\ s.requestIndex = t.requestIndex
        /\ s.cancelSearch = t.cancelSearch /\ s.requests = t.requests
        /\ s.disabled = t.disabled /\ s.visible = t.visible /\ s.items = t.items
        /\ s.active = t.active /\ s.pending = t.pending /\ s.armed = t.armed
        /\ s.loaded = t.loaded /\ s.dismissed = t.dismissed /\ s.keptBlur = t.keptBlur
    BY <2>2, <2>3 DEF PageFields
  <2>5. Basic(s)
    <3>1. Typed(s)
      BY <2>4 DEF Basic, Typed
    <3>2. MenuOK(s)
      BY <2>4 DEF Basic, MenuOK
    <3>3. RequestsOK(s)
      BY <2>3, <2>4 DEF Basic, RequestsOK
    <3>4. MarkOK(s)
      BY <2>4 DEF Basic, MarkOK
    <3>. QED  BY <2>4, <3>1, <3>2, <3>3, <3>4 DEF Basic
  <2>6. PICK found : found = Found(s, term) /\ IsSeq(found)
    BY FoundSeq
  <2>7. PICK u : u = Response(s, s.requestIndex, found) /\ u = DoSearch(t, term, t.requestIndex)
    BY <1>2, <2>1, <2>2, <2>4, <2>6 DEF DoSearch
  <2>8. Basic(u) /\ Rest(s, u) /\ Answers(s, u, found)
    <3>1. s.kind = "page"
      BY <2>4
    <3>2. Responds(s, u, s.requestIndex, found)
      BY ONLY <2>5, <2>6, <2>7, <3>1, ResponseIs
    <3>. QED  BY <3>2 DEF Responds
  <2>9. \A x : Found(u, x) = Found(s, x)
    BY <2>8, FoundSame DEF Rest
  <2>10. u.visible =>
           /\ ~t.cancelSearch /\ u.items # <<>>
           /\ u.items = found \/ (found = <<>> /\ u.items[1].of = "no results")
    <3>1. PICK c, none : c = Content(s, found) /\ none = [of |-> "no results", term |-> Empty]
      OBVIOUS
    <3>2. u.visible => ~s.cancelSearch /\ c # <<>> /\ u.items = c
      BY <2>8, <3>1 DEF Answers
    <3>3. c = found \/ (found = <<>> /\ c = <<none>>)
      BY <3>1 DEF Content
    <3>4. <<none>>[1].of = "no results"
      BY <3>1
    <3>. QED  BY <2>4, <3>2, <3>3, <3>4, ZenonT(60)
  <2>11. u.visible => ShowsFound(u)
    BY <2>4, <2>6, <2>8, <2>9, <2>10, ZenonT(60) DEF ShowsFound, Rest
  <2>12. ~u.cancelSearch =>
           u.loaded = AllFiles \/ u.updater = [term |-> u.term, index |-> u.requestIndex]
    BY <2>1, <2>4, <2>8 DEF Rest
  <2>13. u.requests = {}
    BY <2>4, <2>8 DEF Rest, Basic, RequestsOK
  <2>14. /\ u.visible => ~u.cancelSearch /\ u.items # <<>> /\ u.requestIndex > 0
         /\ u.dismissed => u.cancelSearch
    BY <2>4, <2>8, <2>10 DEF Rest
  <2>15. Shown(u)
    BY <2>11, <2>12, <2>13, <2>14 DEF Shown
  <2>. QED  BY <2>7, <2>8, <2>15 DEF PageOK
<1>. QED  BY <1>1, <1>2

LEMMA DoSearchOld ==
  ASSUME NEW t, Basic(t), t.kind = "page", NEW term, NEW index, index # t.requestIndex,
         ~t.visible, t.cancelSearch, t.requestIndex # 0
  PROVE  PageOK(DoSearch(t, term, index))
<1>1. CASE term = Blank
  BY <1>1, CloseOK DEF DoSearch, PageOK
<1>2. CASE term # Blank
  <2>1. PICK up : up = IF t.loaded # AllFiles
                       THEN [term |-> term, index |-> index] ELSE NoUpdate
    OBVIOUS
  <2>2. PICK s : s = [t EXCEPT !.updater = up]
    OBVIOUS
  <2>3. DOMAIN t = PageFields
    BY DEF Basic, Typed
  <2>4. /\ DOMAIN s = PageFields /\ s.updater = up
        /\ s.kind = t.kind /\ s.boot = t.boot /\ s.value = t.value /\ s.term = t.term
        /\ s.searching = t.searching /\ s.requestIndex = t.requestIndex
        /\ s.cancelSearch = t.cancelSearch /\ s.requests = t.requests
        /\ s.disabled = t.disabled /\ s.visible = t.visible /\ s.items = t.items
        /\ s.active = t.active /\ s.pending = t.pending /\ s.armed = t.armed
        /\ s.loaded = t.loaded /\ s.dismissed = t.dismissed /\ s.keptBlur = t.keptBlur
    BY <2>2, <2>3 DEF PageFields
  <2>5. Basic(s)
    <3>1. Typed(s)
      BY <2>4 DEF Basic, Typed
    <3>2. MenuOK(s)
      BY <2>4 DEF Basic, MenuOK
    <3>3. RequestsOK(s)
      BY <1>2, <2>4 DEF Basic, RequestsOK
    <3>4. MarkOK(s)
      BY <2>4 DEF Basic, MarkOK
    <3>. QED  BY <2>4, <3>1, <3>2, <3>3, <3>4 DEF Basic
  <2>6. PICK found : found = Found(s, term) /\ IsSeq(found)
    BY FoundSeq
  <2>7. PICK u : u = Response(s, index, found) /\ u = DoSearch(t, term, index)
    BY <1>2, <2>1, <2>2, <2>6 DEF DoSearch
  <2>8. Basic(u) /\ Rest(s, u) /\ u.visible = s.visible
    <3>1. s.kind = "page" /\ index # s.requestIndex
      BY <2>4
    <3>2. Responds(s, u, index, found)
      BY ONLY <2>5, <2>6, <2>7, <3>1, ResponseIs
    <3>. QED  BY <3>1, <3>2 DEF Responds
  <2>9. u.requests = {}
    BY <2>4, <2>8 DEF Rest, Basic, RequestsOK
  <2>10. ~u.visible /\ u.cancelSearch
    BY <1>2, <2>4, <2>8 DEF Rest
  <2>11. Shown(u)
    BY <2>9, <2>10 DEF Shown
  <2>. QED  BY <2>7, <2>8, <2>11 DEF PageOK
<1>. QED  BY <1>1, <1>2

(* A request to a URL that is aborted: when it was the last one made, the
   menu is closed; when it has been followed by another, nothing. *)
LEMMA AbortedIs ==
  ASSUME NEW t, Basic(t) \/ (Basic([t EXCEPT !.requests = {}]) /\ DOMAIN t = PageFields)
  PROVE  LET u == Aborted(t) IN
         \/ u = t
         \/ /\ t.kind = "url" /\ t.requests # {}
            /\ Basic(u) /\ Rest([t EXCEPT !.requests = {}], u)
            /\ \E r \in t.requests :
                 /\ r.index # t.requestIndex => u.visible = t.visible /\ u.items = t.items
                 /\ r.index = t.requestIndex => ~u.visible
<1>1. PICK u : u = Aborted(t)
  OBVIOUS
<1>2. CASE t.kind # "url" \/ t.requests = {}
  BY <1>1, <1>2 DEF Aborted
<1>3. CASE t.kind = "url" /\ t.requests # {}
  <2>1. PICK s : s = [t EXCEPT !.requests = {}]
    OBVIOUS
  <2>2. DOMAIN t = PageFields
    BY DEF Basic, Typed
  <2>3. /\ DOMAIN s = PageFields /\ s.requests = {}
        /\ s.kind = t.kind /\ s.boot = t.boot /\ s.value = t.value /\ s.term = t.term
        /\ s.searching = t.searching /\ s.requestIndex = t.requestIndex
        /\ s.cancelSearch = t.cancelSearch /\ s.updater = t.updater
        /\ s.disabled = t.disabled /\ s.visible = t.visible /\ s.items = t.items
        /\ s.active = t.active /\ s.pending = t.pending /\ s.armed = t.armed
        /\ s.loaded = t.loaded /\ s.dismissed = t.dismissed /\ s.keptBlur = t.keptBlur
    BY <2>1, <2>2 DEF PageFields
  <2>4. Basic(s)
    <3>1. CASE Basic(t)
      <4>1. Typed(s)
        BY <2>3, <3>1 DEF Basic, Typed
      <4>2. MenuOK(s)
        BY <2>3, <3>1 DEF Basic, MenuOK
      <4>3. RequestsOK(s)
        BY <2>3, <3>1 DEF Basic, RequestsOK
      <4>4. MarkOK(s)
        BY <2>3, <3>1 DEF Basic, MarkOK
      <4>. QED  BY <2>3, <3>1, <4>1, <4>2, <4>3, <4>4 DEF Basic
    <3>. QED  BY <2>1, <3>1
  <2>5. PICK r \in t.requests : u = Response(s, r.index, <<>>)
    <3>1. PICK r : r = CHOOSE q \in t.requests : TRUE
      OBVIOUS
    <3>2. r \in t.requests
      BY <1>3, <3>1
    <3>3. u = Response(s, r.index, <<>>)
      BY <1>1, <1>3, <2>1, <3>1 DEF Aborted
    <3>. QED  BY <3>2, <3>3
  <2>6. \A k \in DOMAIN <<>> : <<>>[k].term \in Values \ {Watermark}
    OBVIOUS
  <2>7. /\ Basic(u) /\ Rest(s, u)
        /\ r.index # s.requestIndex => u.visible = s.visible /\ u.items = s.items
        /\ r.index = s.requestIndex => Answers(s, u, <<>>)
    <3>1. Responds(s, u, r.index, <<>>)
      BY ONLY <2>4, <2>5, <2>6, Seqs, ResponseIs
    <3>. QED  BY <3>1 DEF Responds
  <2>8. Content(s, <<>>) = <<>>
    BY <1>3, <2>3 DEF Content
  <2>9. r.index = t.requestIndex => ~u.visible
    BY <2>3, <2>7, <2>8 DEF Answers
  <2>. QED  BY <1>1, <1>3, <2>1, <2>3, <2>5, <2>7, <2>9
<1>. QED  BY <1>2, <1>3

(* What a search sets before it asks its source. *)
LEMMA SearchBegun ==
  ASSUME NEW t, PageOK(t), t.requestIndex < MaxSearches, t.value # Watermark \/ t.keptBlur,
         t.value # Empty
  PROVE  \E x, n :
           /\ n = t.requestIndex + 1 /\ n \in 1 .. MaxSearches
           /\ Search(t) = IF t.kind = "page" THEN DoSearch(x, x.term, n)
                          ELSE [Aborted(x) EXCEPT !.requests = @ \cup {[index |-> n, term |-> x.term]}]
           /\ DOMAIN x = PageFields /\ x.pending \in Int
           /\ x.kind = t.kind /\ x.term = t.value /\ x.requestIndex = n
           /\ ~x.cancelSearch /\ ~x.dismissed /\ x.requests = t.requests
           /\ x.visible = t.visible /\ x.items = t.items
           /\ \A r \in t.requests : r.index \in 1 .. n - 1
           /\ Basic([x EXCEPT !.requests = {}])
           /\ t.kind # "url" \/ t.requests = {} => Basic(x)
<1>0. Basic(t) /\ DOMAIN t = PageFields /\ t.requestIndex \in 0 .. MaxSearches /\ MaxSearches \in Nat
  BY SearchPageAssumption DEF PageOK, Basic, Typed
<1>1. PICK n : n = t.requestIndex + 1
  OBVIOUS
<1>2. n \in 1 .. MaxSearches /\ n - 1 = t.requestIndex /\ n # 0
  BY <1>0, <1>1
<1>3. PICK d : d = [[t EXCEPT !.term = t.value] EXCEPT !.dismissed = FALSE]
  OBVIOUS
<1>4. Search(t) = Source(d)
  BY <1>3 DEF Search
<1>5. /\ DOMAIN d = PageFields /\ d.term = t.value /\ ~d.dismissed
      /\ \A f \in PageFields \ {"term", "dismissed"} : d[f] = t[f]
  BY <1>0, <1>3 DEF PageFields
<1>6. d.requestIndex = t.requestIndex /\ d.kind = t.kind /\ d.pending = t.pending
  BY <1>5 DEF PageFields
<1>7. PICK x : x = [d EXCEPT !.pending = @ + 1, !.loading = TRUE, !.cancelSearch = FALSE,
                             !.requestIndex = n]
  OBVIOUS
<1>8. /\ DOMAIN x = PageFields /\ x.pending = d.pending + 1 /\ ~x.cancelSearch /\ x.requestIndex = n
      /\ \A f \in PageFields \ {"pending", "loading", "cancelSearch", "requestIndex"} : x[f] = d[f]
  BY <1>5, <1>7 DEF PageFields
<1>9. Source(d) = IF t.kind = "page" THEN DoSearch(x, x.term, n)
                  ELSE [Aborted(x) EXCEPT !.requests = @ \cup {[index |-> n, term |-> x.term]}]
  <2>1. x.kind = t.kind /\ x.kind = d.kind
    BY <1>6, <1>8 DEF PageFields
  <2>2. Source(d) = IF x.kind = "page" THEN DoSearch(x, x.term, n)
                    ELSE [Aborted(x) EXCEPT !.requests = @ \cup {[index |-> n, term |-> x.term]}]
    BY <1>1, <1>6, <1>7, <2>1 DEF Source
  <2>. QED  BY <2>1, <2>2
<1>10. /\ x.kind = t.kind /\ x.boot = t.boot /\ x.value = t.value /\ x.term = t.value
       /\ x.searching = t.searching /\ x.requests = t.requests
       /\ x.disabled = t.disabled /\ x.visible = t.visible /\ x.items = t.items
       /\ x.active = t.active /\ x.armed = t.armed /\ x.pending = t.pending + 1 /\ ~x.dismissed
       /\ x.loaded = t.loaded /\ x.updater = t.updater /\ x.keptBlur = t.keptBlur
  <2>1. \A f \in PageFields \ {"pending", "loading", "cancelSearch", "requestIndex", "term", "dismissed"} :
          x[f] = t[f]
    BY <1>5, <1>8
  <2>2. x.term = d.term /\ x.dismissed = d.dismissed
    BY <1>8 DEF PageFields
  <2>3. x.pending = t.pending + 1
    BY <1>6, <1>8
  <2>. QED  BY <1>5, <2>1, <2>2, <2>3 DEF PageFields
<1>11. x.pending \in Int
  BY <1>0, <1>10 DEF Basic, Typed
<1>12. \A r \in t.requests : r.index \in 1 .. n - 1
  BY <1>0, <1>2 DEF Basic, RequestsOK
<1>13. ASSUME NEW y, DOMAIN y = PageFields,
              y.kind = x.kind /\ y.boot = x.boot /\ y.value = x.value /\ y.term = x.term,
              y.searching = x.searching /\ y.requestIndex = x.requestIndex,
              y.disabled = x.disabled /\ y.visible = x.visible /\ y.items = x.items,
              y.active = x.active /\ y.armed = x.armed /\ y.pending = x.pending,
              y.loaded = x.loaded /\ y.updater = x.updater /\ y.keptBlur = x.keptBlur,
              y.requests = {} \/ (y.requests = t.requests /\ t.kind # "url")
       PROVE  Basic(y)
  <2>1. Typed(y)
    <3>1. n \in 0 .. MaxSearches
      BY <1>0, <1>2
    <3>. QED  BY <1>0, <1>8, <1>10, <1>11, <1>13, <3>1 DEF Basic, Typed
  <2>2. MenuOK(y)
    BY <1>0, <1>10, <1>13 DEF Basic, MenuOK
  <2>3. RequestsOK(y)
    <3>1. \A r \in y.requests : r \in t.requests /\ r.index \in 1 .. n
      BY <1>0, <1>2, <1>12, <1>13
    <3>2. /\ y.requestIndex = n /\ y.kind = t.kind /\ y.disabled = t.disabled
          /\ y.updater = t.updater /\ n # 0
      BY <1>2, <1>8, <1>10, <1>13
    <3>3. y.kind # "page" \/ y.requestIndex = 0 => y.updater = NoUpdate
      BY <1>0, <3>2 DEF Basic, RequestsOK
    <3>. QED  BY <1>0, <1>2, <1>13, <3>1, <3>2, <3>3 DEF Basic, RequestsOK
  <2>4. MarkOK(y)
    BY <1>0, <1>10, <1>13 DEF Basic, MarkOK
  <2>5. BootOK(y.boot)
    BY <1>0, <1>10, <1>13 DEF Basic
  <2>. QED  BY <2>1, <2>2, <2>3, <2>4, <2>5 DEF Basic
<1>14. Basic([x EXCEPT !.requests = {}])
  <2>1. PICK y : y = [x EXCEPT !.requests = {}]
    OBVIOUS
  <2>2. /\ DOMAIN y = PageFields /\ y.requests = {}
        /\ y.kind = x.kind /\ y.boot = x.boot /\ y.value = x.value /\ y.term = x.term
        /\ y.searching = x.searching /\ y.requestIndex = x.requestIndex
        /\ y.disabled = x.disabled /\ y.visible = x.visible /\ y.items = x.items
        /\ y.active = x.active /\ y.armed = x.armed /\ y.pending = x.pending
        /\ y.loaded = x.loaded /\ y.updater = x.updater /\ y.keptBlur = x.keptBlur
    BY <1>8, <2>1 DEF PageFields
  <2>. QED  BY <1>13, <2>1, <2>2
<1>15. t.kind # "url" \/ t.requests = {} => Basic(x)
  BY <1>8, <1>10, <1>13
<1>. QED  BY <1>1, <1>2, <1>4, <1>8, <1>9, <1>10, <1>11, <1>12, <1>14, <1>15

LEMMA SearchOK ==
  ASSUME NEW t, PageOK(t), t.requestIndex < MaxSearches, t.value # Watermark \/ t.keptBlur
  PROVE  PageOK(Search(t))
<1>0. Basic(t) /\ Shown(t) /\ DOMAIN t = PageFields
  BY DEF PageOK, Basic, Typed
<1>1. CASE t.value = Empty
  <2>1. PICK s : s = [t EXCEPT !.term = t.value]
    OBVIOUS
  <2>2. Search(t) = Close(s)
    BY <1>1, <2>1 DEF Search
  <2>3. /\ DOMAIN s = PageFields /\ s.term = t.value
        /\ s.kind = t.kind /\ s.boot = t.boot /\ s.value = t.value
        /\ s.searching = t.searching /\ s.requestIndex = t.requestIndex
        /\ s.requests = t.requests /\ s.disabled = t.disabled /\ s.visible = t.visible
        /\ s.items = t.items /\ s.active = t.active /\ s.armed = t.armed /\ s.pending = t.pending
        /\ s.loaded = t.loaded /\ s.updater = t.updater /\ s.keptBlur = t.keptBlur
    BY <1>0, <2>1 DEF PageFields
  <2>4. Basic(s)
    <3>1. Typed(s)
      BY <1>0, <2>3 DEF Basic, Typed
    <3>2. MenuOK(s)
      BY <1>0, <2>3 DEF Basic, MenuOK
    <3>3. RequestsOK(s)
      BY <1>0, <2>3 DEF Basic, RequestsOK
    <3>4. MarkOK(s)
      BY <1>0, <1>1, <2>3, TermFacts DEF Basic, MarkOK
    <3>. QED  BY <1>0, <2>3, <3>1, <3>2, <3>3, <3>4 DEF Basic
  <2>. QED  BY <2>2, <2>4, CloseOK DEF PageOK
<1>2. CASE t.value # Empty
  <2>1. PICK x, n :
           /\ n = t.requestIndex + 1 /\ n \in 1 .. MaxSearches
           /\ Search(t) = IF t.kind = "page" THEN DoSearch(x, x.term, n)
                          ELSE [Aborted(x) EXCEPT !.requests = @ \cup {[index |-> n, term |-> x.term]}]
           /\ DOMAIN x = PageFields /\ x.pending \in Int
           /\ x.kind = t.kind /\ x.term = t.value /\ x.requestIndex = n
           /\ ~x.cancelSearch /\ ~x.dismissed /\ x.requests = t.requests
           /\ x.visible = t.visible /\ x.items = t.items
           /\ \A r \in t.requests : r.index \in 1 .. n - 1
           /\ Basic([x EXCEPT !.requests = {}])
           /\ t.kind # "url" \/ t.requests = {} => Basic(x)
    BY <1>2, SearchBegun
  <2>2. n \in Nat /\ n > 0 /\ n \notin 1 .. n - 1
    BY <2>1, SearchPageAssumption
  <2>3. CASE t.kind = "page"
    <3>1. Search(t) = DoSearch(x, x.term, x.requestIndex)
      BY <2>1, <2>3
    <3>2. Basic(x) /\ x.kind = "page" /\ x.requestIndex > 0 /\ ~x.dismissed
      BY <2>1, <2>2, <2>3
    <3>. QED  BY ONLY <3>1, <3>2, DoSearchOK
  <2>4. CASE t.kind # "page"
    <3>1. PICK a : a = Aborted(x)
      OBVIOUS
    <3>2. PICK new : new = [index |-> n, term |-> x.term]
      OBVIOUS
    <3>3. /\ Basic(a) /\ a.kind = t.kind /\ a.term = t.value /\ a.requestIndex = n
          /\ ~a.cancelSearch /\ ~a.dismissed /\ a.visible = t.visible /\ a.items = t.items
          /\ a.requests \subseteq t.requests /\ (t.kind = "url" => a.requests = {})
      <4>1. CASE a = x /\ (t.kind # "url" \/ t.requests = {})
        BY <2>1, <4>1
      <4>2. CASE ~(a = x /\ (t.kind # "url" \/ t.requests = {}))
        <5>1. PICK s : s = [x EXCEPT !.requests = {}]
          OBVIOUS
        <5>2. /\ s.kind = x.kind /\ s.term = x.term /\ s.requestIndex = x.requestIndex
              /\ s.cancelSearch = x.cancelSearch /\ s.dismissed = x.dismissed /\ s.requests = {}
          BY <2>1, <5>1 DEF PageFields
        <5>3. x.kind = "url" /\ x.requests # {}
          BY <2>1, <3>1, <4>2 DEF Aborted
        <5>4. \/ a = x
              \/ /\ x.kind = "url" /\ x.requests # {}
                 /\ Basic(a) /\ Rest(s, a)
                 /\ \E r \in x.requests :
                      /\ r.index # x.requestIndex => a.visible = x.visible /\ a.items = x.items
                      /\ r.index = x.requestIndex => ~a.visible
          <6>1. Basic(s) /\ DOMAIN x = PageFields
            BY <2>1, <5>1
          <6>. QED  BY ONLY <3>1, <5>1, <6>1, AbortedIs
        <5>5. a # x
          <6>1. a = Response(s, (CHOOSE r \in x.requests : TRUE).index, <<>>)
            BY <3>1, <5>1, <5>3 DEF Aborted
          <6>2. s.kind # "page" /\ \A k \in DOMAIN <<>> : <<>>[k].term \in Values \ {Watermark}
            BY <5>2, <5>3
          <6>3. Basic(s)
            BY <2>1, <5>1
          <6>4. Rest(s, a)
            BY ONLY <6>1, <6>2, <6>3, Seqs, ResponseIs DEF Responds
          <6>. QED  BY <5>2, <5>3, <6>4 DEF Rest
        <5>6. a.visible = x.visible /\ a.items = x.items
          BY <2>1, <2>2, <5>4, <5>5
        <5>. QED  BY <2>1, <5>2, <5>4, <5>5, <5>6 DEF Rest
      <4>. QED  BY <4>1, <4>2
    <3>4. PICK z : z = Search(t)
      OBVIOUS
    <3>5. z = [a EXCEPT !.requests = @ \cup {new}]
      BY <2>1, <2>4, <3>1, <3>2, <3>4
    <3>6. DOMAIN a = PageFields
      BY <3>3 DEF Basic, Typed
    <3>7. /\ DOMAIN z = PageFields /\ z.requests = a.requests \cup {new}
          /\ z.kind = a.kind /\ z.boot = a.boot /\ z.value = a.value /\ z.term = a.term
          /\ z.searching = a.searching /\ z.requestIndex = a.requestIndex
          /\ z.cancelSearch = a.cancelSearch /\ z.dismissed = a.dismissed
          /\ z.disabled = a.disabled /\ z.visible = a.visible /\ z.items = a.items
          /\ z.active = a.active /\ z.armed = a.armed /\ z.pending = a.pending
          /\ z.loaded = a.loaded /\ z.updater = a.updater /\ z.keptBlur = a.keptBlur
      BY <3>5, <3>6 DEF PageFields
    <3>8. new.index = n /\ new.term = t.value /\ t.value \in Values \ {Watermark}
      <4>1. t.value \in Values /\ t.value # Watermark
        BY <1>0, <2>4 DEF Basic, Typed, MarkOK
      <4>. QED  BY <2>1, <3>2, <4>1
    <3>9. \A q \in a.requests : q.index \in 1 .. n - 1 /\ q.index # n /\ q.index \in 1 .. n
      BY <2>1, <2>2, <3>3
    <3>10. Basic(z)
      <4>1. Typed(z)
        BY <3>3, <3>7 DEF Basic, Typed
      <4>2. MenuOK(z)
        BY <3>3, <3>7 DEF Basic, MenuOK
      <4>3. RequestsOK(z)
        <5>1. n \in 1 .. n /\ z.requestIndex = n /\ n # 0 /\ z.kind # "page"
          BY <2>2, <2>4, <3>3, <3>7
        <5>2. \A q, r \in z.requests : q.index \in 1 .. n /\ (q.index = r.index => q = r)
          <6>1. \A q, r \in a.requests : q.index = r.index => q = r
            BY <3>3 DEF Basic, RequestsOK
          <6>. QED  BY <3>7, <3>8, <3>9, <5>1, <6>1
        <5>3. \A r \in z.requests : r.term \in Values \ {Watermark}
          BY <3>3, <3>7, <3>8 DEF Basic, RequestsOK
        <5>4. z.kind = "url" => \A r \in z.requests : r.index = n
          BY <3>3, <3>7, <3>8
        <5>5. z.updater = NoUpdate
          BY <2>4, <3>3, <3>7 DEF Basic, RequestsOK
        <5>. QED  BY <5>1, <5>2, <5>3, <5>4, <5>5 DEF RequestsOK
      <4>4. MarkOK(z)
        BY <3>3, <3>7 DEF Basic, MarkOK
      <4>. QED  BY <3>3, <3>7, <4>1, <4>2, <4>3, <4>4 DEF Basic
    <3>11. Shown(z)
      <4>1. z.kind # "page" /\ ~z.cancelSearch /\ ~z.dismissed /\ z.requestIndex = n /\ n > 0
        BY <2>2, <2>4, <3>3, <3>7
      <4>2. z.visible => z.items # <<>>
        BY <1>0, <3>3, <3>7 DEF Shown
      <4>3. ShowsFound(z)
        <5>1. new \in z.requests /\ new.index = z.requestIndex
          BY <3>7, <3>8, <4>1
        <5>. QED  BY <4>1, <5>1 DEF ShowsFound
      <4>4. \A r \in z.requests : r.index = n => r.term = z.term
        BY <3>3, <3>7, <3>8, <3>9
      <4>. QED  BY <4>1, <4>2, <4>3, <4>4 DEF Shown
    <3>. QED  BY <3>4, <3>10, <3>11 DEF PageOK
  <2>. QED  BY <2>3, <2>4
<1>. QED  BY <1>1, <1>2

-----------------------------------------------------------------------------
(* What a step changes that neither searches nor answers. *)
BoxFields == {"value", "searching", "keptBlur", "term", "dismissed", "disabled", "boot"}

Edited(t, u) ==
  /\ DOMAIN u = PageFields
  /\ \A f \in PageFields \ (Idle \cup BoxFields) : u[f] = t[f]

(* The box, the widget and the start of the page are in order. *)
BoxOK(u) ==
  /\ u.value \in Values /\ u.term \in Values
  /\ u.searching \in {"none", "plain", "modified"}
  /\ u.kind = "page" => ~u.disabled
  /\ u.boot.run < 2 => u.searching = "none"
  /\ IF u.kind = "page"
     THEN ~u.keptBlur => u.term # Watermark /\ (u.value = Watermark => u.searching = "none")
     ELSE u.value # Watermark /\ u.term # Watermark
  /\ BootOK(u.boot)

LEMMA BasicBox ==
  ASSUME NEW t, Basic(t)
  PROVE  BoxOK(t)
BY DEF Basic, Typed, RequestsOK, MarkOK, BoxOK

LEMMA EditedOK ==
  ASSUME NEW t, NEW u, Basic(t), Edited(t, u), BoxOK(u)
  PROVE  /\ Basic(u)
         /\ u.term = t.term /\ u.dismissed = t.dismissed /\ Shown(t) => Shown(u)
<1>1. /\ DOMAIN u = PageFields /\ u.pending = t.pending
      /\ u.kind = t.kind /\ u.requestIndex = t.requestIndex
      /\ u.cancelSearch = t.cancelSearch /\ u.requests = t.requests
      /\ u.visible = t.visible /\ u.items = t.items /\ u.active = t.active
      /\ u.armed = t.armed /\ u.loaded = t.loaded /\ u.updater = t.updater
  BY DEF Edited, PageFields, Idle, BoxFields
<1>2. Typed(u)
  BY <1>1 DEF Basic, Typed, BoxOK
<1>3. MenuOK(u)
  BY <1>1 DEF Basic, MenuOK
<1>4. RequestsOK(u)
  BY <1>1 DEF Basic, RequestsOK, BoxOK
<1>5. MarkOK(u)
  BY <1>1 DEF Basic, MarkOK, BoxOK
<1>6. \A term : Found(u, term) = Found(t, term)
  BY <1>1, FoundSame
<1>7. u.term = t.term /\ ShowsFound(t) => ShowsFound(u)
  BY <1>1, <1>6 DEF ShowsFound
<1>8. u.term = t.term /\ u.dismissed = t.dismissed /\ Shown(t) => Shown(u)
  BY <1>1, <1>7 DEF Shown
<1>. QED  BY <1>2, <1>3, <1>4, <1>5, <1>8 DEF Basic, BoxOK

(* A page whose fields are those of another, except for some of the box. *)
LEMMA BoxSame ==
  ASSUME NEW t, NEW u, BoxOK(t), u.kind = t.kind, u.disabled = t.disabled,
         u.boot = t.boot, u.searching \in {t.searching, "none"}, u.value \in Values,
         t.keptBlur => u.keptBlur, u.term \in Values,
         u.keptBlur \/ (u.term # Watermark /\ u.value # Watermark)
           \/ (u.term = t.term /\ u.value = t.value),
         t.kind # "page" => u.term # Watermark /\ u.value # Watermark
  PROVE  BoxOK(u)
BY DEF BoxOK

LEMMA ValueOK ==
  ASSUME NEW t, PageOK(t), NEW v \in Values, v # Watermark \/ v = t.value \/ (v = t.term /\ t.keptBlur)
  PROVE  PageOK([t EXCEPT !.value = v])
<1>1. PICK u : u = [t EXCEPT !.value = v]
  OBVIOUS
<1>2. DOMAIN t = PageFields /\ BoxOK(t)
  BY BasicBox DEF PageOK, Basic, Typed
<1>3. /\ Edited(t, u) /\ u.value = v /\ u.kind = t.kind /\ u.disabled = t.disabled
      /\ u.boot = t.boot /\ u.searching = t.searching /\ u.keptBlur = t.keptBlur
      /\ u.term = t.term /\ u.dismissed = t.dismissed
  BY <1>1, <1>2 DEF Edited, PageFields, Idle, BoxFields
<1>4. BoxOK(u)
  BY <1>2, <1>3 DEF BoxOK
<1>. QED  BY <1>1, <1>3, <1>4, EditedOK DEF PageOK

(* The watermark is taken out before the widget sees the key. *)
LEMMA UnmarkOK ==
  ASSUME NEW t, PageOK(t)
  PROVE  /\ PageOK(Unmark(t)) /\ Unmark(t).value # Watermark
         /\ Unmark(t).requestIndex = t.requestIndex
<1>1. CASE t.kind = "page" /\ t.value = Watermark
  <2>1. PICK u : u = [t EXCEPT !.value = Empty, !.marked = FALSE]
    OBVIOUS
  <2>2. u = Unmark(t)
    BY <1>1, <2>1 DEF Unmark
  <2>3. DOMAIN t = PageFields /\ BoxOK(t)
    BY BasicBox DEF PageOK, Basic, Typed
  <2>4. /\ Edited(t, u) /\ u.value = Empty /\ u.kind = t.kind /\ u.disabled = t.disabled
        /\ u.boot = t.boot /\ u.searching = t.searching /\ u.keptBlur = t.keptBlur
        /\ u.term = t.term /\ u.dismissed = t.dismissed /\ u.requestIndex = t.requestIndex
    BY <2>1, <2>3 DEF Edited, PageFields, Idle, BoxFields
  <2>5. BoxOK(u)
    BY <1>1, <2>3, <2>4, TermFacts DEF BoxOK
  <2>6. PageOK(u)
    BY <2>4, <2>5, EditedOK DEF PageOK
  <2>. QED  BY <2>2, <2>4, <2>6, TermFacts
<1>2. CASE ~(t.kind = "page" /\ t.value = Watermark)
  <2>1. Unmark(t) = t
    BY <1>2 DEF Unmark
  <2>2. t.value # Watermark
    BY <1>2 DEF PageOK, Basic, MarkOK
  <2>. QED  BY <2>1, <2>2
<1>. QED  BY <1>1, <1>2

LEMMA LaterOK ==
  ASSUME NEW t, PageOK(t), t.value # Watermark, NEW how \in {"plain", "modified"}
  PROVE  PageOK(Later(t, how))
<1>1. CASE Inert(t)
  BY <1>1 DEF Later
<1>2. CASE ~Inert(t)
  <2>1. PICK u : u = [t EXCEPT !.searching = how]
    OBVIOUS
  <2>2. u = Later(t, how)
    BY <1>2, <2>1 DEF Later
  <2>3. DOMAIN t = PageFields /\ BoxOK(t)
    BY BasicBox DEF PageOK, Basic, Typed
  <2>4. /\ Edited(t, u) /\ u.searching = how /\ u.kind = t.kind /\ u.disabled = t.disabled
        /\ u.boot = t.boot /\ u.value = t.value /\ u.keptBlur = t.keptBlur
        /\ u.term = t.term /\ u.dismissed = t.dismissed
    BY <2>1, <2>3 DEF Edited, PageFields, Idle, BoxFields
  <2>5. ~(t.boot.run < 2)
    BY <1>2 DEF Inert
  <2>6. BoxOK(u)
    BY <2>3, <2>4, <2>5 DEF BoxOK
  <2>. QED  BY <2>2, <2>4, <2>6, EditedOK DEF PageOK
<1>. QED  BY <1>1, <1>2

LEMMA SelectedOK ==
  ASSUME NEW t, PageOK(t), t.active # 0
  PROVE  PageOK(Selected(t))
<1>0. Basic(t) /\ BoxOK(t) /\ DOMAIN t = PageFields /\ t.pending \in Int
  BY BasicBox DEF PageOK, Basic, Typed
<1>1. CASE t.disabled
  <2>1. PICK u : u = [t EXCEPT !.timer = TRUE]
    OBVIOUS
  <2>2. u = Selected(t)
    BY <1>1, <2>1 DEF Selected
  <2>3. Alike(t, u) /\ u.active = t.active /\ u.armed = t.armed
    BY <1>0, <2>1 DEF Alike, PageFields, Idle
  <2>4. t.active \in 0 .. Len(t.items) /\ (~t.visible => t.active = 0)
        /\ t.armed \in -1 .. Len(t.items)
    BY <1>0 DEF Basic, MenuOK
  <2>. QED  BY <2>2, <2>3, <2>4, AlikeOK DEF PageOK
<1>2. CASE ~t.disabled
  <2>1. PICK v : v = IF t.kind = "page" THEN Empty ELSE t.items[t.active].term
    OBVIOUS
  <2>2. PICK go : go = IF t.kind = "page" THEN Target(t.items[t.active], t.loaded) ELSE {}
    OBVIOUS
  <2>3. PICK s : s = [t EXCEPT !.focused = TRUE, !.value = v, !.term = v, !.dismissed = TRUE,
                               !.location = IF go = {} THEN @ ELSE go]
    OBVIOUS
  <2>4. Selected(t) = Close(s)
    BY <1>2, <2>1, <2>2, <2>3 DEF Selected
  <2>5. /\ Edited(t, s) /\ s.searching = t.searching /\ s.kind = t.kind
        /\ s.disabled = t.disabled /\ s.boot = t.boot /\ s.keptBlur = t.keptBlur
        /\ s.term = v /\ s.value = v
    BY <1>0, <2>3 DEF Edited, PageFields, Idle, BoxFields
  <2>6. v \in Values /\ v # Watermark
    <3>1. CASE t.kind = "page"
      BY <2>1, <3>1, TermFacts
    <3>2. CASE t.kind # "page"
      <4>1. PICK n \in Nat : n = Len(t.items) /\ DOMAIN t.items = 1 .. n
        BY <1>0, Seqs DEF Basic, MenuOK
      <4>2. t.active \in 0 .. n
        BY <1>0, <4>1 DEF Basic, MenuOK
      <4>3. t.active \in DOMAIN t.items
        BY <4>1, <4>2
      <4>. QED  BY <1>0, <2>1, <3>2, <4>3 DEF Basic, MarkOK
    <3>. QED  BY <3>1, <3>2
  <2>7. BoxOK(s)
    BY <1>0, <2>5, <2>6 DEF BoxOK
  <2>8. Basic(s)
    BY <1>0, <2>5, <2>7, EditedOK
  <2>. QED  BY <2>4, <2>8, CloseOK DEF PageOK
<1>. QED  BY <1>1, <1>2

(* The box loses the focus: first the watermark, then the widget, whose
   search that is due must not find it. *)
LEMMA LeaveOK ==
  ASSUME NEW t, PageOK(t), NEW u, Edited(t, u),
         u.value \in {t.value, Watermark}, u.value # t.value => t.kind = "page",
         u.searching = t.searching, u.keptBlur = t.keptBlur, u.term = t.term,
         u.dismissed = t.dismissed, u.disabled = t.disabled, u.boot = t.boot
  PROVE  PageOK(Leave(u))
<1>0. /\ Basic(t) /\ BoxOK(t) /\ DOMAIN u = PageFields
      /\ u.kind = t.kind /\ u.value \in Values
  <2>1. u.kind = t.kind
    BY DEF Edited, PageFields, Idle, BoxFields
  <2>. QED  BY <2>1, BasicBox, TermFacts DEF PageOK, Edited, BoxOK
<1>1. CASE Inert(u)
  <2>1. t.kind = "page" => t.searching = "none"
    BY <1>0, <1>1 DEF Inert, BoxOK
  <2>2. BoxOK(u)
    BY <1>0, <2>1 DEF BoxOK
  <2>3. PageOK(u)
    BY <1>0, <2>2, EditedOK DEF PageOK
  <2>. QED  BY <1>1, <2>3 DEF Leave
<1>2. CASE ~Inert(u) /\ u.cancelBlur
  <2>1. PICK s : s = [u EXCEPT !.cancelBlur = FALSE, !.keptBlur = TRUE]
    OBVIOUS
  <2>2. /\ DOMAIN s = PageFields /\ s.keptBlur
        /\ \A f \in PageFields \ {"cancelBlur", "keptBlur"} : s[f] = u[f]
    BY <1>0, <2>1 DEF PageFields
  <2>3. Edited(t, s)
    BY <2>2 DEF Edited, Idle, BoxFields
  <2>4. /\ s.value = u.value /\ s.searching = t.searching /\ s.term = t.term /\ s.kind = t.kind
        /\ s.dismissed = t.dismissed /\ s.disabled = t.disabled /\ s.boot = t.boot
    BY <1>0, <2>2 DEF PageFields
  <2>5. BoxOK(s)
    BY <1>0, <2>2, <2>4 DEF BoxOK
  <2>6. PageOK(s)
    BY <1>0, <2>3, <2>4, <2>5, EditedOK DEF PageOK
  <2>. QED  BY <1>2, <2>1, <2>6 DEF Leave
<1>3. CASE ~Inert(u) /\ ~u.cancelBlur
  <2>1. PICK s : s = [u EXCEPT !.searching = "none", !.dismissed = TRUE]
    OBVIOUS
  <2>2. /\ DOMAIN s = PageFields /\ s.searching = "none"
        /\ \A f \in PageFields \ {"searching", "dismissed"} : s[f] = u[f]
    BY <1>0, <2>1 DEF PageFields
  <2>3. Edited(t, s)
    BY <2>2 DEF Edited, BoxFields
  <2>4. /\ s.value = u.value /\ s.term = t.term /\ s.kind = t.kind
        /\ s.keptBlur = t.keptBlur /\ s.disabled = t.disabled /\ s.boot = t.boot
    BY <1>0, <2>2 DEF PageFields
  <2>5. BoxOK(s)
    BY <1>0, <2>2, <2>4 DEF BoxOK
  <2>6. Basic(s)
    BY <1>0, <2>3, <2>5, EditedOK
  <2>7. Leave(u) = Close(s)
    BY <1>3, <2>1 DEF Leave
  <2>. QED  BY <2>6, <2>7, CloseOK DEF PageOK
<1>. QED  BY <1>1, <1>2, <1>3

-----------------------------------------------------------------------------
(* How the page starts. *)
ReadyFields == {"dom", "holds", "readyWait", "isReady", "resolved"}

ReadyOK(r) ==
  /\ DOMAIN r = ReadyFields
  /\ r.dom \in BOOLEAN /\ r.isReady \in BOOLEAN /\ r.resolved \in BOOLEAN
  /\ r.holds \in Nat
  /\ r.readyWait = IF r.dom THEN r.holds ELSE r.holds + 1
  /\ r.isReady = r.dom
  /\ r.resolved <=> r.dom /\ r.holds = 0

LEMMA BootIs ==
  ASSUME NEW b
  PROVE  BootOK(b) <=> /\ DOMAIN b = {"ready", "script", "run"} /\ b.run \in Nat
                       /\ ReadyOK(b.ready) /\ (b.run > 0 => b.ready.resolved)
BY DEF BootOK, ReadyOK, ReadyFields

LEMMA CompletedOK ==
  ASSUME NEW r, ReadyOK(r), ~r.dom
  PROVE  ReadyOK(Completed(r)) /\ (r.resolved => Completed(r).resolved)
<1>1. PICK d : d = [r EXCEPT !.dom = TRUE]
  OBVIOUS
<1>2. /\ DOMAIN d = ReadyFields /\ d.dom /\ d.holds = r.holds /\ d.readyWait = r.readyWait
      /\ d.isReady = r.isReady /\ d.resolved = r.resolved
  BY <1>1 DEF ReadyOK, ReadyFields
<1>3. ~d.isReady /\ ~d.resolved /\ d.readyWait = r.holds + 1 /\ r.holds \in Nat
  BY <1>2 DEF ReadyOK
<1>4. PICK n : n = d.readyWait - 1
  OBVIOUS
<1>5. n = r.holds
  BY <1>3, <1>4
<1>6. PICK u : u = [d EXCEPT !.readyWait = n, !.isReady = TRUE, !.resolved = @ \/ n <= 0]
  OBVIOUS
<1>7. u = Completed(r)
  BY <1>1, <1>3, <1>4, <1>6 DEF Completed, Ready
<1>8. /\ DOMAIN u = ReadyFields /\ u.dom = d.dom /\ u.holds = d.holds
      /\ u.readyWait = n /\ u.isReady = TRUE /\ u.resolved = (d.resolved \/ n <= 0)
  BY <1>2, <1>6 DEF ReadyFields
<1>9. u.resolved \in BOOLEAN /\ (u.resolved <=> n = 0)
  <2>1. n \in Nat /\ d.resolved = FALSE
    BY <1>2, <1>3, <1>5 DEF ReadyOK
  <2>2. CASE n = 0
    <3>1. n <= 0
      BY <2>2
    <3>2. u.resolved = TRUE
      BY <1>8, <3>1, Zenon
    <3>. QED  BY <2>2, <3>2
  <2>3. CASE n # 0
    <3>1. ~(n <= 0)
      BY <2>1, <2>3
    <3>2. u.resolved = FALSE
      BY <1>8, <2>1, <3>1
    <3>. QED  BY <2>3, <3>2
  <2>. QED  BY <2>2, <2>3
<1>10. u.dom = TRUE
  BY <1>1, <1>8 DEF ReadyOK, ReadyFields
<1>11. ReadyOK(u)
  BY <1>2, <1>3, <1>5, <1>8, <1>9, <1>10 DEF ReadyOK
<1>. QED  BY <1>2, <1>3, <1>7, <1>11

LEMMA HoldOK ==
  ASSUME NEW r, ReadyOK(r), ~r.resolved
  PROVE  ReadyOK(HoldReady(r))
<1>1. PICK u : u = HoldReady(r)
  OBVIOUS
<1>2. /\ DOMAIN u = ReadyFields /\ u.dom = r.dom /\ u.holds = r.holds + 1
      /\ u.readyWait = r.readyWait + 1 /\ u.isReady = r.isReady /\ u.resolved = r.resolved
  BY <1>1 DEF HoldReady, ReadyOK, ReadyFields
<1>. QED  BY <1>1, <1>2 DEF ReadyOK

LEMMA ReleaseOK ==
  ASSUME NEW r, ReadyOK(r), r.holds > 0
  PROVE  ReadyOK(ReleaseReady(r)) /\ ~r.resolved
<1>1. PICK d : d = [r EXCEPT !.holds = @ - 1]
  OBVIOUS
<1>2. /\ DOMAIN d = ReadyFields /\ d.dom = r.dom /\ d.holds = r.holds - 1
      /\ d.readyWait = r.readyWait /\ d.isReady = r.isReady /\ d.resolved = r.resolved
  BY <1>1 DEF ReadyOK, ReadyFields
<1>3. ~r.resolved /\ r.holds \in Nat /\ r.dom \in BOOLEAN
  BY DEF ReadyOK
<1>4. PICK n : n = d.readyWait - 1
  OBVIOUS
<1>5. n = IF r.dom THEN d.holds ELSE d.holds + 1
  BY <1>2, <1>3, <1>4 DEF ReadyOK
<1>6. d.holds \in Nat
  BY <1>2, <1>3
<1>7. CASE n # 0
  <2>1. PICK u : u = [d EXCEPT !.readyWait = n]
    OBVIOUS
  <2>2. u = ReleaseReady(r)
    BY <1>1, <1>4, <1>7, <2>1 DEF ReleaseReady, Ready
  <2>3. /\ DOMAIN u = ReadyFields /\ u.dom = d.dom /\ u.holds = d.holds
        /\ u.readyWait = n /\ u.isReady = d.isReady /\ u.resolved = d.resolved
    BY <1>2, <2>1 DEF ReadyFields
  <2>4. ReadyOK(u)
    BY <1>2, <1>3, <1>5, <1>6, <1>7, <2>3 DEF ReadyOK
  <2>. QED  BY <1>3, <2>2, <2>4
<1>8. CASE n = 0
  <2>1. PICK u : u = [d EXCEPT !.readyWait = n, !.isReady = TRUE, !.resolved = TRUE]
    OBVIOUS
  <2>2. u = ReleaseReady(r)
    BY <1>1, <1>4, <1>8, <2>1 DEF ReleaseReady, Ready
  <2>3. /\ DOMAIN u = ReadyFields /\ u.dom = d.dom /\ u.holds = d.holds
        /\ u.readyWait = n /\ u.isReady = TRUE /\ u.resolved = TRUE
    BY <1>2, <2>1 DEF ReadyFields
  <2>4. r.dom = TRUE /\ d.holds = 0
    BY <1>3, <1>5, <1>6, <1>8
  <2>5. /\ DOMAIN u = ReadyFields /\ u.dom = TRUE /\ u.holds = 0 /\ u.readyWait = 0
        /\ u.isReady = TRUE /\ u.resolved = TRUE
    BY <1>2, <1>8, <2>3, <2>4
  <2>6. /\ u.dom \in BOOLEAN /\ u.isReady \in BOOLEAN /\ u.resolved \in BOOLEAN
        /\ u.dom /\ u.isReady = u.dom /\ u.resolved
    BY <2>5
  <2>7. ReadyOK(u)
    BY <2>5, <2>6 DEF ReadyOK
  <2>. QED  BY <1>3, <2>2, <2>7
<1>. QED  BY <1>7, <1>8

(* A page on which only what is loaded and called in the background differs. *)
LEMMA BootedOK ==
  ASSUME NEW t, PageOK(t), NEW b, BootOK(b), b.run < 2 => t.boot.run < 2
  PROVE  PageOK([t EXCEPT !.boot = b])
<1>1. PICK u : u = [t EXCEPT !.boot = b]
  OBVIOUS
<1>2. Basic(t) /\ DOMAIN t = PageFields /\ BoxOK(t)
  BY BasicBox DEF PageOK, Basic, Typed
<1>3. /\ Edited(t, u) /\ u.searching = t.searching /\ u.kind = t.kind
      /\ u.disabled = t.disabled /\ u.boot = b /\ u.keptBlur = t.keptBlur
      /\ u.term = t.term /\ u.value = t.value /\ u.dismissed = t.dismissed
  BY <1>1, <1>2 DEF Edited, PageFields, Idle, BoxFields
<1>4. BoxOK(u)
  BY <1>2, <1>3 DEF BoxOK
<1>5. PageOK(u)
  BY <1>3, <1>4, EditedOK DEF PageOK
<1>. QED  BY <1>1, <1>5

LEMMA StartOK ==
  ASSUME PageOK(w), Start
  PROVE  PageOK(w')
<1>0. Basic(w) /\ DOMAIN w = PageFields /\ BoxOK(w) /\ BootOK(w.boot)
  BY BasicBox DEF PageOK, Basic, Typed
<1>1. PICK b, r : b = w.boot /\ r = b.ready
  OBVIOUS
<1>2. DOMAIN b = {"ready", "script", "run"} /\ b.run \in Nat /\ ReadyOK(r) /\ (b.run > 0 => r.resolved)
  BY <1>0, <1>1, BootIs
<1>3. ASSUME NEW x, ReadyOK(x), r.resolved => x.resolved, w' = [w EXCEPT !.boot.ready = x]
      PROVE  PageOK(w')
  <2>1. PICK c : c = [b EXCEPT !.ready = x]
    OBVIOUS
  <2>2. DOMAIN c = DOMAIN b /\ c.run = b.run /\ c.ready = x
    BY <1>2, <2>1
  <2>3. BootOK(c)
    BY <1>2, <1>3, <2>2, BootIs
  <2>4. w' = [w EXCEPT !.boot = c]
    BY <1>0, <1>1, <1>3, <2>1 DEF PageFields
  <2>5. PageOK([w EXCEPT !.boot = c])
    BY <1>1, <2>2, <2>3, BootedOK
  <2>. QED  BY <2>4, <2>5
<1>4. CASE DocumentParsed
  <2>1. ~r.dom /\ w' = [w EXCEPT !.boot.ready = Completed(r)]
    BY <1>0, <1>1, <1>4 DEF DocumentParsed, PageFields
  <2>2. PICK x : x = Completed(r) /\ ReadyOK(x) /\ (r.resolved => x.resolved)
    BY <1>2, <2>1, CompletedOK
  <2>. QED  BY <1>3, <2>1, <2>2
<1>5. CASE Hold
  <2>1. ~r.resolved /\ w' = [w EXCEPT !.boot.ready = HoldReady(r)]
    BY <1>0, <1>1, <1>5 DEF Hold, PageFields
  <2>2. PICK x : x = HoldReady(r) /\ ReadyOK(x)
    BY <1>2, <2>1, HoldOK
  <2>. QED  BY <1>3, <2>1, <2>2
<1>6. CASE Release
  <2>1. r.holds > 0 /\ w' = [w EXCEPT !.boot.ready = ReleaseReady(r)]
    BY <1>0, <1>1, <1>6 DEF Release, PageFields
  <2>2. PICK x : x = ReleaseReady(r) /\ ReadyOK(x) /\ ~r.resolved
    BY <1>2, <2>1, ReleaseOK
  <2>. QED  BY <1>3, <2>1, <2>2
<1>7. CASE LoadScript
  <2>1. w' = [w EXCEPT !.boot.script = TRUE]
    BY <1>7 DEF LoadScript
  <2>2. PICK c : c = [b EXCEPT !.script = TRUE]
    OBVIOUS
  <2>3. DOMAIN c = DOMAIN b /\ c.run = b.run /\ c.ready = r
    BY <1>1, <1>2, <2>2
  <2>4. BootOK(c)
    BY <1>2, <2>3, BootIs
  <2>5. w' = [w EXCEPT !.boot = c]
    BY <1>0, <1>1, <2>1, <2>2 DEF PageFields
  <2>6. PageOK([w EXCEPT !.boot = c])
    BY <1>1, <2>3, <2>4, BootedOK
  <2>. QED  BY <2>5, <2>6
<1>8. CASE ReadyFunction
  <2>1. r.resolved /\ b.run < 2
    BY <1>1, <1>8 DEF ReadyFunction
  <2>2. PICK n : n = b.run + 1
    OBVIOUS
  <2>3. PICK c : c = [b EXCEPT !.run = n]
    OBVIOUS
  <2>4. DOMAIN c = DOMAIN b /\ c.run = n /\ c.ready = r /\ n \in Nat /\ n > 0
    BY <1>1, <1>2, <2>2, <2>3
  <2>5. BootOK(c)
    BY <1>2, <2>1, <2>4, BootIs
  <2>6. PICK t : t = [w EXCEPT !.boot.run = @ + 1]
    OBVIOUS
  <2>7. t = [w EXCEPT !.boot = c]
    BY <1>0, <1>1, <1>2, <2>2, <2>3, <2>6 DEF PageFields
  <2>8. PageOK(t)
    <3>1. PageOK([w EXCEPT !.boot = c])
      BY <1>1, <2>1, <2>5, BootedOK
    <3>. QED  BY <2>7, <3>1
  <2>9. t.boot = c /\ DOMAIN t = PageFields
    BY <1>0, <2>7 DEF PageFields
  <2>10. CASE n = 2
    <3>1. w' = t
      BY <1>8, <2>4, <2>6, <2>9, <2>10 DEF ReadyFunction
    <3>. QED  BY <2>8, <3>1
  <2>11. CASE n # 2
    <3>1. PICK v : v = IF t.kind = "page" THEN Watermark ELSE Empty
      OBVIOUS
    <3>2. PICK u : u = [t EXCEPT !.focused = TRUE, !.marked = t.kind = "page", !.value = v]
      OBVIOUS
    <3>3. w' = u
      BY <1>8, <2>4, <2>6, <2>9, <2>11, <3>1, <3>2 DEF ReadyFunction
    <3>4. /\ Edited(t, u) /\ u.searching = t.searching /\ u.kind = t.kind
          /\ u.disabled = t.disabled /\ u.boot = t.boot /\ u.keptBlur = t.keptBlur
          /\ u.term = t.term /\ u.value = v /\ u.dismissed = t.dismissed
      BY <2>9, <3>2 DEF Edited, PageFields, Idle, BoxFields
    <3>5. BoxOK(t) /\ t.searching = "none"
      <4>1. BoxOK(t)
        BY <2>8, BasicBox DEF PageOK
      <4>2. t.boot.run < 2
        BY <1>2, <2>1, <2>2, <2>4, <2>9, <2>11
      <4>. QED  BY <4>1, <4>2 DEF BoxOK
    <3>6. BoxOK(u)
      BY <3>1, <3>4, <3>5, TermFacts DEF BoxOK
    <3>7. PageOK(u)
      BY <2>8, <3>4, <3>6, EditedOK DEF PageOK
    <3>. QED  BY <3>3, <3>7
  <2>. QED  BY <2>10, <2>11
<1>. QED  BY <1>4, <1>5, <1>6, <1>7, <1>8 DEF Start

-----------------------------------------------------------------------------
(* The timer, the answers and the index files. *)
LEMMA TimerOK ==
  ASSUME PageOK(w), SearchTimer
  PROVE  PageOK(w')
<1>0. Basic(w) /\ BoxOK(w) /\ DOMAIN w = PageFields /\ w.requestIndex \in 0 .. MaxSearches
  BY BasicBox DEF PageOK, Basic, Typed
<1>1. PICK t : t = [w EXCEPT !.searching = "none"]
  OBVIOUS
<1>2. /\ Edited(w, t) /\ t.searching = "none" /\ t.kind = w.kind
      /\ t.disabled = w.disabled /\ t.boot = w.boot /\ t.keptBlur = w.keptBlur
      /\ t.term = w.term /\ t.value = w.value /\ t.dismissed = w.dismissed
      /\ t.requestIndex = w.requestIndex
  BY <1>0, <1>1 DEF Edited, PageFields, Idle, BoxFields
<1>3. PageOK(t)
  <2>1. BoxOK(t)
    BY <1>0, <1>2 DEF BoxOK
  <2>. QED  BY <1>2, <2>1, EditedOK DEF PageOK
<1>4. t.requestIndex < MaxSearches /\ (t.value # Watermark \/ t.keptBlur)
  BY <1>0, <1>2 DEF SearchTimer, CanSearch, BoxOK
<1>5. PageOK(Search(t))
  BY <1>3, <1>4, SearchOK
<1>6. w' = Search(t) \/ w' = t
  BY <1>1 DEF SearchTimer
<1>. QED  BY <1>3, <1>5, <1>6

LEMMA ReplyOK ==
  ASSUME PageOK(w), Reply
  PROVE  PageOK(w')
<1>0. Basic(w) /\ Shown(w) /\ DOMAIN w = PageFields
  BY DEF PageOK, Basic, Typed
<1>1. PICK r \in w.requests, items \in {<<>>, <<1, 2>>} :
        w' = Response([w EXCEPT !.requests = @ \ {r}], r.index,
                      [k \in DOMAIN items |-> [of |-> k, term |-> r.term]])
  BY DEF Reply
<1>2. PICK s : s = [w EXCEPT !.requests = @ \ {r}]
  OBVIOUS
<1>3. PICK found : found = [k \in DOMAIN items |-> [of |-> k, term |-> r.term]]
  OBVIOUS
<1>4. PICK u : u = w' /\ u = Response(s, r.index, found)
  BY <1>1, <1>2, <1>3
<1>5. PICK n \in Nat : DOMAIN items = 1 .. n
  <2>1. CASE items = <<>>
    <3>1. DOMAIN items = 1 .. 0
      BY <2>1
    <3>. QED  BY <3>1
  <2>2. CASE items = <<1, 2>>
    <3>1. DOMAIN items = 1 .. 2
      BY <2>2
    <3>. QED  BY <3>1
  <2>. QED  BY <2>1, <2>2
<1>6. /\ IsSeq(found) /\ \A k \in DOMAIN found : found[k].term = r.term
      /\ found # <<>> => 1 \in DOMAIN found
  <2>1. DOMAIN found = 1 .. n /\ found = [k \in 1 .. n |-> found[k]]
    BY <1>3, <1>5
  <2>2. IsSeq(found)
    BY <2>1, Tabled
  <2>3. found # <<>> => Len(found) # 0 /\ Len(found) \in Nat /\ DOMAIN found = 1 .. Len(found)
    BY <2>2, Seqs
  <2>. QED  BY <1>3, <2>2, <2>3
<1>7. /\ DOMAIN s = PageFields /\ s.requests = w.requests \ {r}
      /\ s.kind = w.kind /\ s.boot = w.boot /\ s.value = w.value /\ s.term = w.term
      /\ s.searching = w.searching /\ s.requestIndex = w.requestIndex
      /\ s.cancelSearch = w.cancelSearch /\ s.updater = w.updater
      /\ s.disabled = w.disabled /\ s.visible = w.visible /\ s.items = w.items
      /\ s.active = w.active /\ s.pending = w.pending /\ s.armed = w.armed
      /\ s.loaded = w.loaded /\ s.dismissed = w.dismissed /\ s.keptBlur = w.keptBlur
  BY <1>0, <1>2 DEF PageFields
<1>8. Basic(s)
  <2>1. Typed(s)
    BY <1>0, <1>7 DEF Basic, Typed
  <2>2. MenuOK(s)
    BY <1>0, <1>7 DEF Basic, MenuOK
  <2>3. RequestsOK(s)
    BY <1>0, <1>7 DEF Basic, RequestsOK
  <2>4. MarkOK(s)
    BY <1>0, <1>7 DEF Basic, MarkOK
  <2>. QED  BY <1>0, <1>7, <2>1, <2>2, <2>3, <2>4 DEF Basic
<1>9. /\ r.term \in Values \ {Watermark} /\ w.kind # "page"
      /\ r.index \in 1 .. w.requestIndex /\ w.requestIndex \in Nat
  BY <1>0, SearchPageAssumption DEF Basic, RequestsOK, Typed
<1>10. /\ Basic(u) /\ Rest(s, u)
       /\ r.index # s.requestIndex => u.visible = s.visible /\ u.items = s.items
       /\ r.index = s.requestIndex => Answers(s, u, found)
  <2>1. \A k \in DOMAIN found : found[k].term \in Values \ {Watermark}
    BY <1>6, <1>9
  <2>2. Responds(s, u, r.index, found)
    BY ONLY <1>4, <1>6, <1>8, <2>1, ResponseIs
  <2>. QED  BY <2>2 DEF Responds
<1>11. /\ u.kind # "page" /\ u.requestIndex = w.requestIndex /\ u.term = w.term
       /\ u.cancelSearch = w.cancelSearch /\ u.dismissed = w.dismissed
       /\ u.requests = w.requests \ {r}
  BY <1>7, <1>9, <1>10 DEF Rest
<1>12. \A q \in u.requests : q.index = u.requestIndex /\ ~u.cancelSearch => q.term = u.term
  BY <1>0, <1>11 DEF Shown
<1>13. CASE r.index # w.requestIndex
  <2>1. u.visible = w.visible /\ u.items = w.items
    BY <1>7, <1>10, <1>13
  <2>2. ShowsFound(w) => ShowsFound(u)
    BY <1>9, <1>11, <1>13, <2>1 DEF ShowsFound
  <2>3. Shown(u)
    BY <1>0, <1>11, <1>12, <2>1, <2>2 DEF Shown
  <2>. QED  BY <1>4, <1>10, <2>3 DEF PageOK
<1>14. CASE r.index = w.requestIndex
  <2>1. Content(s, found) = found
    BY <1>7, <1>9 DEF Content
  <2>2. u.visible => found # <<>> /\ ~w.cancelSearch /\ u.items = found
    BY <1>7, <1>10, <1>14, <2>1 DEF Answers
  <2>3. ~w.cancelSearch => r.term = w.term
    BY <1>0, <1>14 DEF Shown
  <2>4. u.visible => ShowsFound(u)
    BY <1>6, <1>11, <2>2, <2>3 DEF ShowsFound
  <2>5. u.dismissed => u.cancelSearch
    BY <1>0, <1>11 DEF Shown
  <2>6. u.requestIndex > 0
    BY <1>9, <1>11
  <2>7. Shown(u)
    BY <1>11, <1>12, <2>2, <2>4, <2>5, <2>6 DEF Shown
  <2>. QED  BY <1>4, <1>10, <2>7 DEF PageOK
<1>. QED  BY <1>13, <1>14

LEMMA LoadIndexOK ==
  ASSUME PageOK(w), NEW f \in AllFiles, LoadIndex(f)
  PROVE  PageOK(w')
<1>0. Basic(w) /\ Shown(w) /\ DOMAIN w = PageFields /\ w.requestIndex \in Nat
      /\ w.loaded # AllFiles
  BY SearchPageAssumption DEF PageOK, Basic, Typed, LoadIndex
<1>1. PICK s : s = [w EXCEPT !.loaded = @ \cup {f}]
  OBVIOUS
<1>2. /\ DOMAIN s = PageFields /\ s.loaded = w.loaded \cup {f}
      /\ s.kind = w.kind /\ s.boot = w.boot /\ s.value = w.value /\ s.term = w.term
      /\ s.searching = w.searching /\ s.requestIndex = w.requestIndex
      /\ s.cancelSearch = w.cancelSearch /\ s.updater = w.updater
      /\ s.disabled = w.disabled /\ s.visible = w.visible /\ s.items = w.items
      /\ s.active = w.active /\ s.pending = w.pending /\ s.armed = w.armed
      /\ s.requests = w.requests /\ s.dismissed = w.dismissed /\ s.keptBlur = w.keptBlur
  BY <1>0, <1>1 DEF PageFields
<1>3. Basic(s)
  <2>1. Typed(s)
    BY <1>0, <1>2 DEF Basic, Typed
  <2>2. MenuOK(s)
    BY <1>0, <1>2 DEF Basic, MenuOK
  <2>3. RequestsOK(s)
    BY <1>0, <1>2 DEF Basic, RequestsOK
  <2>4. MarkOK(s)
    BY <1>0, <1>2 DEF Basic, MarkOK
  <2>. QED  BY <1>0, <1>2, <2>1, <2>2, <2>3, <2>4 DEF Basic
<1>4. w.kind = "page" /\ ~w.cancelSearch /\ w.requestIndex > 0 =>
        w.updater.term = w.term /\ w.updater.index = w.requestIndex
  <2>1. w.kind = "page" /\ ~w.cancelSearch /\ w.requestIndex > 0 =>
          w.updater = [term |-> w.term, index |-> w.requestIndex]
    BY <1>0 DEF Shown
  <2>2. PICK n : n = [term |-> w.term, index |-> w.requestIndex]
    OBVIOUS
  <2>3. n.term = w.term /\ n.index = w.requestIndex
    BY <2>2
  <2>. QED  BY <2>1, <2>2, <2>3
<1>5. CASE w.updater = NoUpdate
  <2>1. w' = s
    BY <1>1, <1>5 DEF LoadIndex
  <2>2. w.updater.index = 0
    BY <1>5 DEF NoUpdate
  <2>3. ~(w.kind = "page" /\ ~w.cancelSearch /\ w.requestIndex > 0)
    BY <1>0, <1>4, <2>2
  <2>4. s.visible => s.kind # "page" /\ ShowsFound(w)
    BY <1>0, <1>2, <2>3 DEF Shown
  <2>5. s.visible => ShowsFound(s)
    BY <1>2, <2>4 DEF ShowsFound
  <2>6. Shown(s)
    BY <1>0, <1>2, <2>3, <2>5 DEF Shown
  <2>. QED  BY <1>3, <2>1, <2>6 DEF PageOK
<1>6. CASE w.updater # NoUpdate
  <2>1. PICK term, index : term = w.updater.term /\ index = w.updater.index
    OBVIOUS
  <2>2. w' = DoSearch(s, term, index)
    BY <1>1, <1>6, <2>1 DEF LoadIndex
  <2>3. w.kind = "page" /\ w.requestIndex # 0
    BY <1>0, <1>6 DEF Basic, RequestsOK
  <2>4. /\ s.kind = "page" /\ s.requestIndex > 0 /\ s.requestIndex # 0
        /\ s.dismissed => s.cancelSearch
    BY <1>0, <1>2, <2>3 DEF Shown
  <2>5. ~s.cancelSearch => term = s.term /\ index = s.requestIndex
    BY <1>0, <1>2, <1>4, <2>1, <2>3
  <2>6. CASE index = s.requestIndex
    <3>1. term = s.term \/ s.cancelSearch
      BY <2>5
    <3>2. PageOK(DoSearch(s, term, s.requestIndex))
      BY ONLY <1>3, <2>4, <3>1, DoSearchOK
    <3>. QED  BY <2>2, <2>6, <3>2
  <2>7. CASE index # s.requestIndex
    <3>1. s.cancelSearch /\ ~s.visible
      BY <1>0, <1>2, <2>5, <2>7 DEF Shown
    <3>2. PageOK(DoSearch(s, term, index))
      BY ONLY <1>3, <2>4, <2>7, <3>1, DoSearchOld
    <3>. QED  BY <2>2, <3>2
  <2>. QED  BY <2>6, <2>7
<1>. QED  BY <1>5, <1>6

LEMMA DisableOK ==
  ASSUME PageOK(w), Disable
  PROVE  PageOK(w')
<1>0. Basic(w) /\ Shown(w) /\ DOMAIN w = PageFields /\ BoxOK(w) /\ w.kind # "page"
  BY BasicBox DEF PageOK, Basic, Typed, Disable
<1>1. ASSUME NEW b, NEW s, s = [w EXCEPT !.disabled = b]
      PROVE  /\ PageOK(s) /\ DOMAIN s = PageFields /\ s.kind = w.kind
             /\ s.requestIndex = w.requestIndex /\ s.requests = w.requests
  <2>1. /\ Edited(w, s) /\ s.searching = w.searching /\ s.kind = w.kind
        /\ s.boot = w.boot /\ s.keptBlur = w.keptBlur /\ s.term = w.term
        /\ s.value = w.value /\ s.dismissed = w.dismissed
        /\ s.requestIndex = w.requestIndex /\ s.requests = w.requests
    BY <1>0, <1>1 DEF Edited, PageFields, Idle, BoxFields
  <2>2. BoxOK(s)
    BY <1>0, <2>1 DEF BoxOK
  <2>3. PageOK(s)
    BY <1>0, <2>1, <2>2, EditedOK DEF PageOK
  <2>. QED  BY <2>1, <2>3 DEF Edited
<1>2. CASE w.disabled
  <2>1. PICK s : s = [w EXCEPT !.disabled = FALSE]
    OBVIOUS
  <2>2. w' = s
    BY <1>2, <2>1 DEF Disable
  <2>3. PageOK(s)
    BY <1>1, <2>1
  <2>. QED  BY <2>2, <2>3
<1>3. CASE ~w.disabled
  <2>1. PICK s : s = [w EXCEPT !.disabled = TRUE]
    OBVIOUS
  <2>2. PICK u : u = w' /\ u = Aborted(s)
    BY <1>3, <2>1 DEF Disable
  <2>3. /\ PageOK(s) /\ DOMAIN s = PageFields /\ s.kind = w.kind
        /\ s.requestIndex = w.requestIndex /\ s.requests = w.requests
    BY <1>1, <2>1
  <2>4. PICK x : x = [s EXCEPT !.requests = {}]
    OBVIOUS
  <2>5. /\ x.requests = {} /\ x.kind = s.kind /\ x.cancelSearch = s.cancelSearch
        /\ x.dismissed = s.dismissed
    BY <2>3, <2>4 DEF PageFields
  <2>6. \/ u = s
        \/ /\ s.kind = "url" /\ s.requests # {}
           /\ Basic(u) /\ Rest(x, u)
           /\ \E r \in s.requests :
                /\ r.index # s.requestIndex => u.visible = s.visible /\ u.items = s.items
                /\ r.index = s.requestIndex => ~u.visible
    <3>1. Basic(s)
      BY <2>3 DEF PageOK
    <3>. QED  BY ONLY <2>2, <2>4, <3>1, AbortedIs
  <2>7. CASE u = s
    BY <2>2, <2>3, <2>7
  <2>8. CASE u # s
    <3>1. ~u.visible
      BY <2>3, <2>6, <2>8 DEF PageOK, Basic, RequestsOK
    <3>2. /\ u.requests = {} /\ u.kind # "page"
          /\ u.dismissed => u.cancelSearch
      BY <1>0, <2>3, <2>5, <2>6, <2>8 DEF Rest, PageOK, Shown
    <3>3. Shown(u)
      BY <3>1, <3>2 DEF Shown
    <3>. QED  BY <2>2, <2>6, <2>8, <3>3 DEF PageOK
  <2>. QED  BY <2>7, <2>8
<1>. QED  BY <1>2, <1>3

-----------------------------------------------------------------------------
(* The keyboard. *)
LEMMA MoveKeyOK ==
  ASSUME PageOK(w), NEW direction \in {"next", "previous", "nextPage", "previousPage"},
         MoveKey(direction)
  PROVE  PageOK(w')
<1>1. PICK t : t = Unmark(w) /\ PageOK(t) /\ t.value # Watermark
               /\ t.requestIndex = w.requestIndex
  BY UnmarkOK
<1>2. Basic(t) /\ Shown(t) /\ DOMAIN t = PageFields /\ t.pending \in Int
  BY <1>1 DEF PageOK, Basic, Typed
<1>3. PICK u : u = Move(t, direction)
  OBVIOUS
<1>4. PICK v : v = MenuFocused(u, u.active, FALSE)
  OBVIOUS
<1>5. \/ w' = t
      \/ w' = Search(t)
      \/ w' = MenuBlur([t EXCEPT !.value = t.term])
      \/ t.visible /\ t.kind = "page" /\ w' = v
      \/ t.visible /\ t.kind # "page" /\ w' = [v EXCEPT !.value = v.items[v.active].term]
  BY <1>1, <1>3, <1>4 DEF MoveKey
<1>6. CASE w' = t
  BY <1>1, <1>6
<1>7. CASE w' = Search(t)
  <2>1. t.requestIndex < MaxSearches
    BY <1>1 DEF MoveKey, CanSearch
  <2>2. PageOK(Search(t))
    BY <1>1, <2>1, SearchOK
  <2>. QED  BY <1>7, <2>2
<1>8. CASE w' = MenuBlur([t EXCEPT !.value = t.term])
  <2>1. PICK s : s = [t EXCEPT !.value = t.term]
    OBVIOUS
  <2>2. t.term \in Values /\ (t.term # Watermark \/ t.keptBlur)
    BY <1>2 DEF Basic, Typed, MarkOK
  <2>3. PageOK(s)
    BY <1>1, <2>1, <2>2, ValueOK
  <2>4. /\ DOMAIN s = PageFields /\ s.pending \in Int /\ Len(s.items) \in Nat
        /\ s.armed \in -1 .. Len(s.items)
    BY <2>3, Seqs DEF PageOK, Basic, Typed, MenuOK
  <2>5. PICK b : b = MenuBlur(s) /\ Alike(s, b) /\ b.active = 0 /\ b.armed = s.armed
    BY <2>4, MenuBlurIs
  <2>6. PageOK(b)
    BY <2>3, <2>4, <2>5, AlikeOK DEF PageOK
  <2>. QED  BY <1>8, <2>1, <2>5, <2>6
<1>9. ASSUME t.visible
      PROVE  /\ PageOK(v) /\ v.active \in DOMAIN v.items /\ v.kind = t.kind
  <2>1. PICK n \in Nat : n = Len(t.items) /\ DOMAIN t.items = 1 .. n
    BY <1>2, Seqs DEF Basic, MenuOK
  <2>2. t.items # <<>> /\ IsSeq(t.items) /\ t.active \in 0 .. n /\ t.armed \in -1 .. n
    BY <1>2, <1>9, <2>1 DEF Shown, Basic, MenuOK
  <2>3. Alike(t, u) /\ u.active \in 1 .. n /\ u.armed = t.armed
    BY <1>2, <1>3, <2>1, <2>2, MoveIs
  <2>4. DOMAIN u = PageFields /\ u.pending \in Int
    BY <2>3 DEF Alike
  <2>5. Alike(u, v)
    BY <1>4, <2>4, MenuFocusedIs
  <2>6. v.active = u.active /\ v.armed = u.armed
    BY <1>4, <2>4 DEF MenuFocused, PageFields
  <2>7. Alike(t, v)
    BY <2>3, <2>5 DEF Alike
  <2>8. v.active \in 0 .. n /\ v.active \in 1 .. n
    BY <2>3, <2>6
  <2>9. Basic(v) /\ Shown(v)
    BY <1>2, <1>9, <2>1, <2>2, <2>3, <2>6, <2>7, <2>8, AlikeOK
  <2>10. v.items = t.items /\ v.kind = t.kind
    BY <2>7, AlikeFields
  <2>. QED  BY <2>1, <2>8, <2>9, <2>10 DEF PageOK
<1>10. CASE t.visible /\ t.kind = "page" /\ w' = v
  BY <1>9, <1>10
<1>11. CASE t.visible /\ t.kind # "page" /\ w' = [v EXCEPT !.value = v.items[v.active].term]
  <2>1. PICK x : x = v.items[v.active].term
    OBVIOUS
  <2>2. x \in Values \ {Watermark}
    BY <1>9, <1>11, <2>1 DEF PageOK, Basic, MarkOK
  <2>3. PageOK([v EXCEPT !.value = x])
    BY <1>9, <1>11, <2>2, ValueOK
  <2>. QED  BY <1>11, <2>1, <2>3
<1>. QED  BY <1>5, <1>6, <1>7, <1>8, <1>10, <1>11

LEMMA KeyboardOK ==
  ASSUME PageOK(w), Keyboard
  PROVE  PageOK(w')
<1>1. PICK t : t = Unmark(w) /\ PageOK(t) /\ t.value # Watermark
  BY UnmarkOK
<1>2. ASSUME NEW v \in Terms \cup {Empty, Blank}, Type(v) PROVE PageOK(w')
  <2>1. v \in Values /\ v # Watermark
    BY <1>2, TermFacts
  <2>2. PICK s : s = [t EXCEPT !.value = v] /\ PageOK(s)
    BY <1>1, <2>1, ValueOK
  <2>3. s.value = v
    BY <1>1, <2>2 DEF PageOK, Basic, Typed, PageFields
  <2>4. PageOK(Later(s, "plain"))
    BY <2>1, <2>2, <2>3, LaterOK
  <2>. QED  BY <1>1, <1>2, <2>2, <2>4 DEF Type
<1>3. CASE OtherKey
  <2>1. PICK how \in {"plain", "modified"} : w' = Later(t, how)
    BY <1>1, <1>3 DEF OtherKey
  <2>2. PageOK(Later(t, how))
    BY <1>1, LaterOK
  <2>. QED  BY <2>1, <2>2
<1>4. CASE Escape
  <2>1. PICK s : s = [t EXCEPT !.value = t.term, !.dismissed = TRUE]
    OBVIOUS
  <2>2. w' = t \/ w' = Close(s)
    BY <1>1, <1>4, <2>1 DEF Escape
  <2>3. Basic(t) /\ DOMAIN t = PageFields /\ BoxOK(t)
    BY <1>1, BasicBox DEF PageOK, Basic, Typed
  <2>4. /\ Edited(t, s) /\ s.searching = t.searching /\ s.kind = t.kind
        /\ s.disabled = t.disabled /\ s.boot = t.boot /\ s.keptBlur = t.keptBlur
        /\ s.term = t.term /\ s.value = t.term
    BY <2>1, <2>3 DEF Edited, PageFields, Idle, BoxFields
  <2>5. BoxOK(s)
    BY <2>3, <2>4 DEF BoxOK
  <2>6. PageOK(Close(s))
    BY <2>3, <2>4, <2>5, EditedOK, CloseOK DEF PageOK
  <2>. QED  BY <1>1, <2>2, <2>6
<1>5. CASE Enter
  <2>1. w' = t \/ (t.active # 0 /\ w' = Selected(t))
    BY <1>1, <1>5 DEF Enter
  <2>2. t.active # 0 => PageOK(Selected(t))
    BY <1>1, SelectedOK
  <2>. QED  BY <1>1, <2>1, <2>2
<1>. QED  BY <1>2, <1>3, <1>4, <1>5, MoveKeyOK DEF Keyboard

-----------------------------------------------------------------------------
(* The mouse and the focus. *)
LEMMA MouseFocusOK ==
  ASSUME NEW t, PageOK(t), t.visible, NEW k, k \in 1 .. Len(t.items)
  PROVE  PageOK(MenuFocused(MenuFocus(t, k), k, TRUE))
<1>1. PICK n \in Nat : n = Len(t.items)
  BY Seqs DEF PageOK, Basic, MenuOK
<1>2. /\ Basic(t) /\ Shown(t) /\ DOMAIN t = PageFields /\ t.pending \in Int
      /\ t.armed \in -1 .. n /\ k \in 1 .. n
  BY <1>1 DEF PageOK, Basic, Typed, MenuOK
<1>3. PICK u : u = MenuFocus(t, k) /\ Alike(t, u) /\ u.active = k /\ u.armed = t.armed
  BY <1>2, MenuFocusIs
<1>4. DOMAIN u = PageFields /\ u.pending \in Int
  BY <1>3 DEF Alike
<1>5. PICK v : v = MenuFocused(u, k, TRUE) /\ Alike(u, v) /\ v.active \in {0, u.active}
               /\ v.armed \in {k, u.armed}
  BY <1>4, MenuFocusedIs
<1>6. Alike(t, v)
  BY <1>3, <1>5 DEF Alike
<1>7. v.active \in 0 .. n /\ v.armed \in -1 .. n
  <2>1. 0 \in 0 .. n /\ k \in 0 .. n /\ k \in -1 .. n
    BY <1>2
  <2>. QED  BY <1>2, <1>3, <1>5, <2>1
<1>8. PageOK(v)
  BY <1>1, <1>2, <1>6, <1>7, AlikeOK DEF PageOK
<1>. QED  BY <1>3, <1>5, <1>8

(* Only fields that no property looks at. *)
LEMMA IdleOK ==
  ASSUME NEW t, PageOK(t), NEW u, DOMAIN u = PageFields,
         \A f \in PageFields \ Idle : u[f] = t[f]
  PROVE  PageOK(u)
<1>1. Edited(t, u)
  BY DEF Edited
<1>2. /\ u.searching = t.searching /\ u.kind = t.kind
      /\ u.disabled = t.disabled /\ u.boot = t.boot /\ u.keptBlur = t.keptBlur
      /\ u.term = t.term /\ u.value = t.value /\ u.dismissed = t.dismissed
  BY DEF PageFields, Idle
<1>3. BoxOK(u)
  BY <1>2, BasicBox DEF PageOK, BoxOK
<1>. QED  BY <1>1, <1>2, <1>3, EditedOK DEF PageOK

LEMMA MouseOK ==
  ASSUME PageOK(w), Mouse
  PROVE  PageOK(w')
<1>0. Basic(w) /\ BoxOK(w) /\ Shown(w) /\ DOMAIN w = PageFields
  BY BasicBox DEF PageOK, Basic, Typed
<1>1. PICK n \in Nat : n = Len(w.items) /\ DOMAIN w.items = 1 .. n
  BY <1>0, Seqs DEF Basic, MenuOK
<1>i. w.active \in 0 .. n /\ w.armed \in -1 .. n /\ w.pending \in Int
  BY <1>0, <1>1 DEF Basic, MenuOK, Typed
<1>2. ASSUME NEW k \in DOMAIN w.items, MouseEnter(k) PROVE PageOK(w')
  <2>1. w.visible /\ w' = MenuFocused(MenuFocus(w, k), k, TRUE)
    BY <1>2 DEF MouseEnter
  <2>2. PageOK(MenuFocused(MenuFocus(w, k), k, TRUE))
    BY <1>1, <2>1, MouseFocusOK
  <2>. QED  BY <2>1, <2>2
<1>3. ASSUME NEW k \in DOMAIN w.items, ClickItem(k) PROVE PageOK(w')
  <2>1. PICK s : s = IF w.active = 0 THEN [w EXCEPT !.active = k] ELSE w
    OBVIOUS
  <2>2. w.visible /\ w' = Selected(s)
    BY <1>3, <2>1 DEF ClickItem
  <2>3. PageOK(s) /\ s.active # 0
    <3>1. CASE w.active = 0
      <4>1. Alike(w, s) /\ s.active = k /\ s.armed = w.armed
        BY <1>0, <1>i, <2>1, <3>1 DEF Alike, PageFields, Idle
      <4>2. k \in 0 .. n /\ k # 0
        BY <1>1
      <4>. QED  BY <1>0, <1>1, <1>i, <2>2, <4>1, <4>2, AlikeOK DEF PageOK
    <3>2. CASE w.active # 0
      BY <2>1, <3>2
    <3>. QED  BY <3>1, <3>2
  <2>4. PageOK(Selected(s))
    BY <2>3, SelectedOK
  <2>. QED  BY <2>2, <2>4
<1>4. CASE MouseMove
  <2>1. PICK s : s = [w EXCEPT !.armed = 0]
    OBVIOUS
  <2>2. Alike(w, s) /\ s.active = w.active /\ s.armed = 0 /\ DOMAIN s = PageFields
    BY <1>0, <1>i, <2>1 DEF Alike, PageFields, Idle
  <2>3. PageOK(s)
    <3>1. 0 \in -1 .. n /\ (~w.visible => w.active = 0)
      BY <1>0 DEF Basic, MenuOK
    <3>. QED  BY <1>0, <1>1, <1>i, <2>2, <3>1, AlikeOK DEF PageOK
  <2>4. s.visible = w.visible /\ s.items = w.items
    BY <2>2, AlikeFields
  <2>5. CASE w.armed = -1 \/ ~w.visible
    BY <1>4, <2>1, <2>3, <2>5 DEF MouseMove
  <2>6. CASE ~(w.armed = -1 \/ ~w.visible)
    <3>1. PICK k : k = w.armed
      OBVIOUS
    <3>2. k \in 1 .. n
      BY <1>4, <1>i, <2>6, <3>1 DEF MouseMove
    <3>3. w' = MenuFocused(MenuFocus(s, k), k, TRUE)
      BY <1>4, <2>1, <2>6, <3>1 DEF MouseMove
    <3>4. s.visible /\ k \in 1 .. Len(s.items)
      BY <1>1, <2>4, <2>6, <3>2
    <3>5. PageOK(MenuFocused(MenuFocus(s, k), k, TRUE))
      BY ONLY <2>3, <3>4, MouseFocusOK
    <3>. QED  BY <3>3, <3>5
  <2>. QED  BY <2>5, <2>6
<1>5. ASSUME NEW u, u = [w EXCEPT !.timer = TRUE]
                    \/ u = [w EXCEPT !.cancelBlur = TRUE, !.restoring = TRUE]
      PROVE  PageOK(u)
  <2>1. DOMAIN u = PageFields /\ \A f \in PageFields \ Idle : u[f] = w[f]
    BY <1>0, <1>5 DEF PageFields, Idle
  <2>. QED  BY <2>1, IdleOK
<1>6. CASE MouseLeave
  <2>1. PICK u : u = [w EXCEPT !.timer = TRUE] /\ PageOK(u)
    BY <1>5
  <2>. QED  BY <1>6, <2>1 DEF MouseLeave
<1>7. CASE PressMenu
  <2>1. PICK u : u = [w EXCEPT !.cancelBlur = TRUE, !.restoring = TRUE] /\ PageOK(u)
    BY <1>5
  <2>. QED  BY <1>7, <2>1 DEF PressMenu
<1>8. CASE PressOutside
  <2>1. PICK s : s = [w EXCEPT !.dismissed = TRUE]
    OBVIOUS
  <2>2. /\ Edited(w, s) /\ s.searching = w.searching /\ s.kind = w.kind
        /\ s.disabled = w.disabled /\ s.boot = w.boot /\ s.keptBlur = w.keptBlur
        /\ s.term = w.term /\ s.value = w.value
    BY <1>0, <2>1 DEF Edited, PageFields, Idle, BoxFields
  <2>3. BoxOK(s)
    BY <1>0, <2>2 DEF BoxOK
  <2>4. PageOK(Close(s))
    BY <1>0, <2>2, <2>3, EditedOK, CloseOK DEF PageOK
  <2>. QED  BY <1>8, <2>1, <2>4 DEF PressOutside
<1>9. CASE Click
  <2>1. PICK s : s = [w EXCEPT !.focused = TRUE]
    OBVIOUS
  <2>2. DOMAIN s = PageFields /\ \A f \in PageFields \ Idle : s[f] = w[f]
    BY <1>0, <2>1 DEF PageFields, Idle
  <2>3. PageOK(s)
    BY <2>2, IdleOK
  <2>4. PageOK(Unmark(s))
    BY <2>3, UnmarkOK
  <2>. QED  BY <1>9, <2>1, <2>4 DEF Click
<1>10. CASE Reset
  <2>1. PICK s : s = [w EXCEPT !.value = Empty, !.focused = TRUE]
    OBVIOUS
  <2>2. /\ Edited(w, s) /\ s.searching = w.searching /\ s.kind = w.kind
        /\ s.disabled = w.disabled /\ s.boot = w.boot /\ s.keptBlur = w.keptBlur
        /\ s.term = w.term /\ s.value = Empty /\ s.dismissed = w.dismissed
    BY <1>0, <2>1 DEF Edited, PageFields, Idle, BoxFields
  <2>3. BoxOK(s)
    BY <1>0, <2>2, TermFacts DEF BoxOK
  <2>4. PageOK(s)
    BY <1>0, <2>2, <2>3, EditedOK DEF PageOK
  <2>. QED  BY <1>10, <2>1, <2>4 DEF Reset
<1>. QED  BY <1>2, <1>3, <1>4, <1>6, <1>7, <1>8, <1>9, <1>10 DEF Mouse

LEMMA BlurOK ==
  ASSUME PageOK(w), Blur
  PROVE  PageOK(w')
<1>1. PICK t : t = IF w.kind = "page" /\ w.value = Empty
                   THEN [w EXCEPT !.value = Watermark, !.marked = TRUE] ELSE w
  OBVIOUS
<1>2. PICK u : u = [t EXCEPT !.focused = FALSE]
  OBVIOUS
<1>3. w' = Leave(u)
  BY <1>1, <1>2 DEF Blur
<1>4. DOMAIN w = PageFields
  BY DEF PageOK, Basic, Typed
<1>5. /\ DOMAIN t = PageFields /\ \A f \in PageFields \ {"value", "marked"} : t[f] = w[f]
      /\ t.value = w.value \/ (t.value = Watermark /\ w.kind = "page")
  BY <1>1, <1>4 DEF PageFields
<1>6. DOMAIN u = PageFields /\ \A f \in PageFields \ {"focused"} : u[f] = t[f]
  BY <1>2, <1>5
<1>7. Edited(w, u)
  BY <1>5, <1>6 DEF Edited, Idle, BoxFields
<1>8. /\ u.value = t.value /\ u.searching = w.searching /\ u.keptBlur = w.keptBlur
      /\ u.term = w.term /\ u.dismissed = w.dismissed /\ u.disabled = w.disabled
      /\ u.boot = w.boot
  BY <1>5, <1>6 DEF PageFields
<1>9. PageOK(Leave(u))
  BY <1>5, <1>7, <1>8, LeaveOK
<1>. QED  BY <1>3, <1>9

LEMMA FocusOK ==
  ASSUME PageOK(w), Focus \/ Restore \/ Collapse
  PROVE  PageOK(w')
<1>0. DOMAIN w = PageFields /\ w.pending \in Int /\ Basic(w)
  BY DEF PageOK, Basic, Typed
<1>1. ASSUME NEW u, u = [w EXCEPT !.focused = TRUE]
             \/ u = [w EXCEPT !.restoring = FALSE, !.cancelBlur = FALSE, !.focused = TRUE]
      PROVE  PageOK(u)
  <2>1. DOMAIN u = PageFields /\ \A f \in PageFields \ Idle : u[f] = w[f]
    BY <1>0, <1>1 DEF PageFields, Idle
  <2>. QED  BY <2>1, IdleOK
<1>2. CASE Focus
  <2>1. PICK u : u = [w EXCEPT !.focused = TRUE] /\ PageOK(u)
    BY <1>1
  <2>. QED  BY <1>2, <2>1 DEF Focus
<1>3. CASE Restore
  <2>1. PICK u : /\ u = [w EXCEPT !.restoring = FALSE, !.cancelBlur = FALSE, !.focused = TRUE]
                 /\ PageOK(u)
    BY <1>1
  <2>. QED  BY <1>3, <2>1 DEF Restore
<1>4. CASE Collapse
  <2>1. PICK b : b = MenuBlur(w) /\ Alike(w, b) /\ b.active = 0 /\ b.armed = w.armed
    BY <1>0, MenuBlurIs
  <2>2. Len(w.items) \in Nat /\ w.armed \in -1 .. Len(w.items)
    BY <1>0, Seqs DEF Basic, MenuOK
  <2>3. PageOK(b)
    BY <1>0, <2>1, <2>2, AlikeOK DEF PageOK
  <2>. QED  BY <1>4, <2>1, <2>3 DEF Collapse
<1>. QED  BY <1>2, <1>3, <1>4

-----------------------------------------------------------------------------
LEMMA InitOK ==
  ASSUME Init
  PROVE  PageOK(w)
<1>1. PICK kind \in Kinds :
    w = [kind |-> kind, boot |-> [ready |-> Parsing, script |-> FALSE, run |-> 0],
         value |-> Empty, marked |-> FALSE, focused |-> FALSE, term |-> Empty,
         searching |-> "none", pending |-> 0, loading |-> FALSE, requestIndex |-> 0,
         cancelSearch |-> FALSE, cancelBlur |-> FALSE, restoring |-> FALSE,
         requests |-> {}, disabled |-> FALSE, visible |-> FALSE, items |-> <<>>,
         active |-> 0, timer |-> FALSE, isNewMenu |-> TRUE, armed |-> 0,
         loaded |-> {}, updater |-> NoUpdate, location |-> {},
         dismissed |-> FALSE, keptBlur |-> FALSE]
  BY DEF Init
<1>2. PICK b : b = [ready |-> Parsing, script |-> FALSE, run |-> 0]
  OBVIOUS
<1>3. /\ DOMAIN w = PageFields
      /\ w.kind = kind /\ w.boot = b /\ w.value = Empty /\ w.term = Empty
      /\ w.searching = "none" /\ w.pending = 0 /\ w.requestIndex = 0
      /\ w.requests = {} /\ ~w.disabled /\ ~w.visible /\ w.items = <<>> /\ w.active = 0
      /\ w.armed = 0 /\ w.loaded = {} /\ w.updater = NoUpdate /\ ~w.dismissed
  BY <1>1, <1>2 DEF PageFields
<1>4. Typed(w)
  <2>1. 0 \in 0 .. MaxSearches /\ kind \in {"page", "url", "function"}
    BY SearchPageAssumption
  <2>. QED  BY <1>3, <2>1, TermFacts DEF Typed
<1>5. MenuOK(w)
  BY <1>3, Seqs DEF MenuOK
<1>6. RequestsOK(w)
  BY <1>3 DEF RequestsOK
<1>7. MarkOK(w)
  BY <1>3, TermFacts DEF MarkOK
<1>8. BootOK(w.boot)
  <2>1. DOMAIN b = {"ready", "script", "run"} /\ b.run = 0 /\ b.ready = Parsing
    BY <1>2
  <2>2. ReadyOK(Parsing)
    BY DEF ReadyOK, ReadyFields, Parsing
  <2>. QED  BY <1>3, <2>1, <2>2, BootIs
<1>9. Shown(w)
  BY <1>3 DEF Shown
<1>. QED  BY <1>4, <1>5, <1>6, <1>7, <1>8, <1>9 DEF PageOK, Basic

LEMMA NextOK ==
  ASSUME PageOK(w), [Next]_vars
  PROVE  PageOK(w')
<1>1. CASE Next
  BY <1>1, StartOK, KeyboardOK, MouseOK, FocusOK, BlurOK, DisableOK, TimerOK, ReplyOK,
     LoadIndexOK DEF Next
<1>2. CASE UNCHANGED vars
  BY <1>2 DEF vars
<1>. QED  BY <1>1, <1>2

(* The page is always in order. *)
THEOREM Always == Spec => [](PageOK(w))
<1>1. Init => PageOK(w)
  BY InitOK
<1>2. PageOK(w) /\ [Next]_vars => PageOK(w)'
  BY NextOK
<1>. QED  BY <1>1, <1>2, PTL DEF Spec

(* The page starts when, and only when, the document has been parsed and
   every hold on the ready event has been released, in whatever order, and
   none of its functions is called before: jQuery.ready's one counter and its
   flag tell both (jquery-3.4.1.js, readyWait and isReady). *)
THEOREM PageStarts == Spec => []StartsWhenReady
<1>1. PageOK(w) => StartsWhenReady
  BY DEF PageOK, Basic, BootOK, StartsWhenReady
<1>. QED  BY <1>1, Always, PTL

(* The menu shows what is to be found for the term searched last, on the page
   in all the index files that are there by now, and its active item is one
   of those shown: the request index of __response and updateSearchResults,
   which doSearch sets, keep up with each other (jquery-ui.js, search.js). *)
THEOREM MenuKeepsUp == Spec => []MenuIsCurrent
<1>1. PageOK(w) => MenuIsCurrent
  <2>. SUFFICES ASSUME PageOK(w) PROVE MenuIsCurrent
    OBVIOUS
  <2>1. TypeOK
    BY DEF PageOK, Basic, Typed, RequestsOK, TypeOK
  <2>2. w.active \in 0 .. Len(w.items) /\ (~w.visible => w.active = 0)
    BY DEF PageOK, Basic, MenuOK
  <2>3. w.visible => ShowsFound(w)
    BY DEF PageOK, Shown
  <2>. QED  BY <2>1, <2>2, <2>3 DEF MenuIsCurrent, ShowsFound
<1>. QED  BY <1>1, Always, PTL

(* A menu the user has closed is opened by no answer and no index file that
   comes in later: close() sets cancelSearch, which only a search that begins
   resets (jquery-ui.js). *)
THEOREM DismissedStaysSo == Spec => []StaysDismissed
<1>1. PageOK(w) => StaysDismissed
  BY DEF PageOK, Shown, StaysDismissed
<1>. QED  BY <1>1, Always, PTL

(* Unless a blur comes while the menu is being pressed, the page does not
   search for its own watermark: the box that loses the focus has no timer of
   a search left when search.js puts the watermark in. *)
THEOREM WatermarkUnsearched == Spec => []WatermarkNotSearched
<1>1. PageOK(w) => WatermarkNotSearched
  BY TermFacts DEF PageOK, Basic, MarkOK, WatermarkNotSearched
<1>. QED  BY <1>1, Always, PTL
=============================================================================
