--------------------------- MODULE SearchResults ---------------------------
(***************************************************************************)
(* What the javadoc pages find: search.js ranks the entries of each index  *)
(* file that match, keeps the better ones, and makes one menu of them with *)
(* a heading for each category; an entry selected in it is a page to go to.*)
(*                                                                         *)
(* An entry is a record [name, m, p]: the module and the package, None if  *)
(* the entry does not say.  How a term matches an entry, which the code    *)
(* finds out with regular expressions, is given by Matches: NoMatch or a   *)
(* record of what the ranking looks at:                                    *)
(*   boundary   0 on a left word boundary, 1 at a capital letter, else 2   *)
(*   peripheral the match is in the arguments or in what contains the name *)
(*   missing    how many characters the camel case leaves out              *)
(*   camel      how many of the parts before and after have a capital      *)
(***************************************************************************)
EXTENDS Integers, Sequences, FiniteSets, SequencesExt

CONSTANTS
  Files,        \* the categories that have an index file, in order
  Index,        \* of each file, the entries
  Terms,        \* what is typed, other than nothing or blanks
  Matches,      \* how a term matches each entry of a file
  MaxResults    \* MAX_RESULTS_PER_CATEGORY

None == "none"
NoMatch == [boundary |-> -1, peripheral |-> FALSE, missing |-> 0, camel |-> 0]

AllFiles == {Files[i] : i \in DOMAIN Files}
Categories == <<"modules", "packages", "types", "members", "tags">>

ASSUME SearchResultsAssumption ==
  /\ Files \in Seq(ToSet(Categories)) /\ IsInjective(Files)
  /\ DOMAIN Index = AllFiles /\ DOMAIN Matches = Terms
  /\ \A f \in AllFiles : Index[f] \in Seq(ToSet(Index[f]))
  /\ \A term \in Terms, f \in AllFiles :
       DOMAIN Matches[term][f] = DOMAIN Index[f]
  /\ MaxResults \in Nat \ {0}

(* Rankings are in 1/200: delta / 200 is added to whole numbers. *)
RankingThreshold == 400
Unranked == 65535 * 200

(* rankMatch: modules and tags have no peripheral matches, and only types
   are ranked lower for capitals outside the match. *)
RankMatch(match, category) ==
  IF match = NoMatch THEN Unranked
  ELSE 200 * match.boundary
       + (IF match.peripheral /\ category \notin {"modules", "tags"} THEN 400 ELSE 0)
       + match.missing
       + (IF category = "types" THEN 5 * match.camel ELSE 0)

(* Terms are those that match something. *)
Ranking(f, i, term) ==
  RankMatch(IF term \in Terms THEN Matches[term][f][i] ELSE NoMatch, f)

(* Which entries of a file are good enough, in the order of the file; the
   loop ends when there are enough of them.  A function of the number of
   entries looked at. *)
GoodUpto(f, term) ==
  LET good[i \in 0..Len(Index[f])] ==
        IF i = 0 THEN <<>>
        ELSE IF \/ Len(good[i - 1]) = MaxResults
                \/ Ranking(f, i, term) >= RankingThreshold
        THEN good[i - 1] ELSE Append(good[i - 1], i)
  IN good

GoodEnough(f, term) == GoodUpto(f, term)[Len(Index[f])]

(* Array.prototype.sort keeps the order of equals. *)
ByRanking(results) ==
  LET Before(i, j) == \/ results[i].ranking < results[j].ranking
                      \/ (results[i].ranking = results[j].ranking /\ i < j)
      order == SetToSortSeq(DOMAIN results, Before)
  IN [k \in DOMAIN results |-> results[order[k]]]

ItemsOf(results) == [k \in DOMAIN results |-> results[k].item]

(* Variant: the results of the file before are still in newResults. *)
ConcatResultsKeeping(all, new) ==
  [result |-> all.result \o ItemsOf(ByRanking(all.new \o new)), new |-> all.new \o new]

(* concatResults: what is new behind what there is, and newResults emptied. *)
ConcatResults(all, new) ==
  [result |-> all.result \o ItemsOf(ByRanking(all.new \o new)), new |-> <<>>]

(* What a file adds to newResults. *)
NewResults(f, term) ==
  LET good == GoodEnough(f, term)
  IN [k \in DOMAIN good |->
       [ranking |-> Ranking(f, good[k], term),
        item |-> [of |-> f, entry |-> good[k], term |-> term]]]

(* The loops of doSearch over the files that have been loaded; a function of
   the number of files gone over. *)
ResultsUpto(loaded, term) ==
  LET all[i \in 0..Len(Files)] ==
        IF i = 0 THEN [result |-> <<>>, new |-> <<>>]
        ELSE IF Files[i] \notin loaded THEN all[i - 1]
        ELSE ConcatResults(all[i - 1], NewResults(Files[i], term))
  IN all

Results(loaded, term) == ResultsUpto(loaded, term)[Len(Files)].result

(***************************************************************************)
(* The menu and where it leads.                                            *)
(***************************************************************************)

(* _renderMenu: a heading where the category is a new one. *)
Rows(items) ==
  LET Current[k \in 0..Len(items)] ==
        IF k = 0 THEN None
        ELSE IF items[k].of \in AllFiles THEN items[k].of ELSE Current[k - 1]
  IN FlattenSeq([k \in DOMAIN items |->
       (IF Current[k] = Current[k - 1] THEN <<>>
        ELSE <<[row |-> "heading", of |-> items[k].of]>>)
       \o <<[row |-> "item", item |-> items[k]]>>])

Entry(item) == Index[item.of][item.entry]

(* Variant: any package that has a module gives it. *)
URLPrefixAny(item, loaded) ==
  IF item.of \in {"modules", "packages"} THEN Entry(item).m
  ELSE IF item.of = "tags" THEN None
  ELSE LET there == IF "packages" \in loaded THEN Index["packages"] ELSE <<>>
           found == SelectSeq(there, LAMBDA q : q.m # None)
       IN IF Entry(item).m # None \/ found = <<>> THEN Entry(item).m ELSE Last(found).m

(* getURLPrefix: a type or member that names no module is in that of the
   last package with its package's name, if the packages have been loaded. *)
URLPrefix(item, loaded) ==
  IF item.of = "modules" THEN Entry(item).name
  ELSE IF item.of = "packages" THEN Entry(item).m
  ELSE IF item.of = "tags" THEN None
  ELSE LET there == IF "packages" \in loaded THEN Index["packages"] ELSE <<>>
           found == SelectSeq(there, LAMBDA q : q.m # None /\ q.name = Entry(item).p)
       IN IF Entry(item).m # None \/ found = <<>> THEN Entry(item).m ELSE Last(found).m

(* The page's handler of `select': "Loading..." and "No results" lead
   nowhere. *)
Target(item, loaded) ==
  IF item.of \notin AllFiles THEN {}
  ELSE {[prefix |-> URLPrefix(item, loaded), page |-> item]}
=============================================================================
