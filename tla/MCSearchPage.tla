---------------------------- MODULE MCSearchPage ----------------------------
(* A small instance of SearchPage for TLC: packages of two modules and of   *)
(* none, four types, and two terms.                                        *)
EXTENDS SearchPage

AllKinds == {"page", "url", "function"}
TwoFiles == <<"packages", "types">>

Named(name, m, p) == [name |-> name, m |-> m, p |-> p]

(* A type's package is in a module, in none, or its own entry names one. *)
TheIndex ==
  [f \in {"packages", "types"} |->
    IF f = "packages"
    THEN <<Named("pkg", "mod", None), Named("util", None, None), Named("lang", "base", None)>>
    ELSE <<Named("T", None, "pkg"), Named("U", "own", None), Named("V", None, "util"),
           Named("W", None, "lang")>>]

Plain(boundary, missing) ==
  [boundary |-> boundary, peripheral |-> FALSE, missing |-> missing, camel |-> 0]
Peripheral == [Plain(0, 0) EXCEPT !.peripheral = TRUE]
Camel == [Plain(0, 2) EXCEPT !.camel = 1]

(* x is found in both files, among the types better further down and more
   often than there is room for; y among the types only, once in what
   contains the name. *)
TheMatches ==
  [term \in {"x", "y"} |->
    [f \in {"packages", "types"} |->
      IF f = "types"
      THEN IF term = "x" THEN <<Camel, Plain(0, 3), Plain(2, 0), Plain(0, 0)>>
           ELSE <<Peripheral, Plain(1, 0), NoMatch, Plain(0, 1)>>
      ELSE IF term = "x" THEN <<Plain(0, 1), NoMatch, Plain(0, 0)>>
           ELSE <<NoMatch, NoMatch, NoMatch>>]]
=============================================================================
