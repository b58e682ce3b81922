---------------------------- MODULE SourceParser ----------------------------
(***************************************************************************)
(* What internal/indexer/parser.go makes of one source file: the functions *)
(* it stores and the calls it attributes to them, by line numbers only.    *)
(*                                                                         *)
(* A text is what the two tree-sitter queries of its language match, in    *)
(* the order of the matches: definitions with their first and last line,   *)
(* and calls with the line of their target.                                *)
(***************************************************************************)
EXTENDS Naturals, Sequences

CONSTANTS
  Names,  \* identifiers
  NoName  \* the name of an arrow function

ASSUME SourceParserAssumption == NoName \notin Names

Definition == [name : Names \cup {NoName}, first : Nat, last : Nat]
Call       == [target : Names, line : Nat]
Texts      == [defs : Seq(Definition), calls : Seq(Call)]

FuncNames == Names \cup ({"anonymous"} \X Nat)

\* An arrow function is named after its line: <anonymous@line>.
FuncName(def) ==
  IF def.name = NoName THEN <<"anonymous", def.first>> ELSE def.name

Defined(text) == {FuncName(text.defs[i]) : i \in DOMAIN text.defs}

\* Methods of two types, or two arrow functions that begin on one line.
Repeats(text) ==
  \E i, k \in DOMAIN text.defs :
    i # k /\ FuncName(text.defs[i]) = FuncName(text.defs[k])

-----------------------------------------------------------------------------
(* Whose call it is.                                                        *)

Around(text, line) ==
  {i \in DOMAIN text.defs :
     text.defs[i].first <= line /\ line <= text.defs[i].last}

LineRange(def) == def.last - def.first

\* The function of the smallest range of lines; among equals, the first.
findEnclosingFunction(text, line) ==
  CHOOSE i \in Around(text, line) :
    \A k \in Around(text, line) :
      \/ LineRange(text.defs[i]) < LineRange(text.defs[k])
      \/ LineRange(text.defs[i]) = LineRange(text.defs[k]) /\ i <= k

\* Pairs of a function's name and a name it calls.  A call outside of every
\* function is not recorded.
RawCallEdges(text) ==
  {<<FuncName(text.defs[findEnclosingFunction(text, text.calls[c].line)]),
     text.calls[c].target>> :
     c \in {c \in DOMAIN text.calls : Around(text, text.calls[c].line) # {}}}
=============================================================================
