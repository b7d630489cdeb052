------------------------------ MODULE Timeline ------------------------------
(***************************************************************************)
(* ValueTimeline (src/src/semantic/valueTimeline.cpp): what the semantic   *)
(* analyzer knows of the variables at a point of the program.  A timeline  *)
(* is a stack of scopes; a scope maps its variables to what is known of    *)
(* their value and keeps externalReferences, the outer variables used from *)
(* it, TRUE when assigned.  From inside a blind scope (the body of a cycle *)
(* or of a function) the variables outside are of unknown type.            *)
(*                                                                         *)
(* What serves the warnings about unused variables and values only ("used" *)
(* and lastUnusedAssignments) is left out.                                 *)
(***************************************************************************)
EXTENDS Naturals, Sequences, SequencesExt, FiniteSets

CONSTANTS
  Names,    \* identifiers of the program
  Ints,     \* values of type integer
  Strings   \* values of type string

None == "none"

ASSUME TimelineAssumption ==
  /\ IsFiniteSet(Names) /\ IsFiniteSet(Ints) /\ IsFiniteSet(Strings)
  /\ None \notin Names \cup Ints \cup Strings

Values == Ints \cup Strings \cup {None}
TypeOf(v) == IF v \in Ints THEN "int" ELSE IF v \in Strings THEN "string" ELSE "none"
Types == {"int", "string", "none"}
UnknownType == "unknown"

\* runtime::TypeOrValue: a type, or a value, which is a shared object.
NoObject == 0
OfType(t) == [type |-> t, value |-> None, object |-> NoObject]
OfValue(v, object) == [type |-> TypeOf(v), value |-> v, object |-> object]
Unknown == OfType(UnknownType)
IsValue(known) == known.object # NoObject

NewScope == [vars |-> <<>>, ext |-> <<>>]

With(f, x, v) == [y \in DOMAIN f \cup {x} |-> IF y = x THEN v ELSE f[y]]

-----------------------------------------------------------------------------
\* Lookup: the innermost scope that declares x.
DeclaredIn(tl, x) == {i \in DOMAIN tl.stack : x \in DOMAIN tl.stack[i].vars}
IsDeclared(tl, x) == DeclaredIn(tl, x) # {}
Lookup(tl, x) == Max(DeclaredIn(tl, x))
DeclaredNames(tl) == {x \in Names : IsDeclared(tl, x)}

\* Scopes below the last blind one cannot be seen from the top.
IsBlindTo(tl, i) == tl.blind # <<>> /\ i <= Last(tl.blind)

\* A use of a variable of an outer scope; a read makes it FALSE even where an
\* assignment had made it TRUE.
Refer(tl, x, assigned) ==
  IF Lookup(tl, x) = Len(tl.stack) THEN tl
  ELSE [tl EXCEPT !.stack[Len(tl.stack)].ext = With(@, x, assigned)]

LookupVariable(tl, x) == Refer(tl, x, FALSE)
Known(tl, x) ==
  IF IsBlindTo(tl, Lookup(tl, x)) THEN Unknown
  ELSE tl.stack[Lookup(tl, x)].vars[x]

SetVar(tl, x, known) == [tl EXCEPT !.stack[Lookup(tl, x)].vars[x] = known]

\* AssignType and AssignValue.
Assign(tl, x, known) == Refer(SetVar(tl, x, known), x, TRUE)

\* AssignUnknownButUsed of all variables of xs.
AssignAllUnknown(tl, xs) ==
  [tl EXCEPT !.stack = [i \in DOMAIN @ |->
     [vars |-> [x \in DOMAIN @[i].vars |->
                  IF x \in xs /\ Lookup(tl, x) = i THEN Unknown ELSE @[i].vars[x]],
      ext |-> IF i < Len(tl.stack) THEN @[i].ext
              ELSE LET outer == {x \in xs : Lookup(tl, x) # i}
                   IN [x \in DOMAIN @[i].ext \cup outer |-> x \in outer \/ @[i].ext[x]]]]]

\* Declare, in the innermost scope; the variable holds a none of its own.
Declare(tl, x, object) ==
  [tl EXCEPT !.stack[Len(tl.stack)].vars = With(@, x, OfValue(None, object))]

\* The parameters of a function, in the scope that has been started for them.
DeclareParameters(tl, params) ==
  [tl EXCEPT !.stack[Len(tl.stack)].vars = [x \in params |-> Unknown]]

\* A call of a function that is not pure.
MakeAllUnknown(tl) ==
  [tl EXCEPT !.stack = [i \in DOMAIN @ |->
     [vars |-> [x \in DOMAIN @[i].vars |-> Unknown], ext |-> @[i].ext]]]

StartScope(tl) == [tl EXCEPT !.stack = Append(@, NewScope)]
StartBlindScope(tl) ==
  [stack |-> Append(tl.stack, NewScope), blind |-> Append(tl.blind, Len(tl.stack))]

\* EndScope hands the references of the scope on to the one around it, unless
\* they are to its own variables.
Joined(f, g) ==
  [x \in DOMAIN f \cup DOMAIN g |->
     (x \in DOMAIN f /\ f[x]) \/ (x \in DOMAIN g /\ g[x])]

\* (Mutant: the references end with the scope.)
InheritedExtLost(outer, ext) == outer.ext
InheritedExt(outer, ext) ==
  Joined(outer.ext, [x \in DOMAIN ext \ DOMAIN outer.vars |-> ext[x]])

\* The scopes are n now; a blind one that has ended counts no longer.
\* (Mutant: it goes on counting.)
BlindKept(blind, n) == blind
BlindLeft(blind, n) == IF blind # <<>> /\ Last(blind) = n THEN Front(blind) ELSE blind

EndScope(tl) ==
  LET n == Len(tl.stack) - 1
      rest == SubSeq(tl.stack, 1, n)
  IN [stack |-> IF n = 0 THEN rest
                ELSE [rest EXCEPT ![n].ext = InheritedExt(rest[n], Last(tl.stack).ext)],
      blind |-> BlindLeft(tl.blind, n)]

\* ScopeStats::referencedExternals of the scope about to end.
ReferencedExternals(tl) == Last(tl.stack).ext

-----------------------------------------------------------------------------
(* MergeTimelines, after the branches of an `if`.                          *)

\* Type::Generalize, and GeneralizeValue: the same object, or the type.
Generalize(s, t) == IF s = t THEN s ELSE UnknownType
GeneralizeValue(a, b) ==
  IF IsValue(a) /\ a.object = b.object THEN a ELSE OfType(Generalize(a.type, b.type))

MergeTimelines(tl, other) ==
  [tl EXCEPT !.stack = [i \in DOMAIN @ |->
     [vars |-> [x \in DOMAIN tl.stack[i].vars |->
                  GeneralizeValue(tl.stack[i].vars[x], other.stack[i].vars[x])],
      ext |-> Joined(tl.stack[i].ext, other.stack[i].ext)]]]
=============================================================================
