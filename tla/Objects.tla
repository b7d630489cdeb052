------------------------------ MODULE Objects -------------------------------
(***************************************************************************)
(* Arrays and tuples as objects that variables and items share:            *)
(* ArrayValue and TupleValue (src/src/runtime/values.cpp), assignment      *)
(* through accessors, for and print (src/src/interp/execution.cpp).        *)
(*                                                                         *)
(* One scope, and one for at a time with its variable; how cycles and      *)
(* calls nest is Executor.  A value is a number or an object.  An object   *)
(* nothing leads to is gone, and its place is free for another.            *)
(*                                                                         *)
(* Left out: values of other types, whose operators are in Values, and     *)
(* closures that capture variables, which are in Executor.                 *)
(***************************************************************************)
EXTENDS Integers, Sequences, FiniteSets, SequencesExt

CONSTANTS
  Names,       \* variables of the program
  CycleName,   \* the variable of a for
  Fields,      \* names of fields of tuples, in their order
  Indices,     \* indices of items and ends of ranges written in the program
  Places,      \* where objects can be in memory: a bound on their number
  MaxLiteral,  \* bound on the items of a literal
  MaxLength,   \* bound on the items of an object
  MaxSteps     \* bound on the statements executed, a literal counting its items

ASSUME ObjectsAssumption ==
  /\ CycleName \notin Names
  /\ Indices \subseteq Int /\ Places \subseteq Nat \ {0} /\ IsFiniteSet(Places)
  /\ MaxLiteral \in Nat /\ MaxLength \in Nat /\ MaxSteps \in Nat

VARIABLES
  scope,    \* the contents of variables
  heap,     \* the objects, by place
  cycle,    \* the for that is executed, if there is one, and what it has seen
  last,     \* the last sum, or the last text printed, for the properties
  status,   \* "running", or "failed" after an error
  steps     \* how much has been executed, up to MaxSteps

vars == <<scope, heap, cycle, last, status, steps>>

-----------------------------------------------------------------------------
(* Values and objects.                                                     *)

Number(k) == [place |-> 0, number |-> k]
Object(p) == [place |-> p, number |-> 0]
IsObject(v) == v.place # 0

\* ArrayValue: items by index, with gaps.  TupleValue: items from 1 on, and the
\* indices of those that have names.
Array(items) == [kind |-> "array", items |-> items, names |-> <<>>]
Tuple(items, names) == [kind |-> "tuple", items |-> items, names |-> names]

\* The keys of a std::map, in their order.
InOrder(S) ==
  CHOOSE keys \in [1 .. Cardinality(S) -> S] :
    \A k, m \in 1 .. Cardinality(S) : k < m => keys[k] < keys[m]
ItemsOf(object) ==
  LET keys == InOrder(DOMAIN object.items) IN [k \in DOMAIN keys |-> object.items[keys[k]]]
Least(S) == CHOOSE x \in S : \A y \in S : x <= y
Greatest(S) == CHOOSE x \in S : \A y \in S : y <= x

\* ArrayValue::BinaryPlus: the right indices move behind the left ones.
\* (Mutant: onto the last of them.)
ShiftOnto(left, right) == Greatest(DOMAIN left) - Least(DOMAIN right)
Shift(left, right) == Greatest(DOMAIN left) - Least(DOMAIN right) + 1
ArraySum(left, right) ==
  IF DOMAIN left = {} THEN right
  ELSE IF DOMAIN right = {} THEN left
  ELSE LET d == Shift(left, right)
           moved == {k + d : k \in DOMAIN right}
       IN [k \in DOMAIN left \cup moved |-> IF k \in moved THEN right[k - d] ELSE left[k]]

\* TupleValue(left, right): try_emplace keeps the names of the left side.
\* (Mutant: the right names keep their numbers.)
NamesOfBothUnshifted(left, right) == left.names @@ right.names
NamesOfBoth(left, right) ==
  [f \in DOMAIN left.names \cup DOMAIN right.names |->
     IF f \in DOMAIN left.names THEN left.names[f] ELSE right.names[f] + Len(left.items)]
TupleSum(left, right) == Tuple(left.items \o right.items, NamesOfBoth(left, right))

SumOf(left, right) ==
  IF left.kind = "array" THEN Array(ArraySum(left.items, right.items)) ELSE TupleSum(left, right)

\* AssignItem, AssignNamedField and AssignIndexedField.
AssignItem(object, k, v) ==
  [object EXCEPT !.items = [i \in DOMAIN @ \cup {k} |-> IF i = k THEN v ELSE @[i]]]
Deleted(object, k) == [object EXCEPT !.items = [i \in DOMAIN @ \ {k} |-> @[i]]]

-----------------------------------------------------------------------------
(* Accessors: [index], .field and .number.                                 *)

Accessor(kind, key) == [kind |-> kind, key |-> key]
Accessors ==
  {Accessor("index", k) : k \in Indices} \cup {Accessor("named", f) : f \in ToSet(Fields)}
    \cup {Accessor("numbered", k) : k \in Indices}

\* The key of the item that an accessor leads to, if there is one.
KeysAt(object, acc) ==
  CASE acc.kind = "index"    -> IF object.kind = "array" THEN {acc.key} ELSE {}
    [] acc.kind = "named"    -> IF acc.key \in DOMAIN object.names THEN {object.names[acc.key]} ELSE {}
    [] acc.kind = "numbered" -> IF object.kind = "tuple" THEN {acc.key} \cap DOMAIN object.items ELSE {}

\* UnaryOpExecutor: the values an accessor of v gives; none is an error.
Accessed(v, acc) ==
  IF ~ IsObject(v) THEN {}
  ELSE {heap[v.place].items[k] : k \in KeysAt(heap[v.place], acc) \cap DOMAIN heap[v.place].items}

-----------------------------------------------------------------------------
(* Memory.                                                                 *)

PlacesIn(object) == {object.items[k].place : k \in DOMAIN object.items} \ {0}

\* The part of memory that these places lead to.
Reachable(memory, places) ==
  LET from[k \in 0 .. Cardinality(Places)] ==
        IF k = 0 THEN places
        ELSE from[k - 1] \cup UNION {PlacesIn(memory[p]) : p \in from[k - 1]}
  IN from[Cardinality(Places)]

NoCycle == [kind |-> "none"]
PlacesOfCycle(c) ==
  IF c.kind = "items" THEN {c.over.place} \cup {c.items[k].place : k \in DOMAIN c.items} ELSE {}
PlacesOfLast(l) == IF l.kind = "sum" THEN PlacesIn(l.left) \cup PlacesIn(l.right) \cup {l.at} ELSE {}

\* What is left of memory when variables and cycle are these.
Collected(memory, newScope, newCycle, newLast) ==
  LET roots == ({newScope[x].place : x \in DOMAIN newScope} \cup PlacesOfCycle(newCycle)
                  \cup PlacesOfLast(newLast)) \ {0}
  IN [p \in Reachable(memory, roots) |-> memory[p]]

Free == Places \ DOMAIN heap
With(object) == [p \in DOMAIN heap \cup {Least(Free)} |-> IF p \in DOMAIN heap THEN heap[p] ELSE object]

NoLast == [kind |-> "none"]
StatementOf(size) == status = "running" /\ steps + size <= MaxSteps /\ steps' = steps + size
Statement == StatementOf(1)
Ends(memory, newScope, newCycle, newLast) ==
  /\ scope' = newScope /\ cycle' = newCycle /\ last' = newLast
  /\ heap' = Collected(memory, newScope, newCycle, newLast)
  /\ UNCHANGED status
Fails == status' = "failed" /\ UNCHANGED <<scope, heap, cycle, last>>

\* A for that is over is forgotten with the next statement.
Rest == IF cycle.kind = "over" THEN NoCycle ELSE cycle

Visible == DOMAIN scope
Operands == {scope[x] : x \in Visible}
Objects == {p \in DOMAIN heap : \E x \in Visible : scope[x].place = p}

-----------------------------------------------------------------------------
(* Statements.                                                             *)

\* x := a literal: a new object every time it is evaluated.
New(x, object) ==
  /\ Free # {} /\ Cardinality(DOMAIN object.items) <= MaxLength
  /\ Ends(With(object), [scope EXCEPT ![x] = Object(Least(Free))], Rest, NoLast)

AssignArray ==
  \E x \in Visible, m \in 0 .. MaxLiteral :
    /\ StatementOf(IF m = 0 THEN 1 ELSE m)
    /\ \E items \in [1 .. m -> Operands] : New(x, Array(items))

\* VisitTupleLiteral: a name that comes twice is an error.
NoLabel == "none"
AssignTuple ==
  \E x \in Visible, m \in 1 .. MaxLiteral :
    /\ StatementOf(m)
    /\ \E items \in [1 .. m -> Operands], labels \in [1 .. m -> ToSet(Fields) \cup {NoLabel}] :
         LET named == {k \in 1 .. m : labels[k] # NoLabel}
             names == [f \in {labels[k] : k \in named} |-> Least({k \in named : labels[k] = f})]
         IN IF Cardinality(DOMAIN names) < Cardinality(named) THEN Fails
            ELSE New(x, Tuple(items, names))

\* x := y + z for two arrays or two tuples.
AssignSum ==
  /\ Statement /\ Free # {}
  /\ \E x \in Visible, p, q \in Objects :
       /\ heap[p].kind = heap[q].kind
       /\ LET sum == SumOf(heap[p], heap[q])
          IN /\ Cardinality(DOMAIN sum.items) <= MaxLength
             /\ Ends(With(sum), [scope EXCEPT ![x] = Object(Least(Free))], Rest,
                     [kind |-> "sum", left |-> heap[p], right |-> heap[q], at |-> Least(Free)])

\* x := y.Indices
AssignIndices ==
  /\ Statement
  /\ \E x \in Visible, p \in Objects :
       /\ heap[p].kind = "array"
       /\ LET keys == InOrder(DOMAIN heap[p].items)
          IN New(x, Array([k \in DOMAIN keys |-> Number(keys[k])]))

\* x := v, and x := y with an accessor.
AssignVariable ==
  /\ Statement
  /\ \E x \in Visible :
       \/ \E v \in Operands : Ends(heap, [scope EXCEPT ![x] = v], Rest, NoLast)
       \/ \E y \in Visible, acc \in Accessors :
            IF Accessed(scope[y], acc) = {} THEN Fails
            ELSE \E v \in Accessed(scope[y], acc) : Ends(heap, [scope EXCEPT ![x] = v], Rest, NoLast)

\* VisitAssignStatement with accessors: those before the last are followed to
\* an object, in which the last chooses an item; an index may be a new one.
AssignThrough ==
  /\ Statement
  /\ \E y \in Visible, v \in Operands, acc \in Accessors, chain \in BoundedSeq(Accessors, 1) :
       LET objects == IF chain = <<>> THEN {scope[y]} ELSE Accessed(scope[y], Head(chain))
           found == {o.place : o \in {b \in objects : IsObject(b)}}
       IN IF \E p \in found : KeysAt(heap[p], acc) # {}
          THEN \E p \in found : \E k \in KeysAt(heap[p], acc) :
                 LET object == AssignItem(heap[p], k, v)
                 IN /\ Cardinality(DOMAIN object.items) <= MaxLength
                    /\ Ends([heap EXCEPT ![p] = object], scope, Rest, NoLast)
          ELSE Fails

\* y.Del(index)
Delete ==
  /\ Statement
  /\ \E p \in Objects, k \in Indices :
       /\ heap[p].kind = "array"
       /\ IF k \in DOMAIN heap[p].items
          THEN Ends([heap EXCEPT ![p] = Deleted(@, k)], scope, Rest, NoLast)
          ELSE Fails

-----------------------------------------------------------------------------
(* print.  DoPrintSelf hands recGuard down and takes from it what it has   *)
(* put into it.                                                            *)

\* The label of an item: its name, or its number or index.  Of two names for one
\* item the greater would be printed.
Label(object, k) ==
  LET named == {n \in DOMAIN Fields : Fields[n] \in DOMAIN object.names /\ object.names[Fields[n]] = k}
  IN IF named = {} THEN <<"number", k>> ELSE <<"name", Greatest(named)>>

\* (Mutant: the guard keeps the object.)
Kept(guard, p) == guard
Unguarded(guard, p) == guard \ {p}

PrintSelf(value) ==
  LET print[call \in [place : {0} \cup DOMAIN heap, number : Int] \X SUBSET Places] ==
        LET v == call[1]
            guard == call[2]
        IN IF ~ IsObject(v) THEN [text |-> <<<<"value", v.number>>>>, guard |-> guard]
           ELSE IF v.place \in guard THEN [text |-> <<<<"...", 0>>>>, guard |-> guard]
           ELSE LET object == heap[v.place]
                    keys == InOrder(DOMAIN object.items)
                    done[m \in 0 .. Len(keys)] ==
                      IF m = 0 THEN [text |-> <<<<"open", 0>>>>, guard |-> guard \cup {v.place}]
                      ELSE LET before == done[m - 1]
                               item == print[<<object.items[keys[m]], before.guard>>]
                           IN [text |-> before.text \o <<Label(object, keys[m])>> \o item.text, guard |-> item.guard]
                    all == done[Len(keys)]
                IN [text |-> Append(all.text, <<"close", 0>>), guard |-> Unguarded(all.guard, v.place)]
  IN print[<<value, {}>>].text

PrintStatement ==
  /\ Statement
  /\ \E x \in Visible :
       Ends(heap, scope, Rest, [kind |-> "print", value |-> scope[x], text |-> PrintSelf(scope[x])])

-----------------------------------------------------------------------------
(* for over a range, over the items of an object, or as many times as it   *)
(* has items.  due is what its variable has to be, turn by turn, and seen  *)
(* what it was.                                                            *)

NotInCycle == cycle.kind \in {"none", "over"}

\* The value of the variable in a turn: cur is a number of the range, or counts
\* the items, of which there is a copy.  (Mutant: those the object has now.)
ItemsNow(c) == ItemsOf(heap[c.over.place])
ItemsSeen(c) == c.items
TurnValue(c) == IF c.kind = "items" THEN ItemsSeen(c)[c.cur] ELSE Number(c.cur)

IsLastTurn(c) ==
  CASE c.kind = "range" -> c.cur = c.end
    [] c.kind = "items" -> c.cur >= Len(ItemsSeen(c))
    [] c.kind = "times" -> c.cur = c.end
NextTurnOf(c) == [c EXCEPT !.cur = IF c.decrement THEN @ - 1 ELSE @ + 1]

\* The variable is in a scope of its own.
WithCycleName(v) == [x \in Names \cup {CycleName} |-> IF x = CycleName THEN v ELSE scope[x]]
WithoutCycleName == [x \in Names |-> scope[x]]

Turn(c) ==
  LET v == TurnValue(c)
  IN Ends(heap, IF c.kind = "times" THEN scope ELSE WithCycleName(v), [c EXCEPT !.seen = Append(@, v)], NoLast)

Over(c, exited) ==
  Ends(heap, WithoutCycleName,
       [kind |-> "over", seen |-> c.seen, due |-> c.due, exited |-> exited], NoLast)

\* VisitForStatement, up to its loops: a range has a turn for both of its ends.
Cycle(kind, over, items, cur, end, due) ==
  [kind |-> kind, over |-> over, items |-> items, cur |-> cur, end |-> end,
   decrement |-> cur > end, seen |-> <<>>, due |-> due]
ForRange ==
  /\ Statement /\ NotInCycle
  /\ \E from, to \in Indices :
       LET due == IF from <= to THEN [k \in 1 .. to - from + 1 |-> Number(from + k - 1)]
                  ELSE [k \in 1 .. from - to + 1 |-> Number(from - k + 1)]
       IN Turn(Cycle("range", Number(0), <<>>, from, to, due))
ForItems ==
  /\ Statement /\ NotInCycle
  /\ \E p \in Objects :
       LET items == ItemsOf(heap[p])
           times == [k \in DOMAIN items |-> Number(k)]
       IN \E c \in {Cycle("items", Object(p), items, 1, Len(items), items),
                    Cycle("times", Number(0), <<>>, 1, Len(items), times)} :
            IF items = <<>> THEN Over(c, FALSE) ELSE Turn([c EXCEPT !.decrement = FALSE])

\* The body has ended, or is left by exit.
NextTurn ==
  /\ status = "running" /\ ~ NotInCycle /\ UNCHANGED steps
  /\ IF IsLastTurn(cycle) THEN Over(cycle, FALSE) ELSE Turn(NextTurnOf(cycle))
Exit ==
  /\ Statement /\ ~ NotInCycle
  /\ Over(cycle, TRUE)

-----------------------------------------------------------------------------

Init ==
  /\ scope = [x \in Names |-> Number(0)]
  /\ heap = <<>> /\ cycle = NoCycle /\ last = NoLast
  /\ status = "running" /\ steps = 0

Next ==
  \/ AssignArray \/ AssignTuple \/ AssignSum \/ AssignIndices \/ AssignVariable
  \/ AssignThrough \/ Delete \/ PrintStatement
  \/ ForRange \/ ForItems \/ NextTurn \/ Exit

Spec == Init /\ [][Next]_vars

-----------------------------------------------------------------------------
(* Properties.                                                             *)

\* Nothing leads to an object that is gone; the items of a tuple are numbered
\* from 1, and no two names are for one of them (TupleValue, DoPrintSelf).
TypeOK ==
  /\ DOMAIN scope \in {Names, Names \cup {CycleName}} /\ DOMAIN heap \subseteq Places
  /\ \A x \in DOMAIN scope : scope[x].place \in {0} \cup DOMAIN heap
  /\ \A p \in DOMAIN heap :
       /\ PlacesIn(heap[p]) \subseteq DOMAIN heap
       /\ heap[p].kind = "tuple" => DOMAIN heap[p].items = 1 .. Cardinality(DOMAIN heap[p].items)
       /\ \A f, g \in DOMAIN heap[p].names :
            /\ heap[p].names[f] \in DOMAIN heap[p].items
            /\ f # g => heap[p].names[f] # heap[p].names[g]
  /\ status \in {"running", "failed"} /\ steps \in 0 .. MaxSteps

\* A sum has all items of both sides, in order: those of an array as far apart
\* as they were, the right ones directly behind the left ones; a name of a
\* tuple is for the item it was for, on the left if both sides have it.
SumKeepsEverything ==
  last.kind = "sum" =>
    LET sum == heap[last.at]
        left == last.left
        right == last.right
        Distances(object) ==
          LET keys == InOrder(DOMAIN object.items) IN [k \in 1 .. Len(keys) - 1 |-> keys[k + 1] - keys[k]]
        one == IF {} \in {DOMAIN left.items, DOMAIN right.items} THEN <<>> ELSE <<1>>
    IN /\ ItemsOf(sum) = ItemsOf(left) \o ItemsOf(right)
       /\ Distances(sum) = Distances(left) \o one \o Distances(right)
       /\ DOMAIN sum.names = DOMAIN left.names \cup DOMAIN right.names
       /\ \A f \in DOMAIN sum.names :
            sum.items[sum.names[f]] =
              IF f \in DOMAIN left.names THEN left.items[left.names[f]] ELSE right.items[right.names[f]]

\* Print shows every item of every object as often as a path leads to it, and
\* stops exactly where a path comes back to an object it is inside of.
PrintShowsEveryPath ==
  LET shown[path \in [place : {0} \cup DOMAIN heap, number : Int] \X SUBSET Places] ==
        LET v == path[1]
            inside == path[2]
        IN IF ~ IsObject(v) THEN <<<<"value", v.number>>>>
           ELSE IF v.place \in inside THEN <<<<"...", 0>>>>
           ELSE LET object == heap[v.place]
                    keys == InOrder(DOMAIN object.items)
                    Shown(m) == <<Label(object, keys[m])>> \o shown[<<object.items[keys[m]], inside \cup {v.place}>>]
                IN <<<<"open", 0>>>> \o FlattenSeq([m \in DOMAIN keys |-> Shown(m)]) \o <<<<"close", 0>>>>
  IN last.kind = "print" => last.text = shown[<<last.value, {}>>]

\* A for has a turn for each item there was when it began, in order, and for
\* nothing else, whatever its body does to the object and to the variable.
CycleVisitsWhatWasThere ==
  cycle.kind # "none" =>
    /\ IsPrefix(cycle.seen, cycle.due)
    /\ cycle.kind = "over" /\ ~ cycle.exited => cycle.seen = cycle.due
=============================================================================
