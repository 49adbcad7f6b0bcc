------------------------------- MODULE Arrays -------------------------------
(* Variables of the Bash dialect: scalars, indexed and associative arrays,    *)
(* name references, and the built-ins that declare, export and unset them.    *)
(* A value is a function from keys to texts; a scalar has the key 0 only,     *)
(* which is the element every array gives where a scalar is asked for.        *)
(* A text is a sequence of atoms: numbers, names, references to an element,   *)
(* and words.  An associative key is a number too.  Function scopes,          *)
(* callbacks and set -a are in module Variables or left out.                  *)
EXTENDS Integers, Sequences, FiniteSets, SequencesExt

CONSTANTS
    VarNames,       \* names of variables
    Operations,     \* the commands a script may contain
    MaxCommands     \* bound: how many it does contain

ASSUME ArraysAssumption == MaxCommands \in Nat /\ IsFiniteSet(VarNames)

\* An array assignment of the grammar has one of four forms; "member" is a list for one element, a[i]=(1 2).
ASSUME OperationsAssumption ==
    \A op \in Operations :
        /\ op.does \in {"assign", "array", "declare", "held", "export", "unset"} /\ op.name \in VarNames
        /\ op.does \in {"array", "held"} => op.form \in {"compound", "element", "append", "member"}

VARIABLES table, last, commands
avars == <<table, last, commands>>

\* Texts.
Num(k) == <<"num", k>>
NameAtom(n) == <<"name", n>>
ElemAtom(n, k) == <<"elem", n, k>>
Word(w) == <<"word", w>>
IsAtom(text, kind) == Len(text) = 1 /\ text[1][1] = kind
IsValidTarget(text) == IsAtom(text, "name") \/ IsAtom(text, "elem")
ToUpper(text) == [i \in DOMAIN text |-> IF text[i][1] = "num" THEN text[i] ELSE Word("X")]

\* Entries of the table.
NoVariable == [is |-> "absent", kind |-> "scalar", val |-> <<>>, ro |-> FALSE, ex |-> FALSE,
            int |-> FALSE, up |-> FALSE, ref |-> FALSE]
EmptyValue == [k \in {} |-> <<>>]
With(val, k, text) == [j \in DOMAIN val \cup {k} |-> IF j = k THEN text ELSE val[j]]
Valued(e) == e.is = "set"
KindOf(e) == IF e.is \in {"declared", "set"} THEN e.kind ELSE "none"
IsArray(e) == KindOf(e) \in {"indexed", "assoc"}
ScalarOf(e) == IF Valued(e) /\ 0 \in DOMAIN e.val THEN e.val[0] ELSE <<>>
HasScalar(e) == Valued(e) /\ 0 \in DOMAIN e.val

\* The outcome of a command: the table it leaves, and how it ended.
Outcome(T, how) == [table |-> T, how |-> how]
Done(T) == Outcome(T, "done")            \* status 0
Refusal(T) == Outcome(T, "refused")      \* a diagnostic and status 1
Error(T) == Outcome(T, "error")          \* the command is abandoned
-----------------------------------------------------------------------------
\* Name references.

Pointing(T, n) == T[n].ref /\ HasScalar(T[n]) /\ IsValidTarget(ScalarOf(T[n]))
ReferenceTarget(T, n) == ScalarOf(T[n])[1]

Follow(T, n) ==
    LET from[here \in VarNames, seen \in SUBSET VarNames] ==
            IF ~Pointing(T, here) \/ ReferenceTarget(T, here) = NameAtom(here)
            THEN NameAtom(here)
            ELSE IF here \in seen THEN <<"cycle">>
            ELSE IF ReferenceTarget(T, here)[1] = "elem" THEN ReferenceTarget(T, here)
            ELSE from[ReferenceTarget(T, here)[2], seen \cup {here}]
    IN  IF T[n].ref THEN from[n, {}] ELSE NameAtom(n)

ClearReference(T, n) == [T EXCEPT ![n].ref = FALSE]

\* declared_name and attributed_name: who gets an attribute.  "" is nobody.
DeclaredName(T, n) ==
    LET f == Follow(T, n) IN
    IF ~T[n].ref THEN n
    ELSE CASE f[1] = "cycle" -> ""
           [] f[1] = "elem" -> f[2]
           [] f[2] # n /\ T[f[2]].ref -> ""
           [] OTHER -> f[2]
AttributedName(T, n) ==
    LET f == Follow(T, n) IN
    IF ~T[n].ref THEN n ELSE IF f[1] # "name" \/ T[f[2]].ref THEN "" ELSE f[2]
-----------------------------------------------------------------------------
\* Values.

\* evaluate_for_a_variable: numbers, and names that stand for one.
ValueOf(text) ==
    CASE text = <<>> -> [ok |-> TRUE, n |-> 0]
      [] IsAtom(text, "num") -> [ok |-> TRUE, n |-> text[1][2]]
      [] OTHER -> [ok |-> FALSE, n |-> 0]
Number(T, text) ==
    LET behind[m \in VarNames, depth \in Nat] ==
            IF depth > 0 /\ IsAtom(ScalarOf(T[m]), "name")
            THEN behind[ScalarOf(T[m])[1][2], depth - 1] ELSE ScalarOf(T[m])
    IN  ValueOf(IF IsAtom(text, "name") THEN behind[text[1][2], Cardinality(VarNames) - 1] ELSE text)

\* declared_value: what a write to n stores.
Printed(number) == [ok |-> number.ok, text |-> <<Num(number.n)>>]
Shape(T, n, text) ==
    IF T[n].int THEN Printed(Number(T, text))
    ELSE [ok |-> TRUE, text |-> IF T[n].up THEN ToUpper(text) ELSE text]
\* append_element.
\* Mutant: an integer is appended to as a text.
Concatenated(T, n, old, text) == [ok |-> TRUE, text |-> old \o text]
Plus(a, b) == [ok |-> a.ok /\ b.ok, n |-> a.n + b.n]
Combined(T, n, old, text) ==
    IF T[n].int THEN Printed(Plus(Number(T, old), Number(T, text))) ELSE [ok |-> TRUE, text |-> old \o text]

\* set_entry, when it is given a value, and when it is not.
Stored(e, text) ==
    CASE e.is = "set" -> [e EXCEPT !.val = With(@, 0, text)]
      [] e.is = "declared" -> [e EXCEPT !.is = "set", !.val = With(EmptyValue, 0, text)]
      [] OTHER -> [e EXCEPT !.is = "set", !.kind = "scalar", !.val = With(EmptyValue, 0, text)]
Marked(e, attrs) == [e EXCEPT !.ro = @ \/ attrs.ro, !.ex = @ \/ attrs.ex]
Plainly == [ro |-> FALSE, ex |-> FALSE]
SetEntry(T, n, text, attrs) ==
    IF T[n].ro THEN Error(T) ELSE Done([T EXCEPT ![n] = Marked(Stored(T[n], text), attrs)])
Removed(T, n) == IF T[n].ro THEN Error(T) ELSE Done([T EXCEPT ![n] = NoVariable])

\* reject_read_only, and store.
Refuses(T, n, guard) == guard = "enforce" /\ T[n].ro
Store(T, n, kind, val) == [T EXCEPT ![n] = [@ EXCEPT !.is = "set", !.kind = kind, !.val = val]]

\* convert: an array that becomes the other kind keeps its elements.
Sorted(keys) == SetToSortSeq(keys, LAMBDA x, y : x < y)
Converted(e, kind) ==
    IF e.kind = "assoc" /\ kind = "indexed"
    THEN [i \in 0..Cardinality(DOMAIN e.val) - 1 |-> e.val[Sorted(DOMAIN e.val)[i + 1]]]
    ELSE e.val

\* Subscripts.
NoSub == -10
EmptySub == -11
AllSub == -12
MissingSub == -13
Highest(e) == IF KindOf(e) = "indexed" /\ Valued(e) /\ DOMAIN e.val # {}
              THEN CHOOSE k \in DOMAIN e.val : \A j \in DOMAIN e.val : j <= k ELSE 0
Normalized(e, k) == IF k >= 0 THEN k ELSE IF Highest(e) + 1 + k < 0 THEN MissingSub ELSE Highest(e) + 1 + k
Selector(T, n, sub) ==
    IF sub = AllSub THEN [kind |-> "indexed", key |-> AllSub]
    ELSE IF KindOf(T[n]) = "assoc" THEN [kind |-> "assoc", key |-> sub]
    ELSE [kind |-> "indexed", key |-> Normalized(T[n], sub)]
Element(e, key) == IF key \in DOMAIN e.val THEN e.val[key] ELSE <<>>

\* What an array assignment starts from.
Current(e, kind) ==
    IF ~Valued(e) THEN [kind |-> kind, val |-> EmptyValue]
    ELSE IF e.kind # "scalar" THEN [kind |-> e.kind, val |-> e.val]
    ELSE [kind |-> kind, val |-> e.val]
ThenShaped(T, n, joined) == IF joined.ok THEN Shape(T, n, joined.text) ELSE joined
Written(T, n, old, text, append) ==
    ThenShaped(T, n, IF append THEN Combined(T, n, old, text) ELSE [ok |-> TRUE, text |-> text])

AssignElement(T, n, sel, text, append, guard) ==
    LET now == Current(T[n], sel.kind)
        new == Written(T, n, Element(now, sel.key), text, append)
    IN  IF Refuses(T, n, guard) \/ ~new.ok \/ sel.key \in {AllSub, MissingSub} THEN Error(T)
        ELSE Done(Store(T, n, now.kind, With(now.val, sel.key, new.text)))

AppendUnsubscripted(T, n, text, guard) ==
    IF IsArray(T[n]) THEN AssignElement(T, n, [kind |-> T[n].kind, key |-> 0], text, TRUE, guard)
    ELSE LET new == Written(T, n, ScalarOf(T[n]), text, TRUE)
         IN  IF Refuses(T, n, guard) \/ ~new.ok THEN Error(T)
             ELSE Done(Store(T, n, "scalar", With(EmptyValue, 0, new.text)))

\* set_bytes: a scalar assignment, through a reference.
SetDirectly(T, n, text, attrs) ==
    IF ~Shape(T, n, text).ok THEN Error(T) ELSE SetEntry(T, n, Shape(T, n, text).text, attrs)
SetBytes(T, n, text, attrs) ==
    LET f == Follow(T, n)
    IN  CASE ~T[n].ref -> SetDirectly(T, n, text, attrs)
          [] f[1] = "cycle" -> Done(T)
          [] f[1] = "elem" -> AssignElement(T, f[2], Selector(T, f[2], f[3]), text, FALSE, "enforce")
          [] f[2] = n /\ HasScalar(T[n]) /\ ScalarOf(T[n]) # <<>> /\ ~IsValidTarget(ScalarOf(T[n])) ->
               SetDirectly(ClearReference(T, n), n, text, attrs)
          [] OTHER -> SetDirectly(T, f[2], text, attrs)
-----------------------------------------------------------------------------
\* a=(...): elements [sub, text, append].
Elem(sub, text, append) == [sub |-> sub, text |-> text, append |-> append]
CompoundForm(T, n, elements) ==
    IF KindOf(T[n]) # "assoc" THEN "indexed"
    ELSE IF elements # <<>> /\ elements[1].sub # NoSub THEN "keyed" ELSE "pairs"

\* key_value_pairs, of words: a key that is no number is the key 9, and an empty one is dropped.
KeyText(text) == IF IsAtom(text, "num") THEN text[1][2] ELSE 9
Pairs(elements) ==
    LET at(i) == IF i \in DOMAIN elements THEN elements[i].text ELSE <<>>
        pairs == [i \in 1..(Len(elements) + 1) \div 2 |-> [key |-> at(2 * i - 1), value |-> at(2 * i)]]
        named == SelectSeq(pairs, LAMBDA p : p.key # <<>>)
    IN  [i \in DOMAIN named |-> Elem(KeyText(named[i].key), named[i].value, FALSE)]

\* One element after the other; what is built so far is published before a subscript is evaluated,
\* and stays when the element is in error.
Building(now, next) == [kind |-> now.kind, val |-> now.val, next |-> next, how |-> "going"]
AddElement(T, n, form, before, b, e) ==
    LET published == Store(T, n, b.kind, b.val)
        shown == e.sub # NoSub /\ form # "pairs"
        sel == IF form = "pairs" THEN [kind |-> "assoc", key |-> e.sub]
               ELSE IF e.sub = NoSub THEN [kind |-> "indexed", key |-> b.next]
               ELSE Selector(published, n, e.sub)
        new == Written(IF shown THEN published ELSE T, n,
                       Element([val |-> IF before = <<>> THEN b.val ELSE before[1]], sel.key), e.text, e.append)
    IN  IF b.how # "going" THEN b
        ELSE IF (form = "keyed" /\ e.sub = NoSub) \/ e.sub = EmptySub THEN [b EXCEPT !.how = "published"]
        ELSE IF ~new.ok \/ sel.key \in {AllSub, MissingSub}
        THEN [b EXCEPT !.how = IF shown THEN "published" ELSE "dropped"]
        ELSE [b EXCEPT !.val = With(@, sel.key, new.text), !.next = IF sel.kind = "indexed" THEN sel.key + 1 ELSE @]
Built(T, n, b) ==
    CASE b.how = "going" -> Done(Store(T, n, b.kind, b.val))
      [] b.how = "published" -> Error(Store(T, n, b.kind, b.val))
      [] OTHER -> Error(T)
Compound(T, n, elements, form, now, next, before) ==
    LET add(b, e) == AddElement(T, n, form, before, b, e)
    IN  Built(T, n, FoldLeft(add, Building(now, next), elements))

AssignCompound(T, n, elements, form, append, guard) ==
    LET kind == IF form = "indexed" THEN "indexed" ELSE "assoc"
        start == IF append THEN Current(T[n], kind) ELSE [kind |-> kind, val |-> EmptyValue]
        first == IF append /\ start.kind = "indexed" /\ DOMAIN start.val # {}
                 THEN 1 + CHOOSE k \in DOMAIN start.val : \A j \in DOMAIN start.val : j <= k ELSE 0
        before == IF kind = "assoc" /\ ~append THEN <<IF Valued(T[n]) THEN T[n].val ELSE EmptyValue>> ELSE <<>>
    IN  IF Refuses(T, n, guard) THEN Error(T)
        ELSE Compound(T, n, IF form = "pairs" THEN Pairs(elements) ELSE elements, form, start, first, before)

\* bash_arrays::assign: the array assignments of the grammar, through a reference.
\* Mutant: the reference is not followed.
NotFollowed(T, n) == NameAtom(n)
ElementBase(T, n) == Follow(T, n)
Freed(T, n) == IF Follow(T, n) = NameAtom(n) THEN ClearReference(T, n) ELSE T
ArrayAssign(T, n, op, guard) ==
    LET f == ElementBase(T, n)
        T1 == Freed(T, n)
        m == f[2]
    IN  IF f[1] = "elem" THEN Refusal(T)
        ELSE IF f[1] = "cycle" THEN Done(T)
        ELSE CASE op.form = "compound" ->
                    AssignCompound(T1, m, op.elements, CompoundForm(T1, m, op.elements), op.append, guard)
               [] op.form = "element" /\ op.sub = EmptySub -> Error(T1)
               [] op.form = "element" /\ op.sub # EmptySub ->
                    AssignElement(T1, m, Selector(T1, m, op.sub), op.text, op.append, guard)
               [] op.form = "append" -> AppendUnsubscripted(T1, m, op.text, guard)
               [] op.form = "member" -> Refusal(T1)
-----------------------------------------------------------------------------
\* declare.  A request names a kind or "none", and attributes to give or to take back.
Request == [kind |-> "none", destroy |-> "none", int |-> "keep", up |-> "keep", ref |-> "keep",
            ro |-> "keep", ex |-> "keep"]
Switched(old, request) == IF request = "keep" THEN old ELSE request = "on"

RefusedReference(T, req, n, op) ==
    IF op.form # "none" THEN op.form = "compound" \/ ~IsValidTarget(op.text) \/ req.int = "on"
    ELSE IsArray(T[n]) \/ (HasScalar(T[n]) /\ ~IsValidTarget(ScalarOf(T[n])))

EnsureEntry(T, n) ==
    IF T[n].is \in {"absent", "unset"} THEN [T EXCEPT ![n].is = "declared", ![n].kind = "scalar"] ELSE T
Convertible(e, kind) == KindOf(e) \in {kind, "scalar", "none"}
EnsureKind(T, n, kind, guard) ==
    IF Refuses(T, n, guard) THEN Error(T)
    ELSE IF KindOf(T[n]) = kind THEN Done(T)
    ELSE IF Valued(T[n]) THEN Done(Store(T, n, kind, Converted(T[n], kind)))
    ELSE Done([T EXCEPT ![n].is = "declared", ![n].kind = kind])

\* assign_text_target: the operand's own name, which no reference is followed from unless the write is plain.
AssignTextTarget(T, n, op) ==
    CASE op.form = "element" -> AssignElement(T, n, Selector(T, n, op.sub), op.text, op.append, "enforce")
      [] op.form = "append" -> AppendUnsubscripted(T, n, op.text, "enforce")
      [] op.form = "compound" -> SetBytes(T, n, <<Word("(")>>, Plainly)
      [] OTHER -> SetBytes(T, n, op.text, Plainly)

\* compound::assign: a list spelled inside a text.  A word among keyed elements ends it.
FirstBare(elements) ==
    CHOOSE i \in 1..Len(elements) + 1 :
        /\ i \in DOMAIN elements => elements[i].sub = NoSub
        /\ \A j \in 1..i - 1 : elements[j].sub # NoSub
CompoundText(T, n, elements) ==
    LET form == CompoundForm(T, n, elements)
        kept == IF form = "keyed" THEN SubSeq(elements, 1, FirstBare(elements) - 1) ELSE elements
    IN  AssignCompound(T, n, kept, form, FALSE, "declaration")

\* The end of apply: the attributes that come behind the value.
LastOf(e, req) ==
    [e EXCEPT !.ref = IF req.ref = "on" THEN TRUE ELSE @,
              !.ro = @ \/ req.ro = "on",
              !.ex = IF req.ex = "off" THEN FALSE ELSE @ \/ req.ex = "on"]
Attributed(T, base, req) == [T EXCEPT ![base] = LastOf(@, req)]
ValueGiven(T, n, base, op) ==
    CASE op.form = "none" -> Done(T)
      [] op.form = "compound" /\ IsArray(T[base]) -> CompoundText(T, base, op.elements)
      [] OTHER -> AssignTextTarget(T, n, op)
FirstOf(e, req) ==
    [e EXCEPT !.int = Switched(@, req.int), !.up = Switched(@, req.up),
              !.ref = IF req.ref = "keep" THEN @ ELSE FALSE]
Reattributed(T, base, req) == [T EXCEPT ![base] = FirstOf(@, req)]
ThenAttributed(outcome, base, req) ==
    IF outcome.how = "done" THEN Done(Attributed(outcome.table, base, req)) ELSE outcome
ThenValued(outcome, n, base, req, op) ==
    IF outcome.how = "done"
    THEN ThenAttributed(ValueGiven(Reattributed(outcome.table, base, req), n, base, op), base, req)
    ELSE outcome
Apply(T, n, req, op) ==
    LET base == IF req.ref # "keep" THEN n ELSE DeclaredName(T, n)
        T1 == EnsureEntry(T, base)
    IN  IF req.ref = "on" /\ RefusedReference(T, req, n, op) THEN Refusal(T)
        ELSE IF base = "" THEN Done(T)
        ELSE IF \/ req.destroy # "none" /\ req.destroy = KindOf(T[base])
                \/ req.ro = "off" /\ T[base].ro
        THEN Refusal(T)
        ELSE IF req.kind # "none" /\ ~Convertible(T1[base], req.kind) THEN Refusal(T1)
        ELSE ThenValued(IF req.kind = "none" THEN Done(T1) ELSE EnsureKind(T1, base, req.kind, "enforce"),
                        n, base, req, op)

\* declare a=(...) as the grammar reads it: the declaration first, then the value it held back, against the
\* read-only attribute the name had before.
\* Mutant: the attribute is not looked at.
NeverEnforced(T, n) == "declaration"
HeldGuard(T, n) == IF T[n].ro THEN "enforce" ELSE "declaration"
ApplyDeclaration(outcome, n, op, guard) ==
    IF outcome.how = "done" THEN ArrayAssign(outcome.table, n, op, guard) ELSE outcome
DeclareHeld(T, n, req, op) == ApplyDeclaration(Apply(T, n, req, [form |-> "none"]), n, op, HeldGuard(T, n))

\* export and readonly, with and without a value.
Known(e) == [e EXCEPT !.is = IF @ = "absent" THEN "unset" ELSE @]
GiveAttribute(T, target, attrs, remove) ==
    IF remove THEN Done([T EXCEPT ![target].ex = @ /\ ~attrs.ex])
    ELSE Done([T EXCEPT ![target] = Marked(Known(@), attrs)])
ThenGiven(outcome, n, attrs, remove) ==
    IF outcome.how # "done" \/ AttributedName(outcome.table, n) = "" THEN outcome
    ELSE GiveAttribute(outcome.table, AttributedName(outcome.table, n), attrs, remove)
Export(T, n, attrs, remove, op) ==
    IF op.form = "none" THEN ThenGiven(Done(T), n, attrs, remove)
    ELSE IF T[n].ro THEN Error(T)
    ELSE IF op.form = "append" THEN ThenGiven(AssignTextTarget(T, n, op), n, attrs, remove)
    ELSE IF remove THEN ThenGiven(SetBytes(T, n, op.text, Plainly), n, attrs, remove)
    ELSE SetBytes(T, n, op.text, attrs)

\* unset, through a reference unless it goes round in a circle.
UnsetElement(T, n, sel) ==
    IF T[n].ro THEN Error(T)
    ELSE IF ~Valued(T[n]) THEN Done(T)
    ELSE IF sel.key = MissingSub THEN Error(T)
    ELSE IF sel.key = AllSub THEN Done(Store(T, n, T[n].kind, IF T[n].kind = "scalar" THEN With(EmptyValue, 0, <<>>) ELSE EmptyValue))
    ELSE IF T[n].kind # sel.kind THEN Done(T)
    ELSE Done(Store(T, n, T[n].kind, [k \in DOMAIN T[n].val \ {sel.key} |-> T[n].val[k]]))
Unset(T, n, sub) ==
    LET f == Follow(T, n) IN
    IF sub # NoSub
    THEN LET base == IF f[1] = "name" THEN f[2] ELSE n IN UnsetElement(T, base, Selector(T, base, sub))
    ELSE IF f[1] = "elem" THEN UnsetElement(T, f[2], Selector(T, f[2], f[3]))
    ELSE LET base == IF f[1] = "name" THEN f[2] ELSE n IN IF T[base].ro THEN Refusal(T) ELSE Removed(T, base)
-----------------------------------------------------------------------------
Perform(T, op) ==
    CASE op.does = "assign" -> SetBytes(T, op.name, op.text, Plainly)
      [] op.does = "array" -> ArrayAssign(T, op.name, op, "enforce")
      [] op.does = "declare" -> Apply(T, op.name, op.req, op)
      [] op.does = "held" -> DeclareHeld(T, op.name, op.req, op)
      [] op.does = "export" -> Export(T, op.name, op.attrs, op.remove, op)
      [] op.does = "unset" -> Unset(T, op.name, op.sub)

AInit ==
    /\ table = [n \in VarNames |-> NoVariable]
    /\ last = [op |-> [does |-> "none"], how |-> "done"] /\ commands = 0
Command(op) ==
    /\ commands < MaxCommands /\ commands' = commands + 1
    /\ \E outcome \in {Perform(table, op)} :
          table' = outcome.table /\ last' = [op |-> op, how |-> outcome.how]
ANext == \E op \in Operations : Command(op)
ASpec == AInit /\ [][ANext]_avars
-----------------------------------------------------------------------------
\* Properties.

\* Reference: the elements of all variables, as one function of a variable and a key.
Cells(T) == {c \in VarNames \X (-20..20) : Valued(T[c[1]]) /\ c[2] \in DOMAIN T[c[1]].val}
Contents(T) == [c \in Cells(T) |-> T[c[1]].val[c[2]]]
\* The element a name and a subscript denote: a reference is replaced by what it says, and says an element itself
\* only when it is not given another.
Denoted(T, n, sub) ==
    LET f == Follow(T, n)
        at == IF sub = NoSub THEN 0 ELSE sub
    IN  IF f[1] = "elem" THEN (IF sub = NoSub THEN <<f[2], Selector(T, f[2], f[3]).key>> ELSE <<"", 0>>)
        ELSE IF f[1] = "name" THEN <<f[2], Selector(T, f[2], at).key>> ELSE <<"", 0>>
\* "None applies nothing at all, which is what a cycle does and what a chain ending on another empty reference does".
Nobody(T, op) == op.does = "declare" /\ DeclaredName(T, op.name) = ""
Expected(T, op, sub, append) ==
    LET c == Denoted(T, op.name, sub)
        old == IF c \in Cells(T) THEN Contents(T)[c] ELSE <<>>
        new == Written(T, c[1], old, op.text, append)
    IN  IF c[1] = "" \/ Nobody(T, op) THEN Contents(T)
        ELSE [d \in Cells(T) \cup {c} |-> IF d = c THEN new.text ELSE Contents(T)[d]]

\* What a single write says: a plain assignment, an element, an append, also by way of declare and export.
IsWrite(op) ==
    \/ op.does = "assign"
    \/ op.does \in {"array", "declare", "export"} /\ op.form \in {"element", "append", "text", "member"}
SubOf(op) == IF op.does # "assign" /\ op.form = "element" THEN op.sub ELSE NoSub
AppendOf(op) == op.does # "assign" /\ (op.form = "append" \/ (op.form = "element" /\ op.append))
\* declare r[1]=v, declare r+=v and export r+=v write into the reference r itself (builtins/declare.rs:337,
\* builtins/export.rs:131), against "every read, write, and unset of it has to be redirected" (nameref.rs).
IntoTheReference(T, op) ==
    op.does \in {"declare", "export"} /\ op.form \in {"element", "append"} /\ T[op.name].ref
\* The attributes a declaration gives before its value count for the value.
Declared(T, op) ==
    IF op.does # "declare" \/ DeclaredName(T, op.name) = "" THEN T ELSE Reattributed(T, DeclaredName(T, op.name), op.req)

\* A write that is reported done changes the element its name denotes, through whatever chain of references, to the
\* text as the variable's attributes shape it, and no element of any variable besides; one that is refused or in
\* error changes none (variables/arrays.rs, variables/nameref.rs, evaluation/bash_arrays.rs).
WritesReachTheirElement ==
    [][(IsWrite(last'.op) /\ ~IntoTheReference(table, last'.op)
          /\ (last'.op.does = "declare" => last'.op.req.ref = "keep" /\ last'.op.req.kind = "none")) =>
       Contents(table') =
         IF last'.how = "done" THEN Expected(Declared(table, last'.op), last'.op, SubOf(last'.op), AppendOf(last'.op))
         ELSE Contents(table)]_avars

\* Two ways round the attribute: a list inside a text that is given to declare, which compound::assign stores unasked
\* (builtins/declare/compound.rs:69), and a held-back list for a reference, where the attribute of the reference is
\* looked at and not that of its target (evaluation/bash_arrays.rs:373) -- also for a name that the same declaration makes a reference.
Unguarded(T, op) ==
    \/ op.does = "declare" /\ op.form = "compound"
    \/ op.does = "held" /\ (T[op.name].ref \/ op.req.ref = "on")

\* No other sequence of commands changes an element of a read-only variable or takes the attribute from it: "keeps
\* readonly x=1; declare -a x=(2) an error" (variables/arrays.rs, ReadOnlyGuard).
ReadOnlyStays ==
    [][\A n \in VarNames :
         table[n].ro => (table'[n].ro /\ table'[n].val = table[n].val) \/ Unguarded(table, last'.op)]_avars
=============================================================================
