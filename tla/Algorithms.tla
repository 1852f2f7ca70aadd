----------------------------- MODULE Algorithms -----------------------------
(***************************************************************************)
(* The helpers of the framework that compute a result and keep no state:   *)
(* each is an operator here, and a behaviour makes one call of one of      *)
(* them.  What a result must be is stated by other means than the helper's *)
(* own.                                                                    *)
(***************************************************************************)
EXTENDS Integers, Sequences, FiniteSets, SequencesExt

CONSTANTS
  Letters,       \* of texts, without the blank
  MaxText,       \* bound: the length of a text
  maxCopyDepth

VARIABLES call   \* the call that was made: <<of, given, result>>

Blank == " "

Texts(length) == SeqOf(Letters \cup {Blank}, length)

Min2(a, b) == IF a < b THEN a ELSE b

(* The members of a set of numbers in order.                               *)
Ascending(S) == SetToSortSeq(S, LAMBDA a, b : a < b)

-----------------------------------------------------------------------------
(* framework/sensitive: the words are a tree of letters, whose nodes are   *)
(* the prefixes of the words.                                              *)

PrefixesOf(words) == UNION {Prefixes(w) : w \in words}

(* The end of the longest word from i on, blanks skipped; end when none.   *)
RECURSIVE Walk(_, _, _, _, _)
Walk(words, runes, i, node, end) ==
  IF i > Len(runes) THEN end
  ELSE IF runes[i] = Blank THEN Walk(words, runes, i + 1, node, end)
  ELSE LET next == Append(node, runes[i])
       IN  IF next \notin PrefixesOf(words) THEN end
           ELSE Walk(words, runes, i + 1, next,
                     IF next \in words THEN i + 1 ELSE end)

matchEnd(words, runes, start) == Walk(words, runes, start, <<>>, start)

(* Mutant: the rune behind a hit is skipped.                               *)
ResumeLate(end) == end + 1

Resume(end) == end

(* The hits, as intervals, from i on.                                      *)
RECURSIVE scan(_, _, _)
scan(words, runes, i) ==
  IF i > Len(runes) THEN <<>>
  ELSE LET end == matchEnd(words, runes, i)
       IN  IF end > i
           THEN <<[from |-> i, to |-> end]>> \o scan(words, runes, Resume(end))
           ELSE scan(words, runes, i + 1)

Replace(words, runes) ==
  LET hits == Range(scan(words, runes, 1))
  IN  [k \in DOMAIN runes |->
         IF runes[k] # Blank /\ \E h \in hits : h.from <= k /\ k < h.to
         THEN "*" ELSE runes[k]]

(* Where a word stands in a text, blanks aside.                            *)
Occurrences(words, runes) ==
  {<<i, j>> \in (DOMAIN runes) \X (DOMAIN runes) :
     SelectSeq(SubSeq(runes, i, j), LAMBDA r : r # Blank) \in words}

(* After Replace no word is left, however it is spaced and however words   *)
(* overlap; a text without a word is not touched; what is masked belonged  *)
(* to a word.                                                              *)
NoWordLeft(words, runes, masked) ==
  /\ Occurrences(words, masked) = {}
  /\ (scan(words, runes, 1) = <<>>) <=> (Occurrences(words, runes) = {})
  /\ \A k \in DOMAIN runes :
       masked[k] # runes[k] =>
         \E o \in Occurrences(words, runes) : o[1] <= k /\ k <= o[2]

-----------------------------------------------------------------------------
(* framework/aop/aspect.go: an aspect is Nil, or its Before accepts or     *)
(* fails; the target returns with or without an error.                     *)

AllAspects == {"nil", "accepts", "fails"}

Events(name, indices) == [k \in DOMAIN indices |-> <<name, indices[k]>>]

Invoke(aspects, target) ==
  LET live   == {i \in DOMAIN aspects : aspects[i] # "nil"}
      failed == {i \in live : aspects[i] = "fails"}
      ran    == {i \in live : \A j \in failed : i <= j}
      afters == Events("after", Reverse(Ascending(live)))
  IN  IF failed # {}
      THEN [trace |-> Events("before", Ascending(ran)) \o afters,
            err |-> TRUE]
      ELSE [trace |-> Events("before", Ascending(ran))
                        \o <<<<"target", 0>>>> \o afters,
            err |-> target = "error"]

(* Whoever began ends, the first last; the target runs at most once,       *)
(* between the two, and only when nobody objected.                         *)
Onion(aspects, outcome) ==
  LET At(event) == {k \in DOMAIN outcome.trace : outcome.trace[k] = event}
      Once(event) == Cardinality(At(event)) = 1
      Before(e, f) == \A k \in At(e), l \in At(f) : k < l
      objected == \E i \in DOMAIN aspects : aspects[i] = "fails"
  IN  /\ objected => At(<<"target", 0>>) = {} /\ outcome.err
      /\ ~ objected => Once(<<"target", 0>>)
      /\ \A i \in DOMAIN aspects :
           /\ aspects[i] # "nil" => Once(<<"after", i>>)
           /\ Before(<<"before", i>>, <<"target", 0>>)
           /\ Before(<<"target", 0>>, <<"after", i>>)
           /\ \A j \in DOMAIN aspects :
                i < j => /\ Before(<<"before", i>>, <<"before", j>>)
                         /\ Before(<<"after", j>>, <<"after", i>>)

(* framework/aop/aop.go: decorate with a hook that only calls next.  A     *)
(* function returns data and, perhaps, an error in the last place; 0 is    *)
(* nil.  Its results are converted, and rebuilt from their conversion.     *)
Convert(signature, values) ==
  LET n == Len(values)
      taken == n > 0 /\ signature[n] = "error" /\ values[n] # 0
  IN  [results |-> IF taken THEN Front(values) ELSE values,
       err |-> IF taken THEN values[n] ELSE 0]

rebuildResults(signature, converted) ==
  LET DataBefore(i) == Cardinality({j \in 1 .. i : signature[j] = "data"})
  IN  [i \in DOMAIN signature |->
         IF signature[i] = "error" THEN converted.err
         ELSE IF DataBefore(i) <= Len(converted.results)
         THEN converted.results[DataBefore(i)] ELSE 0]

-----------------------------------------------------------------------------
(* component/util, tree.go and fill_tree.go, on a list of [id, parent].    *)

Ids(list) == [k \in DOMAIN list |-> list[k].id]

IsRoot(list, item, root) ==
  item.parent \notin Range(Ids(list)) \/ item.parent = root

RootsOf(list, root) ==
  Ids(SelectSeq(list, LAMBDA item : IsRoot(list, item, root)))

ChildrenOf(list, root, id) ==
  Ids(SelectSeq(list, LAMBDA item : ~ IsRoot(list, item, root)
                                      /\ item.parent = id))

BuildTree(list, root) ==
  [roots |-> RootsOf(list, root),
   children |-> [id \in Range(Ids(list)) |-> ChildrenOf(list, root, id)]]

RECURSIVE Preorder(_, _)
Preorder(nodes, children) ==
  IF nodes = <<>> THEN <<>>
  ELSE <<Head(nodes)>> \o Preorder(children[Head(nodes)], children)
         \o Preorder(Tail(nodes), children)

FlattenTree(tree) == Preorder(tree.roots, tree.children)

(* FillTree puts copies of the children into their parent: each child is   *)
(* filled before it is copied.                                             *)
RECURSIVE Filled(_, _, _)

(* Mutant: a child is copied before it is filled.                          *)
CopiedEmpty(list, root, id) == [id |-> id, children |-> <<>>]

FilledChild(list, root, id) == Filled(list, root, id)

Filled(list, root, id) ==
  LET below == ChildrenOf(list, root, id)
  IN  [id |-> id,
       children |-> [k \in DOMAIN below |-> FilledChild(list, root, below[k])]]

FillTree(list, root) ==
  LET roots == RootsOf(list, root)
  IN  [k \in DOMAIN roots |-> Filled(list, root, roots[k])]

RECURSIVE Entities(_)
Entities(values) ==
  IF values = <<>> THEN <<>>
  ELSE <<Head(values).id>> \o Entities(Head(values).children)
         \o Entities(Tail(values))

(* The ancestors of an item, as far as there are any.                      *)
RECURSIVE Above(_, _, _, _)
Above(list, root, id, steps) ==
  LET item == CHOOSE it \in Range(list) : it.id = id
  IN  IF steps = 0 \/ IsRoot(list, item, root) THEN {id}
      ELSE {id} \cup Above(list, root, item.parent, steps - 1)

(* The two builders hold the same items, each that is not under a cycle of *)
(* parents once and behind its parent.                                     *)
TreesAgree(list, root, flat, filled) ==
  LET Rooted(id) == \E a \in Above(list, root, id, Len(list)) :
                      a \in Range(RootsOf(list, root))
  IN  /\ flat = filled
      /\ IsInjective(flat)
      /\ Range(flat) = {id \in Range(Ids(list)) : Rooted(id)}
      /\ \A k, l \in DOMAIN flat :
           (\E it \in Range(list) : it.id = flat[k] /\ it.parent = flat[l]
                                      /\ ~ IsRoot(list, it, root)) => l < k

-----------------------------------------------------------------------------
(* Pages: Pager of util_extra.go, which caps the size, and PageOn of the   *)
(* database, which does not.                                               *)

Normalize(p) ==
  [p EXCEPT !.no = IF @ <= 0 THEN 1 ELSE @,
            !.size = IF @ <= 0 THEN 10
                     ELSE IF p.capped THEN Min2(@, 100) ELSE @]

Offset(p) == (Normalize(p).no - 1) * Normalize(p).size

Limit(p) == Normalize(p).size

(* Mutant: the last page must be full.                                     *)
TotalOfFull(p) == p.count \div Limit(p)

TotalPage(p) == (p.count + Limit(p) - 1) \div Limit(p)

LastPage(p) == Normalize(p).no >= TotalPage(p)

(* Each row is on one page, none of them past the last.                    *)
PagesPartition(p, total) ==
  \A row \in 0 .. p.count - 1 :
    LET On(n) == LET q == [p EXCEPT !.no = n]
                 IN  Offset(q) <= row /\ row < Offset(q) + Limit(q)
    IN  /\ Cardinality({n \in 1 .. total : On(n)}) = 1
        /\ \A n \in 1 .. total : LastPage([p EXCEPT !.no = n]) <=> n = total

-----------------------------------------------------------------------------
(* component/util/util.go.                                                 *)

(* Mutant: Sunday belongs to the week it begins.                           *)
WeekFromSunday(day) ==
  [monday |-> day + (1 - (day % 7)), sunday |-> day + (7 - (day % 7))]

(* Days are counted from a Sunday.                                         *)
WeekAround(day) ==
  LET toMonday == 1 - (day % 7)
      toSunday == 0 - (day % 7)
  IN  [monday |-> day + IF toMonday > 0 THEN -6 ELSE toMonday,
       sunday |-> day + IF toSunday < 0 THEN toSunday + 7 ELSE toSunday]

Escaped == {"'", "\\"}

AddSlashes(s) ==
  FlattenSeq([k \in DOMAIN s |->
                IF s[k] \in Escaped THEN <<"\\", s[k]>> ELSE <<s[k]>>])

(* skip: the rune before was the first of two slashes.                     *)
RECURSIVE Strip(_, _)
Strip(s, skip) ==
  IF s = <<>> THEN <<>>
  ELSE IF skip \/ Head(s) # "\\" THEN <<Head(s)>> \o Strip(Tail(s), FALSE)
  ELSE Strip(Tail(s), Len(s) > 1 /\ s[2] = "\\")

StripSlashes(s) == Strip(s, FALSE)

RECURSIVE SliceUniq(_)
SliceUniq(a) ==
  IF a = <<>> THEN <<>>
  ELSE LET before == SliceUniq(Front(a))
       IN  IF Last(a) \in Range(before) THEN before
           ELSE Append(before, Last(a))

(* A range is alternatives, each of them constraints; one that does not    *)
(* parse is an error unless an alternative before it holds.                *)
Holds(c, current) ==
  CASE c.op = ">" -> current > c.version
    [] c.op = "<" -> current < c.version
    [] c.op = "=" -> current = c.version

VersionCompare(alternatives, current) ==
  LET Parses(k) == \A c \in alternatives[k] : c.op # "?"
      Met(k) == Parses(k) /\ \A c \in alternatives[k] : Holds(c, current)
      decided == {k \in DOMAIN alternatives : ~ Parses(k) \/ Met(k)}
  IN  IF decided = {} THEN "no"
      ELSE IF Met(CHOOSE k \in decided : \A l \in decided : k <= l)
      THEN "yes" ELSE "error"

(* Yes is never said for the wrong version, and no only when every         *)
(* alternative was understood and excludes it.                             *)
InSomeRange(alternatives, current, answer) ==
  LET Excludes(c) == \/ c.op = ">" /\ current <= c.version
                     \/ c.op = "<" /\ current >= c.version
  IN  /\ answer = "yes" =>
           \E k \in DOMAIN alternatives :
             \A c \in alternatives[k] : c.op # "?" /\ ~ Excludes(c)
      /\ answer = "no" =>
           \A k \in DOMAIN alternatives :
             /\ \A c \in alternatives[k] : c.op # "?"
             /\ \E c \in alternatives[k] : Excludes(c)

-----------------------------------------------------------------------------
(* component/util/copy.go: fields are numbers of some width, texts, times  *)
(* (in half seconds, 0 is the zero time) and structs, which may be held by *)
(* a pointer.  A value is [kind, n, s, fields, isNil], of which a kind     *)
(* uses what it needs; the fields are in order, each [name, value].        *)

NumberKinds == {"int8", "int64"}

TimeKinds == {"Time", "util.Time"}

(* Go keeps the low bits of a number that is too wide.                     *)
Narrowed(kind, n) == IF kind = "int8" THEN ((n + 128) % 256) - 128 ELSE n

(* Texts of numbers and of times; "no" is neither.                         *)
Text(n) == ToString(n)

ReadNumber(text) ==
  LET read == {n \in -300 .. 300 : Text(n) = text}
  IN  IF read = {} THEN [ok |-> FALSE, n |-> 0]
      ELSE [ok |-> TRUE, n |-> CHOOSE n \in read : TRUE]

FormatTime(t) == IF t = 0 THEN "" ELSE Text(t \div 2)

Parse(text) == 2 * ReadNumber(text).n

Done(value) == [value |-> value, err |-> FALSE]

Mismatch(value) == [value |-> value, err |-> TRUE]

NumberOf(kind, n) == [kind |-> kind, n |-> n, s |-> "", fields |-> <<>>, isNil |-> FALSE]

StringOf(s) == [kind |-> "string", n |-> 0, s |-> s, fields |-> <<>>, isNil |-> FALSE]

RECURSIVE isBlankValue(_), Emptied(_)
isBlankValue(value) ==
  IF value.kind = "pointer" THEN value.isNil
  ELSE /\ value.n = 0 /\ value.s = ""
       /\ \A k \in DOMAIN value.fields : isBlankValue(value.fields[k].value)

Emptied(value) ==
  [value EXCEPT !.n = 0, !.s = "",
                !.fields = [k \in DOMAIN @ |-> [@[k] EXCEPT !.value = Emptied(@)]]]

assignTimeField(dst, src) ==
  IF src.kind = "string" THEN NumberOf(dst.kind, Parse(src.s))
  ELSE IF dst.kind = "string" THEN StringOf(FormatTime(src.n))
  ELSE NumberOf(dst.kind, src.n)

TimeAssigned(dst, src) ==
  \/ src.kind \in TimeKinds /\ dst.kind \in TimeKinds \cup {"string"}
  \/ src.kind = "string" /\ dst.kind \in TimeKinds

assignValue(dst, src) ==
  IF dst.kind \in NumberKinds /\ src.kind \in NumberKinds
  THEN Done(NumberOf(dst.kind, Narrowed(dst.kind, src.n)))
  ELSE IF dst.kind = "string" /\ src.kind \in NumberKinds
  THEN Done(StringOf(Text(src.n)))
  ELSE IF dst.kind \in NumberKinds /\ src.kind = "string"
            /\ ReadNumber(src.s).ok
  THEN Done(NumberOf(dst.kind, Narrowed(dst.kind, ReadNumber(src.s).n)))
  ELSE Mismatch(dst)

Fields(value) == {value.fields[k].name : k \in DOMAIN value.fields}

RECURSIVE copyStruct(_, _, _, _)

(* A nil destination is allocated before the source is looked at.          *)
assignField(dst, src, nonBlank, depth) ==
  LET held == IF dst.kind = "pointer" /\ dst.isNil
              THEN [Emptied(dst) EXCEPT !.isNil = FALSE] ELSE dst
  IN  IF dst.kind \in {"struct", "pointer"} /\ src.kind \in {"struct", "pointer"}
      THEN IF src.kind = "pointer" /\ src.isNil THEN Done(held)
           ELSE copyStruct(held, src, nonBlank, depth + 1)
      ELSE IF dst.kind = src.kind THEN Done(src)
      ELSE IF TimeAssigned(dst, src) THEN Done(assignTimeField(dst, src))
      ELSE assignValue(dst, src)

(* Mutant: the protection of blank values does not look at the field.      *)
CopiesAll(field, nonBlank) == TRUE

Copies(field, nonBlank) == ~ (nonBlank /\ isBlankValue(field.value))

copyStruct(dst, src, nonBlank, depth) ==
  LET CopyField(r, field) ==
        IF r.err \/ ~ Copies(field, nonBlank) \/ field.name \notin Fields(dst)
        THEN r
        ELSE LET k == CHOOSE i \in DOMAIN dst.fields : dst.fields[i].name = field.name
                 a == assignField(r.value.fields[k].value, field.value, nonBlank, depth)
             IN  [value |-> [r.value EXCEPT !.fields[k].value = a.value],
                  err |-> a.err]
  IN  IF depth > maxCopyDepth THEN Done(dst)
      ELSE FoldLeft(CopyField, Done(dst), src.fields)

copyProperties(dst, src, nonBlank) == copyStruct(dst, src, nonBlank, 0)

(* What stands at a path of field names; the members of Paths are paths to *)
(* fields that are no structs, below no nil pointer.                       *)
RECURSIVE At(_, _), Paths(_)
At(value, path) ==
  IF path = <<>> THEN value
  ELSE At((CHOOSE f \in Range(value.fields) : f.name = Head(path)).value, Tail(path))

Paths(value) ==
  IF value.kind \notin {"struct", "pointer"} THEN {<<>>}
  ELSE IF value.kind = "pointer" /\ value.isNil THEN {}
  ELSE UNION {{<<f.name>> \o rest : rest \in Paths(f.value)} : f \in Range(value.fields)}

(* A copy goes back: what was copied without an error copies back to what  *)
(* it came from, but for the halves of seconds that a text does not hold.  *)
(* Of a number too wide for its field the low bits are left, and nothing   *)
(* but the number itself tells so: no error says that it has changed.      *)
(* With the protection no blank field, at whatever depth, overwrites one,  *)
(* and what has no name in the source is never touched.                    *)
CopySound(dst, src, nonBlank, r) ==
  LET back == copyProperties(src, r.value, FALSE)
      Shared == Paths(dst) \cap Paths(src)
      Number(value, path) ==
        IF At(value, path).kind = "string"
        THEN ReadNumber(At(value, path).s).n ELSE At(value, path).n
      Fits(path) ==
        At(dst, path).kind = "int8" => Number(src, path) \in -128 .. 127
      LowBits(path) ==
        /\ Number(back.value, path) \in -128 .. 127
        /\ (Number(src, path) - Number(back.value, path)) % 256 = 0
      Seconds(path) == At(src, path).kind \in TimeKinds => At(src, path).n % 2 = 0
      Timely(path) == At(dst, path).kind \in TimeKinds
                        => At(src, path).kind \in TimeKinds
  IN  /\ ~ r.err /\ ~ nonBlank =>
           \A path \in Shared :
             Seconds(path) /\ Timely(path) /\ Len(path) <= maxCopyDepth + 1
               => IF Fits(path)
                  THEN At(back.value, path) = At(src, path)
                  ELSE LowBits(path)
      /\ nonBlank =>
           \A path \in Shared : isBlankValue(At(src, path))
                                  => At(r.value, path) = At(dst, path)
      /\ \A path \in Paths(dst) :
           path \notin Paths(src) \/ Len(path) > maxCopyDepth + 1
             => At(r.value, path) = At(dst, path)

-----------------------------------------------------------------------------
(* component/util/deepcopy.go: a value is a leaf, a nil (of a pointer, a   *)
(* map or an interface), or has parts, and lives in the old or the new     *)
(* memory.  A part has a name: of a field, which may be unexported, a key, *)
(* an index, or "*" for what a pointer leads to.                           *)

RECURSIVE DeepCopy(_)

(* Mutant: what is below is shared.                                        *)
CopiedShallow(part) == part

CopiedPart(part) == [part EXCEPT !.value = DeepCopy(@)]

(* A field that is not exported stays zero, and a key of a map whose value *)
(* is a nil interface is not set.                                          *)
IsCopied(value, part) ==
  /\ part.exported
  /\ ~ (value.kind = "map" /\ part.value = [kind |-> "nil", v |-> "interface"])

DeepCopy(value) ==
  IF value = [kind |-> "nil", v |-> "map"]
  THEN [kind |-> "map", at |-> "new", parts |-> <<>>]
  ELSE IF value.kind \in {"leaf", "nil"} THEN value
  ELSE LET Kept == SelectSeq(value.parts, LAMBDA part : IsCopied(value, part))
       IN  [value EXCEPT !.at = "new",
                         !.parts = [k \in DOMAIN Kept |-> CopiedPart(Kept[k])]]

(* A path of names leads through structs, and pointers that are not nil.   *)
RECURSIVE fieldPath(_, _)
fieldPath(value, path) ==
  IF path = <<>> THEN [found |-> TRUE, value |-> value]
  ELSE IF value.kind = "pointer" THEN fieldPath(value.parts[1].value, path)
  ELSE IF value.kind # "struct" THEN [found |-> FALSE, value |-> value]
  ELSE LET named == {part \in Range(value.parts) : part.name = Head(path)}
       IN  IF named = {} THEN [found |-> FALSE, value |-> value]
           ELSE fieldPath((CHOOSE part \in named : TRUE).value, Tail(path))

RECURSIVE Within(_), Reads(_)
Within(value) ==
  IF value.kind \in {"leaf", "nil"} THEN {}
  ELSE {value.at} \cup UNION {Within(part.value) : part \in Range(value.parts)}

(* The ways to a leaf or a nil through what is copied.                     *)
Reads(value) ==
  IF value.kind \in {"leaf", "nil"}
  THEN IF value.v = "map" THEN {} ELSE {<<value.v>>}
  ELSE UNION {{<<part.name>> \o rest : rest \in Reads(part.value)} :
              part \in {q \in Range(value.parts) : IsCopied(value, q)}}

(* The copy shares no memory with the original; what can be read in one    *)
(* can be read in the other, by the same names.                            *)
CopyIsApart(value, copy) ==
  LET Named(way) == SelectSeq(Front(way), LAMBDA name : name # "*")
      Leads(v, way) == LET end == fieldPath(v, Named(way))
                       IN  end.found /\ end.value.kind = "leaf"
  IN  /\ "old" \notin Within(copy)
      /\ Reads(copy) = Reads(value)
      /\ \A way \in Reads(value) : Leads(value, way) <=> Leads(copy, way)

-----------------------------------------------------------------------------
(* framework/database/condition.go: parameters are a set of keys, each     *)
(* with its field, its operator and a value: nil, a text out of "", "a"    *)
(* and "%a", a slice of a type toSlice knows, or anything else; the rank   *)
(* is the place of the key among the sorted ones.                          *)

Operators == {"=", "like", ">", "in", "not in", "is null"}

isIgnoredValue(value) ==
  \/ value.kind = "nil"
  \/ value.kind = "string" /\ value.items = <<"">>
  \/ value.kind = "slice" /\ value.items = <<>>

quoteField(field) == IF field = "illegal" THEN "1=0" ELSE field

Wild(text) == IF text = "a" THEN "%a%" ELSE text

(* Mutant: the place of an item that is a wildcard is forgotten.           *)
OneMark(items) == 1

Marks(items) == Len(items)

Condition(param, marks, values) ==
  [text |-> <<[field |-> quoteField(param.field), op |-> param.op, marks |-> marks]>>,
   values |-> values, err |-> FALSE]

NoCondition == [text |-> <<>>, values |-> <<>>, err |-> FALSE]

(* A condition with nothing in it, which is joined to the others too.      *)
Nothing == [field |-> "", op |-> "", marks |-> 0]

(* A value handed over whole: a text, or "whole" for any other.            *)
Whole(value) == IF value.kind = "string" THEN value.items ELSE <<"whole">>

buildOneCondition(param) ==
  LET items == param.value.items
  IN  CASE param.op = "is null" -> Condition(param, 0, <<>>)
        [] param.op \in {"in", "not in"} ->
             IF param.value.kind = "slice"
             THEN Condition(param, Marks(items), items)
             ELSE [NoCondition EXCEPT !.text = <<Nothing>>]
        [] param.op = "like" /\ param.value.kind = "string" ->
             Condition(param, 1, <<Wild(items[1])>>)
        [] param.op \in {"=", ">"} -> Condition(param, 1, Whole(param.value))
        [] OTHER -> [NoCondition EXCEPT !.err = TRUE]

BuildCondition(params) ==
  LET keys == SetToSortSeq({q \in params : ~ isIgnoredValue(q.value)},
                           LAMBDA a, b : a.rank < b.rank)
      AndNext(c, param) ==
        LET one == IF param.op \in Operators THEN buildOneCondition(param)
                   ELSE [NoCondition EXCEPT !.err = TRUE]
        IN  [text |-> c.text \o one.text, values |-> c.values \o one.values,
             err |-> c.err \/ one.err]
      all == FoldLeft(AndNext, NoCondition, keys)
  IN  IF all.err THEN [NoCondition EXCEPT !.err = TRUE] ELSE all

(* The question marks and the values are as many, and each value is at a   *)
(* mark of its own key.  What is asked of a field is lost in two cases     *)
(* only, both without an error: its value is one to be ignored, also for   *)
(* "is null"; or it is a value for a list that is no slice toSlice knows,  *)
(* and nothing stands between the ANDs.  SQL refuses that, unless nothing  *)
(* else was asked: then there is no condition left, and every row matches. *)
ConditionFits(params, c) ==
  LET MarksBefore(k) == FoldLeft(LAMBDA n, t : n + t.marks, 0, SubSeq(c.text, 1, k))
      asked == {q \in params : ~ isIgnoredValue(q.value)}
  IN  ~ c.err =>
        /\ MarksBefore(Len(c.text)) = Len(c.values)
        /\ Len(c.text) = Cardinality(asked)
        /\ \A k \in DOMAIN c.text : \E q \in asked :
             /\ Cardinality({o \in asked : o.rank < q.rank}) = k - 1
             /\ LET given == SubSeq(c.values, MarksBefore(k - 1) + 1, MarksBefore(k))
                    listed == q.op \in {"in", "not in"}
                IN  IF listed /\ q.value.kind # "slice"
                    THEN c.text[k] = Nothing /\ given = <<>>
                    ELSE /\ quoteField(q.field) = c.text[k].field
                         /\ q.op = c.text[k].op
                         /\ given = CASE q.op = "is null" -> <<>>
                                      [] q.op = "like" -> <<Wild(q.value.items[1])>>
                                      [] listed -> q.value.items
                                      [] OTHER -> Whole(q.value)

-----------------------------------------------------------------------------
(* framework/database: the configuration of a connection, by its unified   *)
(* form and by the older one of PostgreSQL, which is turned into the       *)
(* unified one.  Blanks around names are cut: a name is given or not.      *)

Default(n, default) == IF n = 0 THEN default ELSE n

Pool(c) == [c EXCEPT !.idle = Default(@, 10), !.open = Default(@, 20),
                     !.lifetime = Default(@, 3600), !.timeout = Default(@, 10)]

normalizeDriver(driver) ==
  CASE driver \in {"pgsql", "postgresql", "postgres"} -> "postgres"
    [] driver \in {"sqlite3", "sqlite"} -> "sqlite"
    [] driver \in {"mariadb", "mysql"} -> "mysql"
    [] OTHER -> driver

Blanks(c) ==
  [c EXCEPT !.ssl = IF c.driver = "postgres" /\ @ = "" THEN "disable" ELSE @,
            !.charset = IF c.driver = "mysql" /\ @ = "" THEN "utf8mb4" ELSE @]

Normalized(c) == Blanks(Pool([c EXCEPT !.driver = normalizeDriver(@)]))

PoolValid(c) == c.idle >= 0 /\ c.open >= 1 /\ c.idle <= c.open

validateDatabaseConfig(c) ==
  /\ c.driver # "" /\ PoolValid(c) /\ c.lifetime >= 0 /\ c.timeout > 0
  /\ IF c.driver = "sqlite" THEN c.dsn
     ELSE c.dsn \/ /\ ~ (c.driver = "postgres" /\ c.quote)
                   /\ c.named /\ c.port \in 1 .. 65535

SslModes == {"disable", "require"}

newPostgreSQLDialector(c) == c.dsn \/ c.ssl \in SslModes

(* What a connection is opened with, when it is.                           *)
Opens(c) ==
  LET n == Normalized(c)
  IN  [ok |-> validateDatabaseConfig(n)
                /\ (n.driver = "postgres" => newPostgreSQLDialector(n)),
       with |-> n]

(* Mutant: the older form has no default of its own for the SSL mode.      *)
SslAsGiven(c) == Pool(c)

(* The older form is normalised and checked by code of its own.            *)
normalizeConfig(c) == [Pool(c) EXCEPT !.ssl = IF @ = "" THEN "disable" ELSE @]

validateConfig(c) ==
  /\ c.named /\ c.port \in 1 .. 65535
  /\ c.idle >= 0 /\ c.open >= 1 /\ c.idle <= c.open
  /\ c.lifetime >= 0 /\ c.timeout > 0 /\ c.ssl \in SslModes

Initialize(c) ==
  LET n == normalizeConfig(c)
      o == Opens([n EXCEPT !.driver = "postgres"])
  IN  [ok |-> validateConfig(n) /\ o.ok, with |-> o.with]

(* The old entrance opens what the new one does, with the same values; and *)
(* a configuration that was normalised and accepted is not changed by      *)
(* being handed over again.                                                *)
EntrancesAgree(c) ==
  LET opens == Opens(c)
      old == Initialize(c)
  IN  /\ opens.ok => Opens(opens.with) = opens
      /\ normalizeDriver(c.driver) = "postgres" /\ ~ c.dsn =>
           /\ opens.ok <=> old.ok
           /\ opens.ok => opens.with = old.with

-----------------------------------------------------------------------------
(* A PostgreSQL DSN, from the password on, character by character: what    *)
(* stands before and behind it has no blank.                               *)

quotePGValue(value) ==
  IF value = <<>> \/ {" ", "#"} \cap Range(value) # {}
  THEN <<"'">> \o value \o <<"'">> ELSE value

Tail2 == <<" ", "d", "=", "d">>

buildPostgreSQLDSN(value) == quotePGValue(value) \o Tail2

FirstOf(text, char) ==
  LET at == {k \in DOMAIN text : text[k] = char}
  IN  IF at = {} THEN Len(text) + 1 ELSE CHOOSE k \in at : \A l \in at : k <= l

UpTo(text, char) == SubSeq(text, 1, FirstOf(text, char) - 1)

From(text, k) == SubSeq(text, k, Len(text))

RECURSIVE TrimLeft(_)
TrimLeft(text) ==
  IF text # <<>> /\ Head(text) = " " THEN TrimLeft(Tail(text)) ELSE text

(* What pgx takes for the value.                                           *)
ParsedValue(text) ==
  LET given == TrimLeft(text)
  IN  IF given[1] = "'" THEN UpTo(From(given, 2), "'") ELSE UpTo(given, " ")

suspiciousPasswordTail(text) ==
  LET rest == TrimLeft(From(text, FirstOf(text, " ")))
  IN  text[1] # "'" /\ rest # <<>> /\ "=" \notin Range(UpTo(rest, " "))

(* A built DSN gives the password back, and one written by hand is parsed  *)
(* to less than was meant only when that is noticed, unless the part cut   *)
(* off looks like a setting or is nothing but blanks.                      *)
DsnKeepsPassword(value, built, byHand) ==
  /\ ParsedValue(built) = value
  /\ ~ suspiciousPasswordTail(built)
  /\ value # <<>> /\ ParsedValue(byHand) # value
       => \/ suspiciousPasswordTail(byHand)
          \/ "=" \in Range(From(value, FirstOf(value, " ")))
          \/ TrimLeft(From(value, FirstOf(value, " "))) = <<>>

-----------------------------------------------------------------------------
(* framework/upload: a part of a form says how large it is; 0 is no limit. *)

Refused == [ok |-> FALSE, size |-> 0]

Checked(file, config) ==
  /\ ~ (config.MaxSize > 0 /\ file.declared > config.MaxSize)
  /\ config.allowed # {} => file.ext \in config.allowed

(* Mutant: the reader stops at the limit, not one behind it.               *)
ReadToLimit(file, config) == Min2(file.size, config.MaxSize)

ReadLimited(file, config) == Min2(file.size, config.MaxSize + 1)

ParseFile(file, config, limited) ==
  LET size == IF limited THEN ReadLimited(file, config) ELSE file.size
  IN  IF Checked(file, config) /\ ~ (config.MaxSize > 0 /\ size > config.MaxSize)
      THEN [ok |-> TRUE, size |-> size] ELSE Refused

(* What is accepted is within the limit and is the whole file; without a   *)
(* limit that is true of ParseRequest only.                                *)
UploadWhole(file, config, limited, r) ==
  /\ r.ok /\ config.MaxSize > 0 => r.size <= config.MaxSize
  /\ r.ok /\ (config.MaxSize > 0 \/ ~ limited) => r.size = file.size

-----------------------------------------------------------------------------
(* framework/grayscale: ratios and the hashes of users are parts of a      *)
(* thousand.                                                               *)

Hit(ratio, hash) == ratio > 0 /\ (ratio >= 1000 \/ hash < ratio)

Route(ratio, hashes) ==
  LET new == Len(SelectSeq(hashes, LAMBDA h : Hit(ratio, h)))
  IN  [Total |-> Len(hashes), NewHits |-> new, OldHits |-> Len(hashes) - new]

(* Whoever has the new version keeps it when the ratio is raised, and the  *)
(* ends of the scale are nobody and everybody.                             *)
RolloutMonotone(ratio, hashes, stats) ==
  /\ \A more \in ratio .. ratio + 1000 : stats.NewHits <= Route(more, hashes).NewHits
  /\ ratio <= 0 => stats.NewHits = 0
  /\ ratio >= 1000 => stats.OldHits = 0

-----------------------------------------------------------------------------
(* component/auth/token: a key is long enough or too short; a token names  *)
(* the key and the issuer that made it and the moment it ends.             *)

SetSecretKeys(keys, secrets) ==
  IF secrets = <<>> \/ "short" \in Range(secrets) THEN keys ELSE secrets

GenTokenFull(keys, issuer, now, lifetime) ==
  IF keys = <<>> THEN [key |-> "none", issuer |-> issuer, until |-> now]
  ELSE [key |-> keys[1], issuer |-> issuer, until |-> now + lifetime]

(* Mutant: only the key that signs verifies.                               *)
VerifiesWithFirst(keys, token) == keys # <<>> /\ token.key = keys[1]

verifyWithKeys(keys, token) == \E k \in DOMAIN keys : keys[k] = token.key

VerifyToken(keys, token, issuer, now) ==
  verifyWithKeys(keys, token) /\ now < token.until /\ token.issuer = issuer

(* Keys are changed while tokens are out: a token holds until its end      *)
(* while its key is in the list that was last accepted, no longer, and a   *)
(* list that is refused changes nothing.                                   *)
TokenOutlivesRotation(first, second, later, valid) ==
  LET Accepted(list) == list # <<>> /\ "short" \notin Range(list)
      signer == IF Accepted(first) THEN first[1] ELSE "none"
  IN  valid <=> /\ Accepted(first) /\ later < 2
                /\ Accepted(second) => signer \in Range(second)

-----------------------------------------------------------------------------
(* framework/excel: a sheet is a sequence of rows of cells, a blank cell is *)
(* a text without letters.  T is a struct of a text and a number.          *)

T == <<[name |-> "Id", tag |-> "No"], [name |-> "Count", tag |-> ""]>>

Zero == <<"", "0">>

Numeric == {"0", "7"}

normalize(tpl) ==
  [HeaderRow |-> IF tpl.HeaderRow < 1 THEN 1 ELSE tpl.HeaderRow,
   DataStartRow |-> IF tpl.DataStartRow < 1 THEN 2 ELSE tpl.DataStartRow]

HasHeader(sheet, tpl) == tpl.HeaderRow <= Len(sheet) /\ sheet[tpl.HeaderRow] # <<>>

(* The field of each column; an unknown column is taken for the first.     *)
buildHeaderMap(header) ==
  LET By(of, column) == {f \in DOMAIN T : T[f][of] = column /\ column # ""}
      First(fields) == CHOOSE f \in fields : TRUE
  IN  [c \in DOMAIN header |->
         IF By("tag", header[c]) # {} THEN First(By("tag", header[c]))
         ELSE IF By("name", header[c]) # {} THEN First(By("name", header[c])) ELSE 1]

setFieldValue(item, field, value) ==
  IF T[field].name = "Count" /\ value \notin Numeric THEN item
  ELSE [item EXCEPT ![field] = value]

IsEmpty(cell) == cell \in {"", Blank}

isBlankRow(row) == \A c \in DOMAIN row : IsEmpty(row[c])

ReadRow(fields, row) ==
  FoldLeftDomain(LAMBDA item, c :
      IF c > Len(row) \/ IsEmpty(row[c]) THEN item
      ELSE setFieldValue(item, fields[c], row[c]), Zero, fields)

(* The numbers of the rows of data in order.                               *)
DataRows(sheet, tpl) == [k \in 1 .. Len(sheet) - tpl.DataStartRow + 1 |->
                           tpl.DataStartRow + k - 1]

importFromFile(sheet, tpl) ==
  LET fields == buildHeaderMap(sheet[tpl.HeaderRow])
  IN  [k \in DOMAIN DataRows(sheet, tpl) |->
         ReadRow(fields, sheet[DataRows(sheet, tpl)[k]])]

(* The rows that are looked at: blank ones are passed over.                *)
DataGiven(sheet, tpl) ==
  SelectSeq(DataRows(sheet, tpl), LAMBDA r : ~ isBlankRow(sheet[r]))

(* Valid are the items the caller accepts; without a check all are.        *)
ImportValidated(sheet, tpl, Valid) ==
  LET fields == buildHeaderMap(sheet[tpl.HeaderRow])
      Accepted(r) == ReadRow(fields, sheet[r]) \in Valid
      kept == SelectSeq(DataGiven(sheet, tpl), Accepted)
  IN  [rows |-> [k \in DOMAIN kept |-> ReadRow(fields, sheet[kept[k]])],
       errors |-> SelectSeq(DataGiven(sheet, tpl), LAMBDA r : ~ Accepted(r))]

(* The rows handed to the handler, which objects to what is not Valid.     *)
ImportStream(sheet, tpl, Valid) ==
  LET fields == buildHeaderMap(sheet[tpl.HeaderRow])
      numbers == DataGiven(sheet, tpl)
      calls == [k \in DOMAIN numbers |->
                  [rowNum |-> numbers[k], row |-> ReadRow(fields, sheet[numbers[k]])]]
      bad == {k \in DOMAIN calls : calls[k].row \notin Valid}
  IN  SubSeq(calls, 1, IF bad = {} THEN Len(calls)
                       ELSE CHOOSE k \in bad : \A l \in bad : k <= l)

SetRow(sheet, row, cells) ==
  [r \in 1 .. (IF row > Len(sheet) THEN row ELSE Len(sheet)) |->
     IF r = row THEN cells ELSE IF r \in DOMAIN sheet THEN sheet[r] ELSE <<>>]

(* Mutant: the rows of a batch are counted from the first row of data.     *)
RestartedRow(tpl, start, j) == tpl.DataStartRow + j

RowAt(tpl, start, j) == tpl.DataStartRow + start + j

fieldValues(fields, item) == [c \in DOMAIN fields |-> item[fields[c]]]

Export(sheet, tpl, data) ==
  LET fields == buildHeaderMap(sheet[tpl.HeaderRow])
  IN  FoldLeftDomain(LAMBDA s, k :
        SetRow(s, tpl.DataStartRow + k - 1, fieldValues(fields, data[k])), sheet, data)

ExportBatch(sheet, tpl, data, size) ==
  LET fields == buildHeaderMap(sheet[tpl.HeaderRow])
      Start(k) == ((k - 1) \div size) * size
  IN  [sheet |-> FoldLeftDomain(LAMBDA s, k :
                   SetRow(s, RowAt(tpl, Start(k), k - 1 - Start(k)),
                          fieldValues(fields, data[k])), sheet, data),
       progress |-> [b \in 1 .. (Len(data) + size - 1) \div size |->
                       Min2(b * size, Len(data))]]

writeHeaders(tpl) ==
  SetRow(<<>>, tpl.HeaderRow,
         [f \in DOMAIN T |-> IF T[f].tag # "" THEN T[f].tag ELSE T[f].name])

SheetOf(s) == IF s.SheetName = "" THEN "Sheet1" ELSE s.SheetName

(* A sheet the file does not hold is made with a header of its own.        *)
ExportMultiSheet(book, sheets) ==
  FoldLeft(LAMBDA b, s :
      LET name == SheetOf(s)
          there == IF name \in DOMAIN b THEN b[name] ELSE writeHeaders(s.tpl)
      IN  [n \in DOMAIN b \cup {name} |->
             IF n = name THEN Export(there, s.tpl, s.data) ELSE b[n]],
    book, sheets)

(* Each row with something in it is reported once, in the order of the     *)
(* sheet and under its own number; the plain import reads the same with    *)
(* the blank rows between; the stream sees the rows up to the first that   *)
(* is refused.                                                             *)
RowsReported(sheet, tpl, Valid, plain, checked, stream) ==
  LET all == ImportStream(sheet, tpl, Range(plain))
      good == SelectSeq(all, LAMBDA seen : seen.row \in Valid)
  IN  /\ \A k \in DOMAIN all :
           /\ plain[all[k].rowNum - tpl.DataStartRow + 1] = all[k].row
           /\ k > 1 => all[k - 1].rowNum < all[k].rowNum
      /\ {all[k].rowNum : k \in DOMAIN all}
           = {r \in tpl.DataStartRow .. Len(sheet) : ~ isBlankRow(sheet[r])}
      /\ checked.rows = [k \in DOMAIN good |-> good[k].row]
      /\ Len(checked.rows) + Len(checked.errors) = Len(all)
      /\ stream = SubSeq(all, 1, Len(stream))
      /\ Len(stream) < Len(all) => stream[Len(stream)].rowNum = checked.errors[1]

(* What was exported is read back, whatever the batches were, when the     *)
(* header has every field and lies above the data.                         *)
RoundTrip(sheet, tpl, data, plain, batched) ==
  LET fields == buildHeaderMap(sheet[tpl.HeaderRow])
  IN  /\ batched.sheet = plain
      /\ \A k \in DOMAIN batched.progress :
           k > 1 => batched.progress[k - 1] < batched.progress[k]
      /\ data # <<>> => Last(batched.progress) = Len(data)
      /\ Range(fields) = DOMAIN T /\ tpl.HeaderRow < tpl.DataStartRow =>
           SubSeq(importFromFile(plain, tpl), 1, Len(data)) = data

(* Each sheet of the file holds the data last asked for under its name.    *)
SheetsApart(sheets, written) ==
  \A k \in DOMAIN sheets :
    (\A l \in DOMAIN sheets : l > k => SheetOf(sheets[l]) # SheetOf(sheets[k])) =>
      SubSeq(importFromFile(written[SheetOf(sheets[k])], sheets[k].tpl), 1,
             Len(sheets[k].data)) = sheets[k].data

-----------------------------------------------------------------------------
Init == call = <<"none">>

Called(of, given, result) ==
  call' = <<of, given, result>>

(* Words: their trees share prefixes, overlap, and hold one another.       *)
MaskText ==
  \E words \in SUBSET {<<"a", "b">>, <<"b", "a">>, <<"a", "b", "a">>, <<"b", "b">>},
     runes \in Texts(MaxText) :
    Called("Replace", <<words, runes>>, Replace(words, runes))

CallThroughAspects ==
  \E aspects \in SeqOf(AllAspects, 3), target \in {"returns", "error"} :
    Called("Invoke", aspects, Invoke(aspects, target))

CallDecorated ==
  \E signature \in SeqOf({"data", "error"}, 3) :
    /\ \A k \in 1 .. Len(signature) - 1 : signature[k] = "data"
    /\ \E values \in [DOMAIN signature -> 0 .. 2] :
         Called("decorate", values,
                rebuildResults(signature, Convert(signature, values)))

BuildTrees ==
  \E parents \in [1 .. 3 -> 0 .. 4], order \in {<<1, 2, 3>>, <<3, 1, 2>>},
     root \in {0, 1} :
    LET list == [k \in 1 .. 3 |-> [id |-> order[k], parent |-> parents[k]]]
    IN  Called("trees", <<list, root>>, <<FlattenTree(BuildTree(list, root)),
                                          Entities(FillTree(list, root))>>)

CountPages ==
  \E no \in {0, 1, 2}, size \in {-1, 0, 1, 3, 10, 100, 150},
     count \in (0 .. 4) \cup {10, 11, 100, 205}, capped \in BOOLEAN :
    LET p == [no |-> no, size |-> size, count |-> count, capped |-> capped]
    IN  Called("pages", p, TotalPage(p))

FindWeek == \E day \in 7 .. 20 : Called("WeekAround", day, WeekAround(day))

QuoteText ==
  \E s \in SeqOf({"'", "\\", "a"}, MaxText) :
    Called("AddSlashes", s, StripSlashes(AddSlashes(s)))

Deduplicate == \E a \in SeqOf(1 .. 3, 4) : Called("SliceUniq", a, SliceUniq(a))

CheckVersion ==
  \E alternatives \in SeqOf(SUBSET {[op |-> ">", version |-> 1],
                                    [op |-> "<", version |-> 3],
                                    [op |-> "?", version |-> 0]} \ {{}}, 2),
     current \in 1 .. 3 :
    Called("VersionCompare", <<alternatives, current>>,
           VersionCompare(alternatives, current))

(* A struct of a number or a text and of a struct, which may be held by a  *)
(* pointer or be missing, and which holds a leaf and a third struct.       *)
Texts2 == {StringOf(""), StringOf("12")}

Firsts == Texts2 \cup {StringOf("no"), NumberOf("int8", 7),
                       NumberOf("int64", 0), NumberOf("int64", 200)}

Moments == Texts2 \cup {NumberOf("Time", 0), NumberOf("Time", 5)}

StructOf(how, fields) ==
  [kind |-> IF how = "struct" THEN "struct" ELSE "pointer", n |-> 0, s |-> "",
   fields |-> fields, isNil |-> how = "nil"]

Field(name, value) == [name |-> name, value |-> value]

Held(how, leaf) ==
  StructOf(how, <<Field("T", leaf),
                  Field("Deep", StructOf("struct", <<Field("T", leaf)>>))>>)

Struct(first, below) ==
  StructOf("struct", <<Field("N", first), Field("In", below)>>)

CopyFields ==
  \E n, m \in Firsts, t, u \in Moments, nonBlank \in BOOLEAN,
     to, from \in {"struct", "pointer", "nil"} :
    LET dst == Struct(n, Held(to, t))
        src == Struct(m, Held(from, u))
    IN  Called("copyProperties", <<dst, src, nonBlank>>,
               copyProperties(dst, src, nonBlank))

Leaf(v) == [kind |-> "leaf", v |-> v]

Nil(of) == [kind |-> "nil", v |-> of]

Part(name, exported, value) ==
  [name |-> name, exported |-> exported, value |-> value]

Of(kind, parts) == [kind |-> kind, at |-> "old", parts |-> parts]

CopyDeep ==
  \E inner \in {Leaf("x"), Nil("pointer"), Nil("map"), Nil("interface")},
     kind \in {"struct", "map", "slice"}, shown, pointed \in BOOLEAN :
    LET below == Of(kind, <<Part("k", kind # "struct" \/ shown, inner)>>)
        field == IF pointed THEN Of("pointer", <<Part("*", TRUE, below)>>) ELSE below
        value == Of("struct", <<Part("A", TRUE, field), Part("B", TRUE, Leaf("y"))>>)
    IN  Called("DeepCopy", value, DeepCopy(value))

Value(kind, items) == [kind |-> kind, items |-> items]

BuildConditions ==
  \E values \in [1 .. 2 -> {Value("nil", <<>>), Value("string", <<"">>),
                            Value("string", <<"a">>), Value("string", <<"%a">>),
                            Value("slice", <<>>), Value("slice", <<"a", "b">>),
                            Value("other", <<>>)}],
     ops \in [1 .. 2 -> Operators \cup {"between"}],
     second, third \in {"f", "illegal"} :
    LET params == {[rank |-> k, field |-> IF k = 2 THEN second ELSE "f",
                    op |-> ops[k], value |-> values[k]] : k \in 1 .. 2}
                    \cup {[rank |-> 3, field |-> third, op |-> ">",
                          value |-> Value("string", <<"a">>)]}
    IN  Called("BuildCondition", params, BuildCondition(params))

Configure ==
  \E driver \in {"", "pgsql", "mysql", "sqlite3"}, ssl \in {"", "require", "odd"},
     idle \in {-1, 0, 5, 30}, open \in {0, 5, 30}, lifetime \in {-1, 0},
     port \in {0, 5432}, dsn, named, quote \in BOOLEAN :
    LET c == [driver |-> driver, ssl |-> ssl, idle |-> idle, open |-> open,
              lifetime |-> lifetime, timeout |-> 0, port |-> port,
              dsn |-> dsn, named |-> named, quote |-> quote, charset |-> ""]
    IN  Called("Initialize", c, <<Opens(c), Initialize(c)>>)

WriteDsn ==
  \E value \in SeqOf({"a", " ", "#", "="}, MaxText) :
    Called("DSN", value, <<buildPostgreSQLDSN(value), value \o Tail2>>)

Upload ==
  \E size \in 0 .. 4, declared \in 0 .. 4, ext \in {".jpg", ".exe"},
     max \in 0 .. 3, allowed \in {{}, {".jpg"}}, limited \in BOOLEAN :
    LET file == [size |-> size, declared |-> declared, ext |-> ext]
        config == [MaxSize |-> max, allowed |-> allowed]
    IN  Called("Parse", <<file, config, limited>>, ParseFile(file, config, limited))

RouteUsers ==
  \E ratio \in {-1, 0, 1, 500, 999, 1000, 1001},
     hashes \in SeqOf({0, 1, 499, 500, 999}, 3) :
    Called("Route", <<ratio, hashes>>, Route(ratio, hashes))

RotateKeys ==
  \E first, second \in SeqOf({"old", "new", "short"}, 2), later \in 0 .. 2 :
    LET keys == SetSecretKeys(<<>>, first)
        token == GenTokenFull(keys, "us", 1, 2)
    IN  Called("VerifyToken", <<first, second, later>>,
               VerifyToken(SetSecretKeys(keys, second), token, "us", 1 + later))

Headers == {<<"No", "Count">>, <<"Id", "X", "Count">>, <<"Count", "No", "X">>, <<"No">>, <<>>}

Items == {<<"a", "0">>, <<"b", "7">>}

Templates == [HeaderRow : {0, 2}, DataStartRow : {0, 3}]

SheetTop(tpl, header) == [r \in 1 .. tpl.HeaderRow |-> IF r = tpl.HeaderRow THEN header ELSE <<>>]

ImportRows ==
  \E t \in Templates, header \in Headers, Valid \in SUBSET {<<"a", "0">>, <<"a", "7">>, Zero},
     rows \in SeqOf({<<>>, <<" ", "">>, <<"a">>, <<"a", "7">>, <<"", "x">>}, 2) :
    LET tpl == normalize(t)
        sheet == SheetTop(tpl, header) \o rows
    IN  /\ HasHeader(sheet, tpl) /\ (rows # <<>> => Last(rows) # <<>>)
        /\ Called("Import", <<sheet, tpl, Valid>>,
                  <<importFromFile(sheet, tpl), ImportValidated(sheet, tpl, Valid),
                    ImportStream(sheet, tpl, Valid)>>)

ExportRows ==
  \E t \in Templates, header \in Headers, data \in SeqOf(Items, 4), size \in 1 .. 3,
     old \in SeqOf({<<"old", "7">>}, 2) :
    LET tpl == normalize(t)
        sheet == SheetTop(tpl, header) \o old
    IN  /\ HasHeader(sheet, tpl)
        /\ Called("Export", <<sheet, tpl, data>>,
                  <<Export(sheet, tpl, data), ExportBatch(sheet, tpl, data, size)>>)

ExportSheets ==
  \E sheets \in SeqOf([SheetName : {"", "Sheet1", "New"}, tpl : {normalize(t) : t \in
                         [HeaderRow : {1}, DataStartRow : {0, 3}]},
                       data : SeqOf(Items, 2)], 2) :
    LET book == [s \in {"Sheet1"} |-> <<<<"Count", "Id">>>>]
    IN  Called("ExportMultiSheet", sheets, ExportMultiSheet(book, sheets))

Next ==
  /\ call[1] = "none"
  /\ \/ MaskText \/ CallThroughAspects \/ CallDecorated \/ BuildTrees
     \/ CountPages \/ FindWeek \/ QuoteText \/ Deduplicate \/ CheckVersion
     \/ CopyFields \/ CopyDeep \/ BuildConditions \/ Configure \/ WriteDsn
     \/ Upload \/ RouteUsers \/ RotateKeys \/ ImportRows
     \/ ExportRows \/ ExportSheets

Spec == Init /\ [][Next]_call

(* What each helper computes is what it is meant to.                       *)
ComputedRight ==
  LET g == call[2]
      r == call[3]
  IN  CASE call[1] = "none" -> TRUE
        [] call[1] = "Replace" -> NoWordLeft(g[1], g[2], r)
        [] call[1] = "Invoke" -> Onion(g, r)
        [] call[1] = "decorate" -> r = g
        [] call[1] = "trees" -> TreesAgree(g[1], g[2], r[1], r[2])
        [] call[1] = "pages" -> PagesPartition(g, r)
        [] call[1] = "WeekAround" ->
             /\ r.monday % 7 = 1 /\ r.sunday = r.monday + 6
             /\ r.monday <= g /\ g <= r.sunday
        [] call[1] = "AddSlashes" -> r = g
        [] call[1] = "SliceUniq" ->
             /\ IsInjective(r) /\ Range(r) = Range(g)
             /\ \A k \in DOMAIN r : \A l \in DOMAIN g :
                  g[l] = r[k] => Range(SubSeq(r, 1, k - 1)) \subseteq Range(SubSeq(g, 1, l - 1))
        [] call[1] = "VersionCompare" -> InSomeRange(g[1], g[2], r)
        [] call[1] = "copyProperties" -> CopySound(g[1], g[2], g[3], r)
        [] call[1] = "DeepCopy" -> CopyIsApart(g, r)
        [] call[1] = "BuildCondition" -> ConditionFits(g, r)
        [] call[1] = "Initialize" -> EntrancesAgree(g)
        [] call[1] = "DSN" -> DsnKeepsPassword(g, r[1], r[2])
        [] call[1] = "Parse" -> UploadWhole(g[1], g[2], g[3], r)
        [] call[1] = "Route" -> RolloutMonotone(g[1], g[2], r)
        [] call[1] = "Import" ->
             RowsReported(g[1], g[2], g[3], r[1], r[2], r[3])
        [] call[1] = "Export" -> RoundTrip(g[1], g[2], g[3], r[1], r[2])
        [] call[1] = "ExportMultiSheet" -> SheetsApart(g, r)
        [] call[1] = "VerifyToken" -> TokenOutlivesRotation(g[1], g[2], g[3], r)
=============================================================================
