---------------------------- MODULE HandleStores ----------------------------
(***************************************************************************)
(* The lists and arrays a program holds by handle: bridge/list.ts and      *)
(* bridge/array.ts.  A handle names a JavaScript array; the functions that *)
(* return an array return a new one under a new handle.  filter, map,      *)
(* reduce and find call the program back for each element, and in the      *)
(* callback the program may do all it can do elsewhere: change the array   *)
(* that is being walked, make lists and arrays, walk again.  filter and    *)
(* map stop at the length the array had, reduce and find go on while there *)
(* are elements.                                                           *)
(* Both tables are emptied, and their handles start again, after every     *)
(* request (bridge/index.ts).  The callbacks are external.                 *)
(***************************************************************************)
EXTENDS Naturals, Sequences, SequencesExt, Functions, Enumerations

CONSTANTS
    Top,          \* values are 0 .. Top
    MaxHandles,   \* handles one request creates, over both tables
    MaxLength     \* of an array the program builds

VARIABLES
    listStore, arrayStore,  \* handle -> the object it names
    objects,                \* the contents of each object, in the order of creation
    nextList, nextArray,    \* nextHandle of each module
    walks,                  \* the walks that stand in a callback, the innermost first
    found,                  \* history: what the step just taken has ended with
    callback                \* what the callback returns for an element

tables == <<listStore, arrayStore, objects, nextList, nextArray>>
vars == <<tables, walks, found, callback>>

Elements == 0 .. Top
Hole == Top + 1   \* what map leaves for an element that has gone
NoResult == [op |-> "none", was |-> <<>>, now |-> <<>>, cut |-> FALSE, is |-> <<>>]
NoHandles == [h \in {} |-> 0]

Init ==
    /\ listStore = NoHandles /\ arrayStore = NoHandles /\ objects = <<>>
    /\ nextList = 1 /\ nextArray = 1
    /\ walks = <<>> /\ found = NoResult
    /\ callback \in [Elements -> Elements]

\* What a callback of reduce makes of the value so far and an element.
Combine(acc, v) == (2 * acc + callback[v]) % (Top + 1)

-----------------------------------------------------------------------------
\* Reading and changing what a handle names.
ArrayOf(h) == objects[arrayStore[h]]
ListOf(h) == objects[listStore[h]]
Room == Len(objects) + Len(walks) < MaxHandles  \* a walk may still need a handle

\* A walk of the object o is cut once elements it had are changed or removed.
Change(o, contents) ==
    /\ Len(contents) > Len(objects[o]) => Len(contents) <= MaxLength
    /\ objects' = [objects EXCEPT ![o] = contents]
    /\ LET kept == IsPrefix(objects[o], contents)
       IN  walks' = [k \in DOMAIN walks |->
                        [walks[k] EXCEPT !.cut = @ \/ (walks[k].on = o /\ ~kept)]]
    /\ found' = NoResult
    /\ UNCHANGED <<listStore, arrayStore, nextList, nextArray, callback>>

\* An index outside of the array changes nothing.
Replaced(s, i, v) == IF i < Len(s) THEN [s EXCEPT ![i + 1] = v] ELSE s
Cut(s, i) == IF i < Len(s) THEN RemoveAt(s, i + 1) ELSE s

allocate ==
    /\ Room
    /\ listStore' = [h \in DOMAIN listStore \cup {nextList} |->
                        IF h = nextList THEN Len(objects) + 1 ELSE listStore[h]]
    /\ nextList' = nextList + 1 /\ objects' = Append(objects, <<>>)
    /\ found' = NoResult /\ UNCHANGED <<arrayStore, nextArray, walks, callback>>

push(h, v) == h \in DOMAIN listStore /\ Change(listStore[h], Append(ListOf(h), v))
clear(h) == h \in DOMAIN listStore /\ Change(listStore[h], <<>>)
set(h, i, v) == h \in DOMAIN listStore /\ Change(listStore[h], Replaced(ListOf(h), i, v))
remove(h, i) == h \in DOMAIN listStore /\ Change(listStore[h], Cut(ListOf(h), i))

array_push(h, v) == h \in DOMAIN arrayStore /\ Change(arrayStore[h], Append(ArrayOf(h), v))
array_set(h, i, v) ==
    h \in DOMAIN arrayStore /\ Change(arrayStore[h], Replaced(ArrayOf(h), i, v))
array_pop(h) ==
    /\ h \in DOMAIN arrayStore /\ ArrayOf(h) # <<>>
    /\ Change(arrayStore[h], Front(ArrayOf(h)))

-----------------------------------------------------------------------------
\* A new array gets an object of its own, also when it is a copy of another.
Named(object) ==
    /\ arrayStore' = [h \in DOMAIN arrayStore \cup {nextArray} |->
                         IF h = nextArray THEN object ELSE arrayStore[h]]
    /\ nextArray' = nextArray + 1
    /\ UNCHANGED <<listStore, nextList>>

storeArray(contents) ==
    Named(Len(objects) + 1) /\ objects' = Append(objects, contents)

Stores(contents) ==
    /\ Room /\ Len(contents) <= MaxLength /\ storeArray(contents)
    /\ found' = NoResult /\ UNCHANGED <<walks, callback>>

\* string_split and the JSON functions make arrays out of nothing.
FreshArray(contents) == Stores(contents)

\* The end of a slice is clamped to the end of the array.
array_slice(h, from, to) ==
    /\ h \in DOMAIN arrayStore
    /\ LET n == Len(ArrayOf(h))
       IN  Stores(SubSeq(ArrayOf(h), from + 1, IF to > n THEN n ELSE to))
array_concat(h, g) ==
    {h, g} \subseteq DOMAIN arrayStore /\ Stores(ArrayOf(h) \o ArrayOf(g))

\* Arrays with holes are not followed any further.
Full(h) == Hole \notin ToSet(ArrayOf(h))

\* seeded fault: the array is reversed in place and named a second time
ReverseInPlace(h) ==
    /\ h \in DOMAIN arrayStore /\ Room
    /\ objects' = [objects EXCEPT ![arrayStore[h]] = Reverse(@)]
    /\ Named(arrayStore[h])
    /\ found' = NoResult /\ UNCHANGED <<walks, callback>>
\* In which order the places of a sequence give it sorted.
Orders(s) ==
    {p \in [DOMAIN s -> DOMAIN s] :
        IsInjective(p) /\ \A i, j \in DOMAIN s : i < j => s[p[i]] <= s[p[j]]}

array_reverse(h) ==
    h \in DOMAIN arrayStore /\ Full(h) /\ Stores(Reverse(ArrayOf(h)))
array_sort(h) ==
    /\ h \in DOMAIN arrayStore /\ Full(h)
    /\ \E p \in Orders(ArrayOf(h)) : Stores([i \in DOMAIN p |-> ArrayOf(h)[p[i]]])

-----------------------------------------------------------------------------
(* A walk has read an element and stands in its callback until that returns; reduce
   carries its value in out, the others what they have gathered.  The fields was and
   cut are history: what the array held when the walk began, and see Change. *)
HasNext(w) ==
    /\ w.i < Len(objects[w.on])
    /\ w.op \in {"filter", "map"} => w.i < w.len
    /\ w.op = "find" => w.out = <<>>

\* For each element that has gone, map leaves a hole.
Result(w) ==
    IF w.op = "map" THEN w.out \o [k \in 1 .. w.len - Len(w.out) |-> Hole] ELSE w.out

Ends(w) ==
    /\ found' = [op |-> w.op, was |-> w.was, now |-> objects[w.on], cut |-> w.cut,
                 is |-> Result(w)]
    /\ IF w.op \in {"filter", "map"} THEN storeArray(Result(w)) ELSE UNCHANGED tables

\* The walk w, inside of the others, reads its next element or ends.
GoesOn(w, others) ==
    /\ IF HasNext(w)
       THEN /\ walks' = <<[w EXCEPT !.i = @ + 1, !.arg = objects[w.on][w.i + 1]]>> \o others
            /\ found' = NoResult /\ UNCHANGED tables
       ELSE walks' = others /\ Ends(w)
    /\ UNCHANGED callback

Begins(op, h, out) ==
    /\ h \in DOMAIN arrayStore /\ Room /\ Full(h)
    /\ GoesOn([op |-> op, on |-> arrayStore[h], i |-> 0, len |-> Len(ArrayOf(h)), arg |-> 0,
               out |-> out, was |-> ArrayOf(h), cut |-> FALSE], walks)

array_filter(h) == Begins("filter", h, <<>>)
array_map(h) == Begins("map", h, <<>>)
array_reduce(h) == Begins("reduce", h, <<0>>)
array_find(h) == Begins("find", h, <<>>)

\* What a walk has gathered when the callback has returned.
callWasmCallback(w) ==
    CASE w.op = "map" -> Append(w.out, callback[w.arg])
      [] w.op = "filter" -> IF callback[w.arg] = 0 THEN w.out ELSE Append(w.out, w.arg)
      [] w.op = "reduce" -> <<Combine(w.out[1], w.arg)>>
      [] w.op = "find" -> IF callback[w.arg] = 0 THEN w.out ELSE <<w.arg>>

Returns ==
    /\ walks # <<>>
    /\ GoesOn([Head(walks) EXCEPT !.out = callWasmCallback(Head(walks))], Tail(walks))

\* A callback that traps ends the walks and the request with it; either way both
\* tables are reset before the next request.
resetPerRequestBridgeState ==
    /\ listStore' = NoHandles /\ nextList' = 1
    /\ arrayStore' = NoHandles /\ nextArray' = 1
    /\ objects' = <<>>

RequestEnds ==
    /\ resetPerRequestBridgeState
    /\ walks' = <<>> /\ found' = NoResult /\ UNCHANGED callback

Handles == 1 .. MaxHandles
Contents == {<<>>} \cup {<<a>> : a \in Elements} \cup {<<a, b>> : a, b \in Elements}

Next ==
    \/ allocate \/ Returns \/ RequestEnds
    \/ \E s \in Contents : FreshArray(s)
    \/ \E h \in Handles :
          \/ clear(h) \/ array_pop(h) \/ array_reverse(h) \/ array_sort(h)
          \/ array_filter(h) \/ array_map(h) \/ array_reduce(h) \/ array_find(h)
          \/ \E v \in Elements : push(h, v) \/ array_push(h, v)
          \/ \E i \in 0 .. MaxLength : remove(h, i) \/ array_slice(h, 0, i) \/ array_slice(h, 1, i)
          \/ \E i \in 0 .. MaxLength : \E v \in Elements : set(h, i, v) \/ array_set(h, i, v)
          \/ \E g \in Handles : array_concat(h, g)

Spec == Init /\ [][Next]_vars

-----------------------------------------------------------------------------
TypeOK ==
    /\ \A o \in 1 .. Len(objects) : objects[o] \in Seq(Elements \cup {Hole})
    /\ DOMAIN listStore \subseteq Handles /\ DOMAIN arrayStore \subseteq Handles
    /\ \A k \in DOMAIN walks :
          LET w == walks[k]
          IN  /\ w.op \in {"filter", "map", "reduce", "find"} /\ w.on \in 1 .. Len(objects)
              /\ w.i \in Nat \ {0} /\ w.len \in Nat /\ w.arg \in Elements
              /\ w.out \in Seq(Elements) /\ w.was \in Seq(Elements)
    /\ callback \in [Elements -> Elements]

\* The handles of a request are exactly those it was given, and no two of them,
\* in either table, name the same array: a change through one handle is never
\* seen through another.
HandlesApart ==
    /\ DOMAIN listStore = 1 .. nextList - 1 /\ DOMAIN arrayStore = 1 .. nextArray - 1
    /\ IsInjective(listStore) /\ IsInjective(arrayStore)
    /\ {listStore[h] : h \in DOMAIN listStore} \cap
          {arrayStore[h] : h \in DOMAIN arrayStore} = {}

\* What filter, map, reduce and find should give for an array.
Reference(op, s) ==
    LET hits == Ascending({i \in DOMAIN s : callback[s[i]] # 0})
        value[i \in 0 .. Len(s)] == IF i = 0 THEN 0 ELSE Combine(value[i - 1], s[i])
    IN  CASE op = "filter" -> [k \in DOMAIN hits |-> s[hits[k]]]
          [] op = "map" -> [i \in DOMAIN s |-> callback[s[i]]]
          [] op = "reduce" -> <<value[Len(s)]>>
          [] op = "find" -> IF hits = <<>> THEN <<>> ELSE <<s[hits[1]]>>

\* Whatever the callbacks have stored, appended or walked meanwhile, a walk gives what
\* the function promises as long as the elements it had are kept: filter and map for
\* the array as it was, reduce and find for all that is there at the end.  Of one that
\* was cut filter still gathers no more than the array had, and map keeps its length.
WalksExact ==
    LET whole == found.op \in {"filter", "map"}
    IN  found.op # "none" =>
            /\ ~found.cut =>
                  found.is = Reference(found.op, IF whole THEN found.was ELSE found.now)
            /\ found.op = "filter" => Len(found.is) <= Len(found.was)
            /\ found.op = "map" => Len(found.is) = Len(found.was)

HandlesIntact == HandlesApart /\ WalksExact
=============================================================================
