------------------------------- MODULE Streets -------------------------------
(***************************************************************************)
(* scripts/build_roads.mjs: OSM ways become streets with a name and an id.  *)
(*                                                                         *)
(* A way is a record of its OSM id (0 if it has none), highway tag, name    *)
(* and points; a name is a stem and its last words, <<>> for none; a        *)
(* distance is the sum of the two differences of coordinates.               *)
(***************************************************************************)
EXTENDS Integers, Sequences, FiniteSets, FiniteSetsExt, SequencesExt, Functions

CONSTANTS MinLength,  \* MIN_LENGTH_M
          AnchorMax,  \* ANCHOR_MAX_M
          Default     \* the anchor of a street that has none

Keep == {"motorway", "trunk", "primary", "secondary", "tertiary",
         "residential", "unclassified", "living_street", "service"}

Abs(n) == IF n < 0 THEN -n ELSE n
Away(p, q) == Abs(p[1] - q[1]) + Abs(p[2] - q[2])
Length(line) == FoldLeft(LAMBDA t, i : t + Away(line[i - 1], line[i]), 0, [k \in 1..(Len(line) - 1) |-> k + 1])

\* "services" and "service" are one class; what is no road, and what is no line, goes.
Ways(raw) ==
  LET class(w) == IF w.highway = "services" THEN "service" ELSE w.highway
      kept == SelectSeq(raw, LAMBDA w : class(w) \in Keep /\ Len(w.line) >= 2)
  IN [i \in DOMAIN kept |-> [id |-> kept[i].id, cls |-> class(kept[i]), name |-> kept[i].name,
                             line |-> kept[i].line]]

-----------------------------------------------------------------------------
(* Ways into groups *)

\* find; halving the path on the way changes no root.
Find(parent, x) ==
  LET root[y \in DOMAIN parent] == IF parent[y] = y THEN y ELSE root[parent[y]] IN root[x]

Union(parent, a, b) == [parent EXCEPT ![Find(parent, a)] = Find(parent, b)]

\* The unnamed ways of one class that end in one point, in the order of the file.
EndsAt(ways, cls, point) ==
  SelectSeq([i \in DOMAIN ways |-> i],
            LAMBDA i : ways[i].name = <<>> /\ ways[i].cls = cls
                         /\ point \in {Head(ways[i].line), Last(ways[i].line)})

\* Each list of ways that meet is united with its first.
Parents(ways) ==
  LET points == UNION {{Head(ways[i].line), Last(ways[i].line)} : i \in DOMAIN ways}
      join(key, parent) ==
        LET met == EndsAt(ways, key[1], key[2])
        IN FoldLeft(LAMBDA P, i : Union(P, met[1], i), parent, met)
  IN FoldSet(join, [i \in DOMAIN ways |-> i], {w.cls : w \in Range(ways)} \X points)

GroupKeys(ways) ==
  LET parents == Parents(ways)
  IN [i \in DOMAIN ways |-> IF ways[i].name # <<>> THEN ways[i].name ELSE <<Find(parents, i)>>]

\* Groups in the order of their first ways.
Groups(ways) ==
  LET keys == GroupKeys(ways)
      first == SelectSeq([i \in DOMAIN ways |-> i], LAMBDA i : \A j \in 1..(i - 1) : keys[j] # keys[i])
  IN [k \in DOMAIN first |->
       LET at == SelectSeq([i \in DOMAIN ways |-> i], LAMBDA i : keys[i] = keys[first[k]])
       IN [n \in DOMAIN at |-> ways[at[n]]]]

-----------------------------------------------------------------------------
(* Groups into streets *)

Total(members) == FoldLeft(LAMBDA t, m : t + Length(m.line), 0, members)

\* dominantClass: the first of the classes with the greatest length.
DominantClass(members) ==
  LET of(c) == Total(SelectSeq(members, LAMBDA m : m.cls = c))
      most == {i \in DOMAIN members : \A m \in Range(members) : of(m.cls) <= of(members[i].cls)}
  IN members[Min(most)].cls

Points(members) == UNION {Range(m.line) : m \in Range(members)}

Centroid(members) ==
  LET line == FlattenSeq([i \in DOMAIN members |-> members[i].line])
      mean(k) == (FoldLeft(LAMBDA t, p : t + p[k], 0, line) * 100) \div Len(line)
  IN <<mean(1), mean(2)>>

\* Streets shorter than MIN_LENGTH_M go, after merging.
Merged(ways) ==
  LET long == SelectSeq(Groups(ways), LAMBDA g : Total(g) >= MinLength)
  IN [k \in DOMAIN long |->
       [name |-> long[k][1].name, cls |-> DominantClass(long[k]), members |-> long[k],
        ids |-> {m.id : m \in Range(long[k])} \ {0}, centroid |-> Centroid(long[k])]]

-----------------------------------------------------------------------------
(* Names *)

Suffix(cls) ==
  CASE cls \in {"motorway", "trunk", "primary", "secondary"} -> <<"Main", "Road">>
    [] cls = "tertiary" -> <<"Road">>
    [] cls = "service"  -> <<"Service", "Lane">>
    [] OTHER            -> <<"Cross">>

\* s[(v - 20) % 10] ?? s[v] ?? s[0], where the remainder of a negative number is one.
Ordinal(n) ==
  LET s == <<"th", "st", "nd", "rd">>
      v == n % 100
      at(k) == IF k \in 0..3 THEN s[k + 1] ELSE ""
      rest == IF v >= 20 THEN (v - 20) % 10 ELSE -1
  IN IF at(rest) # "" THEN at(rest) ELSE IF at(v) # "" THEN at(v) ELSE s[1]

\* The nearest named street within reach, the first of those.
Anchor(streets, s) ==
  LET away(i) == Min({Away(p, q) : p \in Points(streets[i].members), q \in Points(s.members)})
      near == {i \in DOMAIN streets : streets[i].name # <<>> /\ away(i) < AnchorMax}
      nearest == {i \in near : \A j \in near : away(i) <= away(j)}
  IN IF near = {} THEN <<Default, <<>>>> ELSE streets[Min(nearest)].name

\* An anchor's last words go where the suffix would repeat them.
Base(anchor, suffix) ==
  LET head == Last(suffix)
  IN IF anchor[2] \in {<<"Main", head>>, <<head>>} THEN <<anchor[1], <<>>>> ELSE anchor

Before(s, t) ==
  \/ s.centroid[1] < t.centroid[1]
  \/ s.centroid[1] = t.centroid[1] /\ s.centroid[2] < t.centroid[2]

\* Numbered within a family, from the west and the south.
Named(streets) ==
  LET anchor(i) == Anchor(streets, streets[i])
      family(i) == {j \in DOMAIN streets : /\ streets[j].name = <<>>
                                           /\ anchor(j) = anchor(i)
                                           /\ Suffix(streets[j].cls) = Suffix(streets[i].cls)}
      place(i) == 1 + Cardinality({j \in family(i) : \/ Before(streets[j], streets[i])
                                                     \/ j < i /\ ~Before(streets[i], streets[j])})
  IN [i \in DOMAIN streets |->
       IF streets[i].name # <<>> THEN streets[i] @@ [source |-> "osm_name", said |-> streets[i].name]
       ELSE streets[i] @@ [source |-> "derived",
              said |-> <<Base(anchor(i), Suffix(streets[i].cls)), place(i), Suffix(streets[i].cls)>>]]

-----------------------------------------------------------------------------
(* Ids *)

\* STR-001 and on, by the smallest OSM id; a street without any comes last.
Streets(raw) ==
  LET named == Named(Merged(Ways(raw)))
      least(s) == IF s.ids = {} THEN <<1, 0>> ELSE <<0, Min(s.ids)>>
      before(i, j) == LET a == least(named[i]) b == least(named[j])
                      IN a[1] < b[1] \/ (a[1] = b[1] /\ (a[2] < b[2] \/ (a[2] = b[2] /\ i < j)))
      order == SetToSortSeq(DOMAIN named, before)
  IN [k \in DOMAIN order |-> named[order[k]]]
=============================================================================
