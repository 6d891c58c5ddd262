------------------------------ MODULE Spatial ------------------------------
(***************************************************************************)
(* Geometry predicates (cendb-spatial/src/predicates.rs), bounding boxes   *)
(* (src/geometry.rs) and the R-tree, a flat list that filters by box and   *)
(* then by predicate (src/rtree.rs).                                       *)
(*                                                                         *)
(* A point is a pair of even integers, so that midpoints are integers too; *)
(* arithmetic is exact, EPS and the rounding of f64 are left out.  A       *)
(* geometry is [kind, pts, holes, parts]: a Multi* has its members in      *)
(* parts.  A predicate answers "yes", "no" or "overflow", a recursion that *)
(* calls itself with the same arguments until the stack is exhausted.      *)
(* Squared distances are fractions <<n, d>>.                               *)
(***************************************************************************)
EXTENDS Integers, Sequences, SequencesExt, FiniteSets, FiniteSetsExt

CONSTANTS Grid,         \* the points
          Geometries, Boxes,
          MaxEntries, MaxPoints,
          Radii         \* squared distances of queries

VARIABLES entries,      \* the R-tree: [box, has, geometry], the id being the position
          probe,        \* the geometry of the query
          pts           \* points given one by one: a ring, a hull, two segments
vars == <<entries, probe, pts>>

Infinite == <<1, 0>>
Less(a, b) == a[1] * b[2] < b[1] * a[2]
Least(S) == IF S = {} THEN Infinite ELSE CHOOSE x \in S : \A y \in S : ~Less(y, x)
Yes(b) == IF b THEN "yes" ELSE "no"
X(p) == p[1]
Y(p) == p[2]

-----------------------------------------------------------------------------
(* Segments and rings *)
Orientation(p, q, r) ==
    LET val == (Y(q) - Y(p)) * (X(r) - X(q)) - (X(q) - X(p)) * (Y(r) - Y(q))
    IN  IF val = 0 THEN 0 ELSE IF val > 0 THEN 1 ELSE 2
OnSegment(p, q, r) == \A c \in 1..2 : r[c] \in Min({p[c], q[c]})..Max({p[c], q[c]})
PointOnSegment(p, a, b) == Orientation(a, b, p) = 0 /\ OnSegment(a, b, p)

\* Consecutive pairs; the segment from the last to the first is not one of them
Segments(ps) == [i \in 1..(IF Len(ps) = 0 THEN 0 ELSE Len(ps) - 1) |-> <<ps[i], ps[i + 1]>>]
SegmentSet(ps) == ToSet(Segments(ps))
PointOnLinestring(p, ps) == \E s \in SegmentSet(ps) : PointOnSegment(p, s[1], s[2])

\* A mutant: the collinear cases are not looked at.
SegmentsIntersectProper(a, b, c, d) ==
    Orientation(a, b, c) # Orientation(a, b, d) /\ Orientation(c, d, a) # Orientation(c, d, b)
SegmentsIntersect(a, b, c, d) ==
    LET o1 == Orientation(a, b, c)  o2 == Orientation(a, b, d)
        o3 == Orientation(c, d, a)  o4 == Orientation(c, d, b)
    IN  \/ o1 # o2 /\ o3 # o4
        \/ o1 = 0 /\ OnSegment(a, b, c)
        \/ o2 = 0 /\ OnSegment(a, b, d)
        \/ o3 = 0 /\ OnSegment(c, d, a)
        \/ o4 = 0 /\ OnSegment(c, d, b)
LinesIntersect(a, b) == \E s \in SegmentSet(a), t \in SegmentSet(b) : SegmentsIntersect(s[1], s[2], t[1], t[2])

\* A ring is closed implicitly.  The ray goes to the right; an edge counts when
\* it leads from one side of the ray's line to the other.
RingEdges(ps) == LET n == Len(ps) IN
    [i \in 1..(IF ps[1] = ps[n] THEN n - 1 ELSE n) |-> <<ps[i], ps[(i % n) + 1]>>]
CrossesRay(p, a, b) ==
    /\ (Y(a) > Y(p)) # (Y(b) > Y(p))
    /\ LET d == Y(b) - Y(a)  at == (X(a) - X(p)) * d + (Y(p) - Y(a)) * (X(b) - X(a))
       IN  IF d > 0 THEN at > 0 ELSE at < 0
PointInRing(p, ps) ==
    CASE Len(ps) = 0 -> "outside"
      [] Len(ps) = 1 -> IF p = ps[1] THEN "boundary" ELSE "outside"
      [] Len(ps) = 2 -> IF PointOnSegment(p, ps[1], ps[2]) THEN "boundary" ELSE "outside"
      [] OTHER -> LET edges == RingEdges(ps) IN
           IF \E i \in DOMAIN edges : PointOnSegment(p, edges[i][1], edges[i][2]) THEN "boundary"
           ELSE IF Cardinality({i \in DOMAIN edges : CrossesRay(p, edges[i][1], edges[i][2])}) % 2 = 1
           THEN "inside" ELSE "outside"
PointInPolygon(p, g) ==
    LET ext == PointInRing(p, g.pts)
        at(i) == PointInRing(p, g.holes[i])
        hit == {i \in DOMAIN g.holes : at(i) # "outside"}
    IN  IF ext # "inside" \/ hit = {} THEN ext
        ELSE IF at(Min(hit)) = "boundary" THEN "boundary" ELSE "outside"

Rings(g) == <<g.pts>> \o g.holes
RingSegments(g) == UNION {SegmentSet(Rings(g)[i]) : i \in DOMAIN Rings(g)}
Vertices(g) == ToSet(g.pts)
MeetsRing(g, h) == \E s \in RingSegments(g), t \in RingSegments(h) : SegmentsIntersect(s[1], s[2], t[1], t[2])

-----------------------------------------------------------------------------
(* Bounding boxes: <<least x, least y, greatest x, greatest y>>, none for an
   empty geometry.  The holes do not count. *)
RECURSIVE AllPoints(_)
AllPoints(g) == Vertices(g) \cup UNION {AllPoints(g.parts[i]) : i \in DOMAIN g.parts}
BoundingBox(g) ==
    LET ps == AllPoints(g)  xs == {X(p) : p \in ps}  ys == {Y(p) : p \in ps}
    IN  IF ps = {} THEN <<>> ELSE <<Min(xs), Min(ys), Max(xs), Max(ys)>>
BoxesIntersect(a, b) == ~(a[3] < b[1] \/ a[1] > b[3] \/ a[4] < b[2] \/ a[2] > b[4])
ContainsBox(a, b) == a[1] <= b[1] /\ a[3] >= b[3] /\ a[2] <= b[2] /\ a[4] >= b[4]
Gap(lo, hi, lo2, hi2) == IF hi < lo2 THEN lo2 - hi ELSE IF hi2 < lo THEN lo - hi2 ELSE 0
BoxDistance(a, b) == LET dx == Gap(a[1], a[3], b[1], b[3])  dy == Gap(a[2], a[4], b[2], b[4]) IN dx * dx + dy * dy

-----------------------------------------------------------------------------
(* Predicates *)
Simple(g) == g.kind \in {"point", "line", "polygon"}
Components(g) == IF g.kind = "collection" THEN g.parts ELSE <<g>>
\* The first answer that is not "no", in the order of the loops
FirstNotNo(outs) == LET hit == {i \in DOMAIN outs : outs[i] # "no"} IN IF hit = {} THEN "no" ELSE outs[Min(hit)]

SimpleIntersects(a, b) ==
    LET p == a.pts[1]  q == b.pts[1] IN
    CASE a.kind = "point" /\ b.kind = "point" -> p = q
      [] a.kind = "point" /\ b.kind = "line" -> PointOnLinestring(p, b.pts)
      [] a.kind = "line" /\ b.kind = "point" -> PointOnLinestring(q, a.pts)
      [] a.kind = "point" /\ b.kind = "polygon" -> PointInPolygon(p, b) # "outside"
      [] a.kind = "polygon" /\ b.kind = "point" -> PointInPolygon(q, a) # "outside"
      [] a.kind = "line" /\ b.kind = "line" -> LinesIntersect(a.pts, b.pts)
      [] a.kind = "line" /\ b.kind = "polygon" -> (\E v \in Vertices(a) : PointInPolygon(v, b) # "outside") \/ MeetsRing(a, b)
      [] a.kind = "polygon" /\ b.kind = "line" -> (\E v \in Vertices(b) : PointInPolygon(v, a) # "outside") \/ MeetsRing(b, a)
      [] OTHER -> \/ \E v \in Vertices(a) : PointInPolygon(v, b) # "outside"
                  \/ \E v \in Vertices(b) : PointInPolygon(v, a) # "outside"
                  \/ MeetsRing(a, b)

RECURSIVE Intersects(_, _)
\* Only a collection has components: a Multi* is its own, and is asked again
IntersectsExact(a, b) ==
    IF Simple(a) /\ Simple(b) THEN Yes(SimpleIntersects(a, b))
    ELSE IF a.kind # "collection" /\ b.kind # "collection"
    THEN (IF /\ BoundingBox(a) # <<>> /\ BoundingBox(b) # <<>>
             /\ ~BoxesIntersect(BoundingBox(a), BoundingBox(b)) THEN "no" ELSE "overflow")
    ELSE LET as == Components(a)  bs == Components(b)  n == Len(bs)
         IN  FirstNotNo([k \in 1..(Len(as) * n) |-> Intersects(as[((k - 1) \div n) + 1], bs[((k - 1) % n) + 1])])
Intersects(a, b) ==
    IF /\ BoundingBox(a) # <<>> /\ BoundingBox(b) # <<>>
       /\ ~BoxesIntersect(BoundingBox(a), BoundingBox(b)) THEN "no"
    ELSE IntersectsExact(a, b)

\* Pairs without a rule are turned around twice, which is the same call.  A
\* Multi* of lines or points has no rule either.
RECURSIVE ContainsGeometry(_, _)
ContainsGeometry(a, b) ==
    LET strictly(vs) == \A v \in vs : PointInPolygon(v, a) = "inside" IN
    CASE a.kind = "point" /\ b.kind = "point" -> Yes(a.pts = b.pts)
      [] a.kind = "polygon" /\ b.kind = "point" -> Yes(strictly(Vertices(b)))
      [] a.kind = "polygon" /\ b.kind \in {"line", "polygon"} -> Yes(strictly(Vertices(b)) /\ ~MeetsRing(a, b))
      [] a.kind \in {"multipolygon", "collection"} -> FirstNotNo([i \in DOMAIN a.parts |-> ContainsGeometry(a.parts[i], b)])
      [] OTHER -> "overflow"

SameSet(ps, qs) == ps = qs \/ ps = Reverse(qs)
RECURSIVE Equals(_, _)
Equals(a, b) ==
    /\ a.kind = b.kind
    /\ IF Simple(a) THEN /\ SameSet(a.pts, b.pts) /\ Len(a.holes) = Len(b.holes)
                         /\ \A i \in DOMAIN a.holes : \E j \in DOMAIN b.holes : SameSet(a.holes[i], b.holes[j])
       ELSE Len(a.parts) = Len(b.parts) /\ \A i \in DOMAIN a.parts : \E j \in DOMAIN b.parts : Equals(a.parts[i], b.parts[j])

Mid(s) == <<(X(s[1]) + X(s[2])) \div 2, (Y(s[1]) + Y(s[2])) \div 2>>
Through(segs, poly, where) == \E s \in segs : PointInPolygon(Mid(s), poly) = where
InteriorsIntersect(a, b) ==
    LET reaches(g, poly) == (\E v \in Vertices(g) : PointInPolygon(v, poly) = "inside") \/ Through(RingSegments(g), poly, "inside") IN
    CASE a.kind = "polygon" /\ b.kind = "polygon" -> Yes(reaches(a, b) \/ reaches(b, a))
      [] a.kind = "polygon" /\ b.kind \in {"point", "line"} -> Yes(reaches(b, a))
      [] b.kind = "polygon" /\ a.kind \in {"point", "line"} -> Yes(reaches(a, b))
      [] OTHER -> IntersectsExact(a, b)

Touches(a, b) == IF Intersects(a, b) # "yes" THEN Intersects(a, b)
                 ELSE CASE InteriorsIntersect(a, b) = "yes" -> "no" [] InteriorsIntersect(a, b) = "no" -> "yes" [] OTHER -> "overflow"

LinesOverlap(ps, qs) == \E s \in SegmentSet(ps), t \in SegmentSet(qs) :
    /\ Orientation(s[1], s[2], t[1]) = 0 /\ Orientation(s[1], s[2], t[2]) = 0
    /\ OnSegment(s[1], s[2], t[1]) \/ OnSegment(s[1], s[2], t[2]) \/ OnSegment(t[1], t[2], s[1]) \/ OnSegment(t[1], t[2], s[2])
Crosses(a, b) ==
    LET cuts(l, poly) == /\ (\E v \in Vertices(l) : PointInPolygon(v, poly) = "inside") \/ Through(SegmentSet(l.pts), poly, "inside")
                         /\ (\E v \in Vertices(l) : PointInPolygon(v, poly) = "outside") \/ Through(SegmentSet(l.pts), poly, "outside")
        on(p, l) == PointOnLinestring(p.pts[1], l.pts) /\ p.pts[1] \notin Vertices(l)
    IN  IF InteriorsIntersect(a, b) # "yes" THEN InteriorsIntersect(a, b)
        ELSE CASE a.kind = "line" /\ b.kind = "line" ->
                    Yes(LinesIntersect(a.pts, b.pts) /\ ~SameSet(a.pts, b.pts) /\ ~LinesOverlap(a.pts, b.pts))
               [] a.kind = "line" /\ b.kind = "polygon" -> Yes(cuts(a, b))
               [] a.kind = "polygon" /\ b.kind = "line" -> Yes(cuts(b, a))
               [] a.kind = "point" /\ b.kind = "line" -> Yes(on(a, b))
               [] a.kind = "line" /\ b.kind = "point" -> Yes(on(b, a))
               [] OTHER -> "no"

RECURSIVE Dimension(_)
Dimension(g) == CASE g.kind \in {"point", "multipoint"} -> 0
                  [] g.kind \in {"line", "multiline"} -> 1
                  [] g.kind \in {"polygon", "multipolygon"} -> 2
                  [] OTHER -> Max({0} \cup {Dimension(g.parts[i]) : i \in DOMAIN g.parts})
Overlaps(a, b) ==
    IF Dimension(a) # Dimension(b) THEN "no"
    ELSE IF InteriorsIntersect(a, b) # "yes" THEN InteriorsIntersect(a, b)
    ELSE IF Equals(a, b) THEN "no"
    ELSE IF ContainsGeometry(a, b) # "no" THEN (IF ContainsGeometry(a, b) = "yes" THEN "no" ELSE "overflow")
    ELSE CASE ContainsGeometry(b, a) = "no" -> "yes" [] ContainsGeometry(b, a) = "yes" -> "no" [] OTHER -> "overflow"

-----------------------------------------------------------------------------
(* Distances: from the vertices of one to the segments of the other *)
Square(p, q) == (X(p) - X(q)) * (X(p) - X(q)) + (Y(p) - Y(q)) * (Y(p) - Y(q))
PointSegment(p, a, b) ==
    LET len2 == Square(a, b)
        along == (X(p) - X(a)) * (X(b) - X(a)) + (Y(p) - Y(a)) * (Y(b) - Y(a))
        across == (X(p) - X(a)) * (Y(b) - Y(a)) - (Y(p) - Y(a)) * (X(b) - X(a))
    IN  IF len2 = 0 \/ along <= 0 THEN <<Square(p, a), 1>>
        ELSE IF along >= len2 THEN <<Square(p, b), 1>> ELSE <<across * across, len2>>
PointLine(p, ps) == IF Len(ps) = 1 THEN <<Square(p, ps[1]), 1>> ELSE Least({PointSegment(p, s[1], s[2]) : s \in SegmentSet(ps)})
LineLine(ps, qs) == Least({PointLine(p, qs) : p \in ToSet(ps)} \cup {PointLine(q, ps) : q \in ToSet(qs)})
PointPolygon(p, g) == IF PointInPolygon(p, g) # "outside" THEN <<0, 1>>
                      ELSE Least({PointLine(p, Rings(g)[i]) : i \in DOMAIN Rings(g)})
LinePolygon(l, g) == Least({PointPolygon(p, g) : p \in Vertices(l)} \cup {LineLine(l.pts, Rings(g)[i]) : i \in DOMAIN Rings(g)})
\* A Multi* outside a collection is asked again, without a filter by boxes
Overflow == <<-1, 1>>
RECURSIVE Distance(_, _)
ComponentDistance(a, b) ==
    LET ds == {Distance(Components(a)[i], Components(b)[j]) : i \in DOMAIN Components(a), j \in DOMAIN Components(b)}
    IN  IF (a.kind # "collection" /\ b.kind # "collection") THEN Overflow ELSE IF Overflow \in ds THEN Overflow ELSE Least(ds)
Distance(a, b) ==
    CASE a.kind = "point" /\ b.kind = "point" -> <<Square(a.pts[1], b.pts[1]), 1>>
      [] a.kind = "point" /\ b.kind = "line" -> PointLine(a.pts[1], b.pts)
      [] a.kind = "line" /\ b.kind = "point" -> PointLine(b.pts[1], a.pts)
      [] a.kind = "point" /\ b.kind = "polygon" -> PointPolygon(a.pts[1], b)
      [] a.kind = "polygon" /\ b.kind = "point" -> PointPolygon(b.pts[1], a)
      [] a.kind = "line" /\ b.kind = "line" -> LineLine(a.pts, b.pts)
      [] a.kind = "line" /\ b.kind = "polygon" -> LinePolygon(a, b)
      [] a.kind = "polygon" /\ b.kind = "line" -> LinePolygon(b, a)
      [] a.kind = "polygon" /\ b.kind = "polygon" ->
           Least({PointPolygon(p, b) : p \in Vertices(a)} \cup {PointPolygon(p, a) : p \in Vertices(b)})
      [] OTHER -> ComponentDistance(a, b)

-----------------------------------------------------------------------------
(* convex_hull: Andrew's monotone chain *)
Cross(o, a, b) == (X(a) - X(o)) * (Y(b) - Y(o)) - (Y(a) - Y(o)) * (X(b) - X(o))
RECURSIVE PopTo(_, _, _)
PopTo(hull, least, p) ==
    IF Len(hull) >= least /\ Cross(hull[Len(hull) - 1], hull[Len(hull)], p) <= 0 THEN PopTo(Front(hull), least, p) ELSE hull
ByXY(S) == SetToSortSeq(S, LAMBDA p, q : X(p) < X(q) \/ (X(p) = X(q) /\ Y(p) < Y(q)))
ConvexHull(ps) ==
    LET sorted == ByXY(ToSet(ps))
        lower == FoldLeft(LAMBDA hull, p : Append(PopTo(hull, 2, p), p), <<>>, sorted)
        both == FoldLeft(LAMBDA hull, p : Append(PopTo(hull, Len(lower) + 1, p), p), lower, Reverse(sorted))
    IN  IF Len(ps) <= 2 THEN ps ELSE IF Len(sorted) <= 2 THEN sorted
        ELSE Append(Front(both), both[1])

-----------------------------------------------------------------------------
(* The R-tree *)
NoGeometry == [kind |-> "none", pts |-> <<>>, holes |-> <<>>, parts |-> <<>>]
InsertGeometry(g) == entries' = Append(entries, [box |-> IF BoundingBox(g) = <<>> THEN <<0, 0, 0, 0>> ELSE BoundingBox(g),
                                                 geometry |-> g])
InsertBbox(box) == entries' = Append(entries, [box |-> box, geometry |-> NoGeometry])

Hits(P(_)) == {i \in DOMAIN entries : P(entries[i])}
Stored(e) == e.geometry # NoGeometry
QueryIntersects(g) == IF BoundingBox(g) = <<>> THEN {} ELSE
    Hits(LAMBDA e : BoxesIntersect(e.box, BoundingBox(g)) /\ (Stored(e) => Intersects(e.geometry, g) = "yes"))
QueryContains(g) == IF BoundingBox(g) = <<>> THEN {} ELSE
    Hits(LAMBDA e : ContainsBox(e.box, BoundingBox(g)) /\ (Stored(e) => ContainsGeometry(e.geometry, g) = "yes"))
Centroid(box) == [kind |-> "point", pts |-> <<Mid(<<<<box[1], box[2]>>, <<box[3], box[4]>>>>)>>, holes |-> <<>>, parts |-> <<>>]
Measured(e) == IF Stored(e) THEN e.geometry ELSE Centroid(e.box)
Within(r, d) == d # Overflow /\ ~Less(<<r, 1>>, d)
QueryWithinDistance(g, r) == IF BoundingBox(g) = <<>> THEN {} ELSE
    Hits(LAMBDA e : BoxDistance(e.box, BoundingBox(g)) <= r /\ Within(r, Distance(Measured(e), g)))

Init == entries = <<>> /\ probe \in Geometries /\ pts = <<>>
Insert == /\ Len(entries) < MaxEntries /\ pts = <<>>
          /\ (\E g \in Geometries : InsertGeometry(g)) \/ (\E box \in Boxes : InsertBbox(box))
          /\ UNCHANGED <<probe, pts>>
\* The points are given once, whatever the probe
AddPoint == /\ entries = <<>> /\ Len(pts) < MaxPoints /\ probe = CHOOSE g \in Geometries : TRUE
            /\ \E p \in Grid : pts' = Append(pts, p)
            /\ UNCHANGED <<entries, probe>>
Next == Insert \/ AddPoint
Spec == Init /\ [][Next]_vars

-----------------------------------------------------------------------------
\* Two segments share a point: the lines are not parallel and Cramer's rule
\* gives parameters between 0 and 1, or an end of one is on the other.
ShareAPoint(a, b, c, d) ==
    LET det == (X(b) - X(a)) * (Y(d) - Y(c)) - (Y(b) - Y(a)) * (X(d) - X(c))
        t == (X(c) - X(a)) * (Y(d) - Y(c)) - (Y(c) - Y(a)) * (X(d) - X(c))
        u == (X(c) - X(a)) * (Y(b) - Y(a)) - (Y(c) - Y(a)) * (X(b) - X(a))
        within(v) == IF det > 0 THEN v >= 0 /\ v <= det ELSE v <= 0 /\ v >= det
    IN  IF det # 0 THEN within(t) /\ within(u)
        ELSE \/ PointSegment(a, c, d)[1] = 0 \/ PointSegment(b, c, d)[1] = 0
             \/ PointSegment(c, a, b)[1] = 0 \/ PointSegment(d, a, b)[1] = 0
Turned(p) == <<Y(p), X(p)>>

\* The orientation test decides exactly whether two segments share a point,
\* with collinear, touching and degenerate segments; whether a point is in a
\* ring does not depend on the direction of the ray, which may run through
\* vertices and along edges of any ring, concave and self-crossing ones included;
\* the hull is convex, of the points, closed, and holds them all.
AlgorithmsExact ==
    /\ Len(pts) = 4 => SegmentsIntersect(pts[1], pts[2], pts[3], pts[4]) = ShareAPoint(pts[1], pts[2], pts[3], pts[4])
    /\ Len(pts) > 0 => \A p \in Grid : PointInRing(p, pts) = PointInRing(Turned(p), [i \in DOMAIN pts |-> Turned(pts[i])])
    /\ Cardinality(ToSet(pts)) >= 3 => LET hull == ConvexHull(pts) IN
         /\ hull[1] = Last(hull) /\ ToSet(hull) \subseteq ToSet(pts)
         /\ \A s \in SegmentSet(hull), p \in ToSet(pts) : Cross(s[1], s[2], p) >= 0

Ids(P(_)) == {i \in DOMAIN entries : Stored(entries[i]) /\ P(entries[i].geometry)}
AllSimple(g) == Simple(probe) /\ Simple(g)

\* Filtering by boxes loses nothing: a query that is not empty finds exactly the stored
\* geometries for which the predicate answers yes.
FilterLossless == BoundingBox(probe) # <<>> =>
    /\ QueryIntersects(probe) \cap Ids(LAMBDA g : TRUE) = Ids(LAMBDA g : Intersects(g, probe) = "yes")
    /\ QueryContains(probe) \cap Ids(LAMBDA g : TRUE) = Ids(LAMBDA g : ContainsGeometry(g, probe) = "yes")
    /\ \A r \in Radii : LET found == QueryWithinDistance(probe, r) IN
         found = {i \in DOMAIN entries : Within(r, Distance(Measured(entries[i]), probe))}

\* The predicates of a pair agree with each other.  Where segments cross
\* between their ends, the distance is that of the nearest vertex, not zero.
PredicatesAgree == \A i \in DOMAIN entries : (Stored(entries[i]) /\ BoundingBox(probe) # <<>>) =>
    LET g == entries[i].geometry
        crossing == \E s \in RingSegments(g), t \in RingSegments(probe) :
                      Orientation(s[1], s[2], t[1]) # Orientation(s[1], s[2], t[2]) /\ Orientation(t[1], t[2], s[1]) # Orientation(t[1], t[2], s[2])
    IN  \A meets \in {Intersects(g, probe)}, met \in {Intersects(probe, g)},
           touches \in {Touches(g, probe)}, crosses \in {Crosses(g, probe)}, overlaps \in {Overlaps(g, probe)} :
        /\ {meets, met} # {"yes", "no"}
        /\ AllSimple(g) => \A far \in {Distance(g, probe)} :
              /\ meets # "overflow"
              /\ far = Distance(probe, g)
              /\ far[1] = 0 => meets = "yes"
              /\ (meets = "yes" /\ ~crossing) => far[1] = 0
        /\ ContainsGeometry(g, probe) = "yes" => meets # "no" /\ touches # "yes" /\ overlaps # "yes"
        /\ touches = "yes" => crosses # "yes" /\ overlaps # "yes"
        /\ (Equals(g, probe) /\ AllSimple(g)) => Equals(probe, g) /\ meets = "yes" /\ crosses # "yes"

SpatialSafe == AlgorithmsExact /\ FilterLossless /\ PredicatesAgree
=============================================================================
