-------------------------- MODULE ScreenSpace_proofs --------------------------
(***************************************************************************)
(* Proofs about ScreenSpace and CombinedSpace: what clamping and entering  *)
(* a screen return, and where the two spaces agree.                        *)
(***************************************************************************)
EXTENDS CombinedSpace, SequenceTheorems, WellFoundedInduction, NaturalsInduction, TLAPS

(***************************************************************************)
(* Screens.                                                                *)
(***************************************************************************)

(* A set of naturals has a least one.                                      *)
LEMMA LeastExists ==
  ASSUME NEW T \in SUBSET Nat, T # {}
  PROVE  \E x \in T : \A y \in T : x <= y
<1>1. IsWellFoundedOn(OpToRel(<, Nat), Nat)
  BY NatLessThanWellFounded
<1>2. PICK x \in T : \A y \in T : <<y, x>> \notin OpToRel(<, Nat)
  BY <1>1, WFMin
<1>3. \A y \in T : ~ (y < x)
  BY <1>2 DEF OpToRel
<1>4. QED
  BY <1>3

LEMMA SquareIsNat ==
  ASSUME NEW n \in Int
  PROVE  Square(n) \in Nat
<1>1. CASE n >= 0
  BY <1>1, SMT DEF Square
<1>2. CASE n < 0
  BY <1>2, SMT DEF Square
<1>3. QED
  BY <1>1, <1>2

(* Clamping to a rectangle that is not empty ends in it (Rect, i32::clamp).*)
LEMMA WithinIsInside ==
  ASSUME NEW rect \in Rects, Width(rect) > 0, Height(rect) > 0,
         NEW p \in Int \X Int
  PROVE  Within(rect, p) \in Points(rect) /\ Within(rect, p) \in Int \X Int
BY DEF Within, ClampTo, Points, Rects, Width, Height

(* A proportion of a side that is not empty is on that side.               *)
LEMMA MapRatioIsInside ==
  ASSUME NEW v \in Int, NEW from_lo \in Int, NEW from_len \in Int,
         NEW to_lo \in Int, NEW to_len \in Int
  PROVE  MapRatio(v, from_lo, from_len, to_lo, to_len) \subseteq to_lo .. to_lo + to_len - 1
BY DEF MapRatio

(* Entering a screen larger than the inset ends on it.                     *)
LEMMA EnterIsInside ==
  ASSUME NEW from \in Rects, NEW nb \in Rects,
         Width(nb) > Inset, Height(nb) > Inset,
         NEW edge \in Edge, NEW exit \in Int \X Int
  PROVE  Enter(from, nb, edge, exit) \subseteq Points(nb)
<1> DEFINE xs == MapRatio(exit[1], from.left, Width(from), nb.left, Width(nb))
           ys == MapRatio(exit[2], from.top, Height(from), nb.top, Height(nb))
<1>1. /\ {exit[1], exit[2], from.left, from.right, from.top, from.bottom,
          nb.left, nb.right, nb.top, nb.bottom} \subseteq Int
      /\ Inset \in Nat
  BY InsetAssumption DEF Rects
<1>2. {Width(from), Height(from), Width(nb), Height(nb)} \subseteq Int
  BY <1>1 DEF Width, Height
<1>3. xs \subseteq nb.left .. nb.right - 1
  <2>1. xs \subseteq nb.left .. nb.left + Width(nb) - 1
    BY <1>1, <1>2, MapRatioIsInside
  <2>2. QED
    BY <1>1, <2>1 DEF Width
<1>4. ys \subseteq nb.top .. nb.bottom - 1
  <2>1. ys \subseteq nb.top .. nb.top + Height(nb) - 1
    BY <1>1, <1>2, MapRatioIsInside
  <2>2. QED
    BY <1>1, <2>1 DEF Height
<1>5. edge \in {"right", "left", "top", "bottom"}
  BY DEF Edge, Edges
<1> HIDE DEF xs, ys
<1>6. Enter(from, nb, edge, exit) =
        CASE edge = "right"  -> {nb.left + Inset} \X ys
          [] edge = "left"   -> {nb.right - 1 - Inset} \X ys
          [] edge = "top"    -> xs \X {nb.bottom - 1 - Inset}
          [] edge = "bottom" -> xs \X {nb.top + Inset}
  BY DEF Enter, xs, ys
<1>7. /\ nb.left + Inset \in nb.left .. nb.right - 1
      /\ nb.right - 1 - Inset \in nb.left .. nb.right - 1
      /\ nb.top + Inset \in nb.top .. nb.bottom - 1
      /\ nb.bottom - 1 - Inset \in nb.top .. nb.bottom - 1
  BY <1>1 DEF Width, Height
<1>8. QED
  BY <1>3, <1>4, <1>5, <1>6, <1>7 DEF Points

(* The nearest monitor exists, and the point is clamped to it; the point   *)
(* stays where it is when none is known (clamp_to_rects).                  *)
LEMMA ClampIsToMonitor ==
  ASSUME NEW rects \in Seq(Rects), NEW p \in Int \X Int
  PROVE  \/ ClampToRects(p, rects) = p
         \/ \E i \in DOMAIN rects :
              /\ ClampToRects(p, rects) = Within(rects[i], p)
              /\ ClampToRects(p, rects) \in Points(rects[i])
<1> DEFINE real == {i \in DOMAIN rects : Width(rects[i]) > 0 /\ Height(rects[i]) > 0}
           off(i) == Distance(p, Within(rects[i], p))
           nearest(i) == \A j \in real : off(i) < off(j) \/ (off(i) = off(j) /\ i <= j)
<1>1. \A i \in real : i \in Nat /\ rects[i] \in Rects
  BY LenProperties
<1>2. \A i \in real : Within(rects[i], p) \in Points(rects[i]) /\ off(i) \in Nat
  <2> TAKE i \in real
  <2>1. Within(rects[i], p) \in Points(rects[i]) /\ Within(rects[i], p) \in Int \X Int
    BY <1>1, WithinIsInside
  <2>2. /\ p[1] - Within(rects[i], p)[1] \in Int
        /\ p[2] - Within(rects[i], p)[2] \in Int
    BY <2>1
  <2>3. /\ Square(p[1] - Within(rects[i], p)[1]) \in Nat
        /\ Square(p[2] - Within(rects[i], p)[2]) \in Nat
    <3> HIDE <2>1
    <3> QED
      BY <2>2, SquareIsNat
  <2>4. QED
    BY <2>1, <2>3 DEF Distance
<1>3. CASE real = {}
  BY <1>3 DEF ClampToRects
<1>4. CASE real # {}
  <2> HIDE DEF real, off
  <2>1. PICK d \in {off(i) : i \in real} : \A e \in {off(i) : i \in real} : d <= e
    BY <1>2, <1>4, LeastExists
  <2> DEFINE near == {i \in real : off(i) = d}
  <2>2. near # {} /\ near \in SUBSET Nat
    BY <1>1, <2>1
  <2>3. PICK b \in near : \A i \in near : b <= i
    BY <2>2, LeastExists
  <2>4. \A j \in real : off(b) < off(j) \/ (off(b) = off(j) /\ b <= j)
    <3> TAKE j \in real
    <3>1. b \in real /\ off(b) = d
      OBVIOUS
    <3>2. d \in Nat /\ off(j) \in Nat /\ d <= off(j)
      BY <1>2, <2>1, <3>1
    <3>3. off(j) = d => b <= j
      BY <2>3
    <3>4. QED
      BY <3>1, <3>2, <3>3
  <2>5. \E i \in real : nearest(i)
    BY <2>3, <2>4
  <2>6. (CHOOSE i \in real : nearest(i)) \in real
    <3> HIDE DEF nearest
    <3> QED
      BY <2>5
  <2>7. ClampToRects(p, rects) = Within(rects[CHOOSE i \in real : nearest(i)], p)
    BY <1>4 DEF ClampToRects, real, off
  <2>8. QED
    BY <1>2, <2>6, <2>7 DEF real
<1>5. QED
  BY <1>3, <1>4

LEMMA ClampEndsOnMonitor ==
  ASSUME NEW rects \in Seq(Rects), NEW p \in Int \X Int
  PROVE  \/ ClampToRects(p, rects) = p
         \/ \E i \in DOMAIN rects : ClampToRects(p, rects) \in Points(rects[i])
BY ClampIsToMonitor

(***************************************************************************)
(* The two-screen space.                                                   *)
(***************************************************************************)

(* Both screens are larger than the inset.                                 *)
RoomySpaces ==
  {space \in Spaces : \A n \in {"local", "remote"} :
     Width(RectOf(space, n)) > Inset /\ Height(RectOf(space, n)) > Inset}

States == [region : {"local", "remote"}, at : Int \X Int]

LEMMA EdgeNames ==
  /\ Edge = {"right", "left", "top", "bottom"}
  /\ \A e \in Edge : Opposite[e] \in Edge /\ Opposite[Opposite[e]] = e
<1>1. Edge = {"right", "left", "top", "bottom"}
  BY DEF Edge, Edges
<1>2. QED
  BY <1>1 DEF Opposite

LEMMA OneCrossing ==
  ASSUME NEW rect, NEW p, NEW e \in Edge
  PROVE  /\ Crossed(rect, p) \subseteq Edge
         /\ e \in Crossed(rect, p) => Crossed(rect, p) = {e} /\ Beyond(rect, p)[e]
BY DEF Crossed, Edge, Edges

(* The one link of the two screens, in both directions                     *)
(* (LayoutGraph::link).                                                    *)
LEMMA AcrossTheLink ==
  ASSUME NEW space \in Spaces
  PROVE  LayoutOf(space).across =
           [side \in {<<"local", space.edge>>, <<"remote", Opposite[space.edge]>>} |->
              IF side = <<"local", space.edge>> THEN "remote" ELSE "local"]
<1> DEFINE link == [from |-> "local", edge |-> space.edge, to |-> "remote"]
           here == <<"local", space.edge>>
           there == <<"remote", Opposite[space.edge]>>
           said == Said(<<link>>)
           newest(side, i) == said[i].side = side /\ \A j \in DOMAIN said : said[j].side = side => j <= i
           last(side) == CHOOSE i \in DOMAIN said : newest(side, i)
<1>1. /\ DOMAIN said = {1, 2}
      /\ said[1] = [side |-> here, to |-> "remote"]
      /\ said[2] = [side |-> there, to |-> "local"]
  <2>1. said = [i \in 1 .. 2 |->
                 LET l == <<link>>[(i + 1) \div 2] IN
                   IF i % 2 = 1 THEN [side |-> <<l.from, l.edge>>, to |-> l.to]
                   ELSE [side |-> <<l.to, Opposite[l.edge]>>, to |-> l.from]]
    BY DEF Said
  <2>2. 1 .. 2 = {1, 2} /\ (1 + 1) \div 2 = 1 /\ (2 + 1) \div 2 = 1 /\ 1 % 2 = 1 /\ 2 % 2 = 0
    OBVIOUS
  <2>3. <<link>>[1] = link
    OBVIOUS
  <2> HIDE DEF said
  <2>4. QED
    BY <2>1, <2>2, <2>3
<1>2. here # there
  OBVIOUS
<1> HIDE DEF said, link
<1>3. last(here) = 1
  <2>1. \A i \in DOMAIN said : newest(here, i) <=> i = 1
    BY <1>1, <1>2
  <2> HIDE DEF newest
  <2>2. QED
    BY <1>1, <2>1
<1>4. last(there) = 2
  <2>1. \A i \in DOMAIN said : newest(there, i) <=> i = 2
    BY <1>1, <1>2
  <2> HIDE DEF newest
  <2>2. QED
    BY <1>1, <2>1
<1>5. LayoutOf(space).across =
        [side \in {said[i].side : i \in DOMAIN said} |-> said[last(side)].to]
  BY DEF LayoutOf, Neighbours, said, link
<1> HIDE DEF last
<1>6. {said[i].side : i \in DOMAIN said} = {here, there}
  BY <1>1
<1> HIDE DEF here, there
<1>7. [side \in {here, there} |-> said[last(side)].to]
        = [side \in {here, there} |-> IF side = here THEN "remote" ELSE "local"]
  BY <1>1, <1>2, <1>3, <1>4
<1>8. QED
  BY <1>5, <1>6, <1>7 DEF here, there

(* The other screen is across the joined edge, and nothing across others.  *)
LEMMA NeighbourIsOther ==
  ASSUME NEW space \in Spaces, NEW region \in {"local", "remote"}, NEW e \in Edge
  PROVE  Across(LayoutOf(space), region, e) =
           IF e = JoinedEdge(space, region)
           THEN {IF region = "local" THEN "remote" ELSE "local"} ELSE {}
<1>1. DOMAIN LayoutOf(space).rect = {"local", "remote"}
  BY DEF LayoutOf
<1> DEFINE across == LayoutOf(space).across
<1>2. across = [side \in {<<"local", space.edge>>, <<"remote", Opposite[space.edge]>>} |->
                  IF side = <<"local", space.edge>> THEN "remote" ELSE "local"]
  BY AcrossTheLink
<1> HIDE DEF across
<1>3. <<region, e>> \in DOMAIN across <=> e = JoinedEdge(space, region)
  BY <1>2 DEF JoinedEdge
<1>4. e = JoinedEdge(space, region) =>
        across[<<region, e>>] = IF region = "local" THEN "remote" ELSE "local"
  BY <1>2 DEF JoinedEdge
<1>5. QED
  BY <1>1, <1>3, <1>4 DEF Across, across

(* Entering by the edge that joins the screens is the same in both.        *)
LEMMA EntriesAgree ==
  ASSUME NEW space \in Spaces, NEW exit
  PROVE  /\ EnterRemote(space, exit) = Enter(space.local, space.remote, space.edge, exit)
         /\ EnterLocal(space, exit)
              = Enter(space.remote, space.local, Opposite[space.edge], exit)
<1>1. space.edge \in {"right", "left", "top", "bottom"}
  BY EdgeNames DEF Spaces
<1> QED
  BY <1>1 DEF EnterRemote, EnterLocal, Enter, Across1, Across2, Opposite

(* The joined edge is the one CombinedSpace tests.                         *)
LEMMA JoinedIsTested ==
  ASSUME NEW space \in Spaces, NEW p \in Int \X Int
  PROVE  /\ CrossesToRemote(space, p) = Beyond(space.local, p)[JoinedEdge(space, "local")]
         /\ CrossesToLocal(space, p) = Beyond(space.remote, p)[JoinedEdge(space, "remote")]
<1>1. space.edge \in {"right", "left", "top", "bottom"}
  BY EdgeNames DEF Spaces
<1> QED
  BY <1>1 DEF CrossesToRemote, CrossesToLocal, Beyond, JoinedEdge, Opposite

LEMMA EntryIsSomewhere ==
  ASSUME NEW space \in RoomySpaces, NEW exit \in Int \X Int
  PROVE  /\ EnterRemote(space, exit) \subseteq Points(space.remote)
         /\ EnterLocal(space, exit) \subseteq Points(space.local)
<1>1. /\ space.local \in Rects /\ space.remote \in Rects
      /\ space.edge \in Edge /\ Opposite[space.edge] \in Edge
      /\ Width(space.local) > Inset /\ Height(space.local) > Inset
      /\ Width(space.remote) > Inset /\ Height(space.remote) > Inset
  BY EdgeNames DEF RoomySpaces, Spaces, RectOf
<1>2. space \in Spaces
  BY DEF RoomySpaces
<1>3. /\ EnterRemote(space, exit) = Enter(space.local, space.remote, space.edge, exit)
      /\ EnterLocal(space, exit)
           = Enter(space.remote, space.local, Opposite[space.edge], exit)
  BY <1>2, EntriesAgree
<1>4. QED
  BY <1>1, <1>3, EnterIsInside

(* There always is a nearest proportion of the other side.                 *)
LEMMA RatioExists ==
  ASSUME NEW v \in Int, NEW from_lo \in Int, NEW from_len \in Nat, from_len > 0,
         NEW to_lo \in Int, NEW to_len \in Nat, to_len > 0
  PROVE  MapRatio(v, from_lo, from_len, to_lo, to_len) # {}
<1> DEFINE part == ClampTo(v - from_lo, 0, from_len)
           whole == part * (to_len - 1)
           above == {k \in Nat : 2 * whole < 2 * (k * from_len) + from_len}
<1>1. part \in 0 .. from_len
  BY DEF ClampTo
<1> HIDE DEF part
<1>2. whole \in Nat /\ whole <= (to_len - 1) * from_len
  <2>1. part \in Nat /\ from_len - part \in Nat /\ to_len - 1 \in Nat
    BY <1>1
  <2>2. (to_len - 1) * from_len = whole + (to_len - 1) * (from_len - part)
    BY <2>1
  <2>3. (to_len - 1) * (from_len - part) \in Nat /\ whole \in Nat
    BY <2>1
  <2> HIDE DEF whole
  <2>4. QED
    BY <2>2, <2>3
<1> HIDE DEF whole
<1>3. to_len - 1 \in above
  BY <1>2
<1>4. PICK k \in above : \A j \in above : k <= j
  <2>1. above \in SUBSET Nat /\ above # {}
    BY <1>3
  <2> HIDE DEF above
  <2>2. QED
    BY <2>1, LeastExists
<1>5. k \in 0 .. to_len - 1
  <2>1. k \in Nat /\ k <= to_len - 1
    BY <1>3, <1>4
  <2> HIDE DEF above
  <2>2. QED
    BY <2>1
<1>6. 2 * (whole - k * from_len) \in -from_len .. from_len
  <2>1. CASE k = 0
    BY <1>2, <1>4, <2>1
  <2>2. CASE k # 0
    <3>1. k - 1 \in Nat /\ k - 1 \notin above
      BY <1>4, <2>2
    <3>2. (k - 1) * from_len = k * from_len - from_len
      BY <1>5
    <3>3. 2 * whole >= 2 * (k * from_len) - from_len
      BY <1>2, <3>1, <3>2
    <3>4. QED
      BY <1>2, <1>4, <3>3
  <2>3. QED
    BY <2>1, <2>2
<1>7. MapRatio(v, from_lo, from_len, to_lo, to_len) =
        {to_lo + i : i \in {j \in 0 .. to_len - 1 :
                              2 * (whole - j * from_len) \in -from_len .. from_len}}
  BY DEF MapRatio, part, whole
<1>8. QED
  BY <1>5, <1>6, <1>7

LEMMA EntriesExist ==
  ASSUME NEW space \in RoomySpaces, NEW exit \in Int \X Int
  PROVE  EnterRemote(space, exit) # {} /\ EnterLocal(space, exit) # {}
<1> DEFINE l == space.local
           r == space.remote
<1>1. /\ {Width(l), Height(l), Width(r), Height(r)} \subseteq Nat \ {0}
      /\ {l.left, l.top, r.left, r.top, exit[1], exit[2]} \subseteq Int
  BY InsetAssumption DEF RoomySpaces, Spaces, Rects, RectOf, Width, Height
<1>2. space.edge \in {"right", "left", "top", "bottom"}
  BY EdgeNames DEF RoomySpaces, Spaces
<1> DEFINE Proportion(from, to) ==
             /\ \E k \in Across1(from, to, exit) : TRUE
             /\ \E k \in Across2(from, to, exit) : TRUE
<1>3. Proportion(l, r) /\ Proportion(r, l)
  <2>1. \A v, lo, to_lo \in Int : \A len, to_len \in Nat \ {0} :
          \E k \in MapRatio(v, lo, len, to_lo, to_len) : TRUE
    <3> TAKE v, lo, to_lo \in Int
    <3> TAKE len, to_len \in Nat \ {0}
    <3>1. len \in Nat /\ to_len \in Nat /\ len > 0 /\ to_len > 0
      OBVIOUS
    <3>2. MapRatio(v, lo, len, to_lo, to_len) # {}
      BY <3>1, RatioExists
    <3>3. QED
      BY <3>2
  <2> HIDE DEF l, r
  <2>2. QED
    BY <1>1, <2>1 DEF Across1, Across2
<1>5. \A S, x : (\E k \in S : TRUE) => S \X {x} # {} /\ {x} \X S # {}
  <2> SUFFICES ASSUME NEW S, NEW x, NEW k \in S
               PROVE  S \X {x} # {} /\ {x} \X S # {}
    OBVIOUS
  <2>1. <<k, x>> \in S \X {x} /\ <<x, k>> \in {x} \X S
    OBVIOUS
  <2>2. QED
    BY <2>1
<1> HIDE DEF l, r
<1>6. CASE space.edge \in {"right", "left"}
  BY <1>3, <1>5, <1>6 DEF EnterRemote, EnterLocal, l, r
<1>7. CASE space.edge \in {"top", "bottom"}
  BY <1>3, <1>5, <1>7 DEF EnterRemote, EnterLocal, l, r
<1>8. QED
  BY <1>2, <1>6, <1>7

(***************************************************************************)
(* A move of the two-screen space stays on its screens: the cursor of the  *)
(* seamless capture is never off both (CombinedSpace::apply_delta).        *)
(***************************************************************************)
THEOREM CombinedStaysInside ==
  ASSUME NEW space \in RoomySpaces, NEW state \in States, NEW delta \in Int \X Int
  PROVE  \A s \in CombinedDelta(space, state, delta) :
           s \in States /\ s.at \in Points(RectOf(space, s.region))
<1> DEFINE next == <<state.at[1] + delta[1], state.at[2] + delta[2]>>
<1>1. next \in Int \X Int
  BY DEF States
<1>2. \A n \in {"local", "remote"} :
        /\ RectOf(space, n) \in Rects
        /\ Width(RectOf(space, n)) > 0 /\ Height(RectOf(space, n)) > 0
        /\ Points(RectOf(space, n)) \subseteq Int \X Int
  <2> TAKE n \in {"local", "remote"}
  <2>1. RectOf(space, n) \in Rects
    BY DEF RoomySpaces, Spaces, RectOf
  <2>2. Width(RectOf(space, n)) \in Int /\ Height(RectOf(space, n)) \in Int /\ Inset \in Nat
    BY <2>1, InsetAssumption DEF Rects, Width, Height
  <2>3. Width(RectOf(space, n)) > Inset /\ Height(RectOf(space, n)) > Inset
    BY DEF RoomySpaces
  <2>4. Points(RectOf(space, n)) \subseteq Int \X Int
    BY <2>1 DEF Points, Rects
  <2>5. QED
    BY <2>1, <2>2, <2>3, <2>4
<1> HIDE DEF next
<1>3. \A n \in {"local", "remote"} :
        Within(RectOf(space, n), next) \in Points(RectOf(space, n))
  BY <1>1, <1>2, WithinIsInside
<1>4. /\ EnterRemote(space, next) \subseteq Points(RectOf(space, "remote"))
      /\ EnterLocal(space, next) \subseteq Points(RectOf(space, "local"))
  BY <1>1, EntryIsSomewhere DEF RectOf
<1>5. \A s \in CombinedDelta(space, state, delta) :
        \E n \in {"local", "remote"} : \E p \in Points(RectOf(space, n)) :
          s = [region |-> n, at |-> p]
  BY <1>3, <1>4 DEF CombinedDelta, next, RectOf
<1>6. QED
  BY <1>2, <1>5 DEF States

(***************************************************************************)
(* The two spaces take a move to the same places, unless it rounds a       *)
(* corner (MultiScreenSpace "generalizes the 2-screen CombinedSpace").     *)
(***************************************************************************)
THEOREM CombinedAgrees ==
  ASSUME NEW space \in RoomySpaces, NEW state \in States, NEW delta \in Int \X Int
  PROVE  SpacesAgree(space, state, delta) <=> ~RoundsCorner(space, state, delta)
<1> DEFINE rect == RectOf(space, state.region)
           other == IF state.region = "local" THEN "remote" ELSE "local"
           joined == JoinedEdge(space, state.region)
           next == <<state.at[1] + delta[1], state.at[2] + delta[2]>>
           entries == IF state.region = "local" THEN EnterRemote(space, next)
                      ELSE EnterLocal(space, next)
           switched == {[screen |-> other, at |-> p] : p \in entries}
           stayed == {[screen |-> state.region, at |-> Within(rect, next)]}
           layout == LayoutOf(space)
<1>1. /\ space \in Spaces /\ space.edge \in Edge /\ joined \in Edge
      /\ state.region \in {"local", "remote"}
      /\ next \in Int \X Int
      /\ rect \in Rects
  BY EdgeNames DEF RoomySpaces, Spaces, States, JoinedEdge, RectOf
<1>2. {AsCursor(s) : s \in CombinedDelta(space, state, delta)} =
        IF Beyond(rect, next)[joined] THEN switched ELSE stayed
  <2>1. Beyond(rect, next)[joined] =
          IF state.region = "local" THEN CrossesToRemote(space, next)
          ELSE CrossesToLocal(space, next)
    BY <1>1, JoinedIsTested DEF RectOf
  <2>2. CombinedDelta(space, state, delta) =
          IF Beyond(rect, next)[joined]
          THEN {[region |-> other, at |-> p] : p \in entries}
          ELSE {[region |-> state.region, at |-> Within(rect, next)]}
    <3> HIDE DEF joined, next
    <3>1. CombinedDelta(space, state, delta) =
            IF state.region = "local"
            THEN IF CrossesToRemote(space, next)
                 THEN {[region |-> "remote", at |-> p] : p \in EnterRemote(space, next)}
                 ELSE {[region |-> "local", at |-> Within(space.local, next)]}
            ELSE IF CrossesToLocal(space, next)
                 THEN {[region |-> "local", at |-> p] : p \in EnterLocal(space, next)}
                 ELSE {[region |-> "remote", at |-> Within(space.remote, next)]}
      BY DEF CombinedDelta, next
    <3>2. QED
      BY <1>1, <2>1, <3>1 DEF RectOf
  <2> HIDE DEF joined, next, entries, rect
  <2>3. AsCursor([region |-> state.region, at |-> Within(rect, next)])
          = [screen |-> state.region, at |-> Within(rect, next)]
    BY DEF AsCursor
  <2>4. \A p : AsCursor([region |-> other, at |-> p]) = [screen |-> other, at |-> p]
    BY DEF AsCursor
  <2> HIDE DEF other
  <2>5. CASE Beyond(rect, next)[joined]
    <3>1. CombinedDelta(space, state, delta) = {[region |-> other, at |-> p] : p \in entries}
      BY <2>2, <2>5
    <3>2. {AsCursor(s) : s \in {[region |-> other, at |-> p] : p \in entries}} = switched
      BY <2>4, Zenon
    <3>3. QED
      BY <2>5, <3>1, <3>2
  <2>6. CASE ~Beyond(rect, next)[joined]
    BY <2>2, <2>3, <2>6
  <2>7. QED
    BY <2>5, <2>6
<1>3. ApplyDelta(layout, AsCursor(state), delta) =
        LET entered == UNION {EnterNeighbor(layout, state.region, e, next) :
                              e \in Crossed(rect, next)}
        IN IF entered # {} THEN entered ELSE stayed
  <2>1. layout.rect[state.region] = rect
    BY <1>1 DEF LayoutOf
  <2>2. AsCursor(state).screen = state.region /\ AsCursor(state).at = state.at
    BY DEF AsCursor
  <2> HIDE DEF layout, rect
  <2>3. QED
    BY <2>1, <2>2 DEF ApplyDelta
<1>4. \A e \in Edge : EnterNeighbor(layout, state.region, e, next) =
        IF e = joined THEN switched ELSE {}
  <2> TAKE e \in Edge
  <2>1. Across(layout, state.region, e) = IF e = joined THEN {other} ELSE {}
    BY <1>1, NeighbourIsOther
  <2>2. layout.rect[state.region] = rect /\ layout.rect[other] = RectOf(space, other)
    BY <1>1 DEF LayoutOf
  <2>3. Enter(rect, RectOf(space, other), joined, next) = entries
    BY <1>1, EntriesAgree DEF RectOf, JoinedEdge
  <2> HIDE DEF layout, rect, other, joined, entries, next
  <2>4. QED
    BY <2>1, <2>2, <2>3 DEF EnterNeighbor
<1>5. switched # {}
  BY <1>1, EntriesExist DEF RoomySpaces
<1>6. switched # stayed
  <2>1. \A c \in switched : c.screen # state.region
    BY <1>1
  <2>2. \E c \in stayed : c.screen = state.region
    OBVIOUS
  <2> HIDE DEF switched, stayed
  <2>3. QED
    BY <2>1, <2>2
<1>7. /\ Crossed(rect, next) \subseteq Edge
      /\ joined \in Crossed(rect, next) => Crossed(rect, next) = {joined} /\ Beyond(rect, next)[joined]
  BY <1>1, OneCrossing
<1>8. RoundsCorner(space, state, delta) <=>
        Beyond(rect, next)[joined] /\ joined \notin Crossed(rect, next)
  BY DEF RoundsCorner
<1>9. SpacesAgree(space, state, delta) <=>
        {AsCursor(s) : s \in CombinedDelta(space, state, delta)}
          = ApplyDelta(layout, AsCursor(state), delta)
  BY DEF SpacesAgree
<1> HIDE DEF layout, rect, joined, next, switched, stayed
<1>10. CASE joined \in Crossed(rect, next)
  <2>1. UNION {EnterNeighbor(layout, state.region, e, next) : e \in Crossed(rect, next)} = switched
    BY <1>1, <1>4, <1>7, <1>10
  <2>2. QED
    BY <1>2, <1>3, <1>5, <1>7, <1>8, <1>9, <1>10, <2>1
<1>11. CASE joined \notin Crossed(rect, next)
  <2>1. UNION {EnterNeighbor(layout, state.region, e, next) : e \in Crossed(rect, next)} = {}
    BY <1>4, <1>7, <1>11
  <2>2. QED
    BY <1>2, <1>3, <1>6, <1>8, <1>9, <1>11, <2>1
<1>12. QED
  BY <1>10, <1>11

(***************************************************************************)
(* Screens side by side: the two spaces take every move to the same        *)
(* places, because right and left come first when a corner is taken for an *)
(* edge.                                                                   *)
(***************************************************************************)
THEOREM SideBySideAgrees ==
  ASSUME NEW space \in RoomySpaces, space.edge \in {"right", "left"},
         NEW state \in States, NEW delta \in Int \X Int
  PROVE  SpacesAgree(space, state, delta)
<1> DEFINE rect == RectOf(space, state.region)
           joined == JoinedEdge(space, state.region)
           next == <<state.at[1] + delta[1], state.at[2] + delta[2]>>
<1>1. joined \in {"right", "left"}
  BY DEF JoinedEdge, Opposite
<1>2. next[1] \in Int /\ rect.left \in Int /\ rect.right \in Int /\ rect.left < rect.right
  BY InsetAssumption DEF States, RoomySpaces, Spaces, Rects, RectOf, Width
<1> HIDE DEF rect, joined, next
<1>3. Beyond(rect, next)["left"] => ~Beyond(rect, next)["right"]
  <2>1. next[1] < rect.left => ~(next[1] >= rect.right)
    BY <1>2
  <2>2. /\ Beyond(rect, next)["left"] <=> next[1] < rect.left
        /\ Beyond(rect, next)["right"] <=> next[1] >= rect.right
    BY DEF Beyond
  <2>3. QED
    BY <2>1, <2>2
<1>4. Beyond(rect, next)[joined] => joined \in Crossed(rect, next)
  <2>1. CASE joined = "right"
    BY <2>1 DEF Crossed, Edges
  <2>2. CASE joined = "left"
    BY <1>3, <2>2 DEF Crossed, Edges
  <2>3. QED
    BY <1>1, <2>1, <2>2
<1>5. ~RoundsCorner(space, state, delta)
  BY <1>4 DEF RoundsCorner, rect, joined, next
<1>6. QED
  BY <1>5, CombinedAgrees

(***************************************************************************)
(* A move of the seamless capture ends on the local screen, on the peer's, *)
(* or on a monitor the peer reported: no move loses the cursor             *)
(* (seamless.rs, apply_delta and clamp_to_rects).                          *)
(***************************************************************************)
THEOREM SeamlessStaysOnScreen ==
  ASSUME NEW space \in RoomySpaces, NEW monitors \in Seq(Rects),
         NEW at \in Int \X Int, NEW delta \in Int \X Int
  PROVE  \A s \in SeamlessMove(space, monitors, at, delta) :
           \/ s.at \in Points(RectOf(space, s.region))
           \/ s.region = "remote" /\ \E i \in DOMAIN monitors : s.at \in Points(monitors[i])
<1> SUFFICES ASSUME NEW m \in CombinedDelta(space, [region |-> "remote", at |-> at], delta)
             PROVE  LET s == IF m.region = "remote"
                             THEN [m EXCEPT !.at = ClampToRects(@, monitors)] ELSE m
                    IN \/ s.at \in Points(RectOf(space, s.region))
                       \/ /\ s.region = "remote"
                          /\ \E i \in DOMAIN monitors : s.at \in Points(monitors[i])
  BY DEF SeamlessMove
<1>1. m \in States /\ m.at \in Points(RectOf(space, m.region))
  <2>1. [region |-> "remote", at |-> at] \in States
    BY DEF States
  <2>2. QED
    BY <2>1, CombinedStaysInside
<1>2. CASE m.region # "remote"
  BY <1>1, <1>2
<1>3. CASE m.region = "remote"
  <2> DEFINE s == [m EXCEPT !.at = ClampToRects(@, monitors)]
  <2>1. s.region = "remote" /\ s.at = ClampToRects(m.at, monitors)
    BY <1>1, <1>3 DEF States
  <2>2. m.at \in Int \X Int
    BY <1>1 DEF States
  <2>3. \/ s.at = m.at
        \/ \E i \in DOMAIN monitors : s.at \in Points(monitors[i])
    BY <2>1, <2>2, ClampEndsOnMonitor
  <2> HIDE DEF s
  <2>4. QED
    BY <1>1, <1>3, <2>1, <2>3 DEF s
<1>4. QED
  BY <1>2, <1>3

(* A monitor of a screen, larger than the inset.                           *)
MonitorsOf(rect) ==
  {m \in Rects : /\ rect.left <= m.left /\ m.right <= rect.right
                 /\ rect.top <= m.top /\ m.bottom <= rect.bottom
                 /\ Width(m) > Inset /\ Height(m) > Inset}

(* Clamping to a monitor leaves a point as far inside the screen's edges   *)
(* as the inset, when it was.                                              *)
LEMMA ClampKeepsInset ==
  ASSUME NEW rect \in Rects, NEW m \in MonitorsOf(rect), NEW p \in Int \X Int
  PROVE  LET q == Within(m, p) IN
           /\ q \in Int \X Int
           /\ p[1] >= rect.left + Inset => q[1] >= rect.left + Inset
           /\ p[1] <= rect.right - 1 - Inset => q[1] <= rect.right - 1 - Inset
           /\ p[2] >= rect.top + Inset => q[2] >= rect.top + Inset
           /\ p[2] <= rect.bottom - 1 - Inset => q[2] <= rect.bottom - 1 - Inset
BY InsetAssumption DEF MonitorsOf, Within, ClampTo, Rects, Width, Height

(***************************************************************************)
(* A cursor that has just entered is still on the remote after a move of   *)
(* no more than the inset, also when the peer's monitors moved its entry   *)
(* ("so the cursor does not immediately re-cross back on the next delta"). *)
(***************************************************************************)
THEOREM EntryDoesNotBounce ==
  ASSUME NEW space \in RoomySpaces, NEW exit \in Int \X Int,
         NEW monitors \in Seq(MonitorsOf(space.remote)),
         NEW at \in SeamlessEnter(space, monitors, exit),
         NEW delta \in (-Inset .. Inset) \X (-Inset .. Inset)
  PROVE  \A s \in SeamlessMove(space, monitors, at, delta) : s.region = "remote"
<1>1. PICK p \in EnterRemote(space, exit) : at = ClampToRects(p, monitors)
  BY DEF SeamlessEnter
<1> DEFINE r == space.remote
           inset(q) ==
             /\ space.edge = "right"  => q[1] >= r.left + Inset
             /\ space.edge = "left"   => q[1] <= r.right - 1 - Inset
             /\ space.edge = "top"    => q[2] <= r.bottom - 1 - Inset
             /\ space.edge = "bottom" => q[2] >= r.top + Inset
           next == <<at[1] + delta[1], at[2] + delta[2]>>
<1>2. /\ space.edge \in {"right", "left", "top", "bottom"}
      /\ r \in Rects /\ Inset \in Nat
      /\ r.left \in Int /\ r.right \in Int /\ r.top \in Int /\ r.bottom \in Int
  BY EdgeNames, InsetAssumption DEF RoomySpaces, Spaces, Rects
<1>3. p \in Int \X Int
  <2>1. p \in Points(r)
    BY EntryIsSomewhere
  <2>2. QED
    BY <1>2, <2>1 DEF Points
<1>4. inset(p)
  <2> DEFINE xs == Across1(space.local, r, exit)
             ys == Across2(space.local, r, exit)
  <2> HIDE DEF xs, ys
  <2>1. /\ space.edge = "right"  => p \in {r.left + Inset} \X ys
        /\ space.edge = "left"   => p \in {r.right - 1 - Inset} \X ys
        /\ space.edge = "top"    => p \in xs \X {r.bottom - 1 - Inset}
        /\ space.edge = "bottom" => p \in xs \X {r.top + Inset}
    BY DEF EnterRemote, xs, ys
  <2> HIDE DEF r
  <2>2. QED
    BY <1>2, <2>1
<1>5. at \in Int \X Int /\ inset(at)
  <2>1. monitors \in Seq(Rects) /\ \A i \in DOMAIN monitors : monitors[i] \in MonitorsOf(r)
    BY DEF MonitorsOf
  <2>2. CASE at = p
    BY <1>3, <1>4, <2>2
  <2>3. CASE at # p
    <3>1. PICK i \in DOMAIN monitors : at = Within(monitors[i], p)
      BY <1>1, <1>3, <2>1, <2>3, ClampIsToMonitor
    <3>2. QED
      BY <1>2, <1>3, <1>4, <2>1, <3>1, ClampKeepsInset
  <2>4. QED
    BY <2>2, <2>3
<1>6. ~CrossesToLocal(space, next)
  <2>1. /\ delta[1] \in Int /\ -Inset <= delta[1] /\ delta[1] <= Inset
        /\ delta[2] \in Int /\ -Inset <= delta[2] /\ delta[2] <= Inset
    BY InsetAssumption
  <2>2. next[1] = at[1] + delta[1] /\ next[2] = at[2] + delta[2]
    OBVIOUS
  <2>3. /\ space.edge = "right"  => (CrossesToLocal(space, next) <=> next[1] < r.left)
        /\ space.edge = "left"   => (CrossesToLocal(space, next) <=> next[1] >= r.right)
        /\ space.edge = "top"    => (CrossesToLocal(space, next) <=> next[2] >= r.bottom)
        /\ space.edge = "bottom" => (CrossesToLocal(space, next) <=> next[2] < r.top)
    BY DEF CrossesToLocal
  <2>4. at[1] \in Int /\ at[2] \in Int
    BY <1>5
  <2> HIDE DEF r, next
  <2>5. \A a, d, border \in Int : -Inset <= d /\ d <= Inset =>
          /\ a >= border + Inset => ~(a + d < border)
          /\ a <= border - 1 - Inset => ~(a + d >= border)
    BY InsetAssumption
  <2>6. /\ at[1] >= r.left + Inset => ~(next[1] < r.left)
        /\ at[1] <= r.right - 1 - Inset => ~(next[1] >= r.right)
        /\ at[2] <= r.bottom - 1 - Inset => ~(next[2] >= r.bottom)
        /\ at[2] >= r.top + Inset => ~(next[2] < r.top)
    BY <1>2, <2>1, <2>2, <2>4, <2>5, Zenon
  <2>7. QED
    BY <1>2, <1>5, <2>3, <2>6
<1>7. CombinedDelta(space, [region |-> "remote", at |-> at], delta)
        = {[region |-> "remote", at |-> Within(r, next)]}
  BY <1>6 DEF CombinedDelta
<1>8. QED
  BY <1>7 DEF SeamlessMove
================================================================================
