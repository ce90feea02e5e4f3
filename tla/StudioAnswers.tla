------------------------------ MODULE StudioAnswers ------------------------------
(********************************************************************************)
(* What a row comes out with, for any rows, roots and bounds: the light and     *)
(* the shadow it draws, the numbers its nodes are given, the types of what is   *)
(* put on record, the graphs it submits and the options it reports.             *)
(*                                                                              *)
(* Which light is inherited is a question of how far the records are looked     *)
(* at: by OrderedInv the redraws of a lineage lie together under its            *)
(* delivery, so that a `light` redraw out of reach has LINEAGE_HOPS redraws     *)
(* over it.  Which shadow falls is one of agreement: AllLit says that every     *)
(* stroke that has a direction has its light's, so that a stage finds the       *)
(* same direction by the delivery's light and by its stroke.  RowLit carries    *)
(* both from the step that answers a row to its report.                         *)
(*                                                                              *)
(* The rest goes by what is accepted.  Goes says with what options a row goes   *)
(* on past its refusals, whatever JSON was posted; from it follow the ranges    *)
(* of the numbers (Fits) and the types of the arguments (Typed).  Submitted     *)
(* says that a row's graphs are among Jobs and that a redraw's starts where     *)
(* its source asks for, so that what holds of the table of graphs holds of      *)
(* every lineage.  Told says that a row reports its options resolved, a stage   *)
(* by the frame it came out with, whose canvas is not empty (Came); what is     *)
(* taken back of that is OptionsProofs' to say.                                 *)
(********************************************************************************)
EXTENDS StudioProofs, OptionsProofs

\* A set of places has a highest one.
LEMMA HighestOf ==
    ASSUME NEW n \in Nat, NEW S, S \subseteq 1..n, S # {}
    PROVE  Highest(S) \in S /\ \A j \in S : j <= Highest(S)
<1> DEFINE F == {j..n : j \in S}
<1>1. IsWellFoundedOn(StrictSubsetOrdering(Nat), FiniteSubsetsOf(Nat))
      BY FS_StrictSubsetOrderingWellFounded
<1>2. \A j \in S : IsFiniteSet(j..n) /\ j..n \subseteq Nat
      BY FS_Interval
<1>3. F \subseteq FiniteSubsetsOf(Nat) /\ F # {}
      BY <1>2 DEF FiniteSubsetsOf
<1>4. \E x \in F : \A y \in F : ~(<<y, x>> \in StrictSubsetOrdering(Nat))
      BY <1>1, <1>3, WFMin
<1>5. PICK i \in S : \A j \in S : ~(<<j..n, i..n>> \in StrictSubsetOrdering(Nat))
      BY <1>4
<1>6. ASSUME NEW j \in S, i < j
      PROVE  FALSE
  <2>1. j..n \subseteq i..n /\ j..n # i..n
        BY <1>6
  <2>2. <<j..n, i..n>> \in StrictSubsetOrdering(Nat)
        BY <2>1, <1>2 DEF StrictSubsetOrdering
  <2> QED
      BY <1>5, <2>2
<1>7. \A j \in S : j <= i
      BY <1>6
<1>8. Highest(S) = i
  <2>1. S \subseteq Int
        OBVIOUS
  <2> QED
      BY <1>7, <2>1, HighestIs
<1> QED
    BY <1>7, <1>8

-----------------------------------------------------------------------------
(* The light of a lineage.                                                 *)

\* A light has a direction, and a stroke that has one its light's.
Lit(p) == p.light = <<>> \/ p.light[2] \in DIRECTIONS
Agrees(p) == p.light # <<>> /\ OneOf(p.stroke, DIRECTIONS) => p.stroke[2] = p.light[2]
AllLit == \A m \in DOMAIN chain : Lit(chain[m]) /\ Agrees(chain[m])

\* A light that is accepted has a direction.
LEMMA LightHasDirection ==
    ASSUME NEW v, LightOk(v)
    PROVE  LightOf(v) = <<>> \/ LightOf(v)[2] \in DIRECTIONS
<1>1. CASE v = Null
      BY <1>1 DEF LightOf
<1>2. CASE v # Null
  <2> DEFINE from == Get(v[2], "from", Str(LIGHT_FROM_DEFAULT))
  <2>1. OneOf(from, DIRECTIONS)
        BY <1>2, Zenon DEF LightOk
  <2>2. from[2] \in DIRECTIONS
        BY <2>1 DEF OneOf
  <2>3. LightOf(v) = <<v[2].scene[2], from[2]>>
        BY <1>2, Zenon DEF LightOf
  <2> HIDE DEF from
  <2> QED
      BY <2>2, <2>3
<1> QED
    BY <1>1, <1>2

\* A redraw is lit as its options say, and has no stroke.
LEMMA RedrawIsLit ==
    ASSUME NEW v \in Taken.redraw
    PROVE  Lit(RedrawPicture(v)) /\ Agrees(RedrawPicture(v))
<1> DEFINE o == v[2]
           bare == Obj(Without(o, {"method", "cut"}))
           full == Obj(Without(Merge(o, [scene |-> Null]), {"method", "cut"}))
           a == RedrawArguments(v, "yukari")
<1>1. RedrawAccepts(v, "yukari") /\ ArgumentsOf.redraw[v] = a
      BY DEF Taken, Accepts, ArgumentsOf, Arguments, KINDS
<1>2. a.light = IF o.method[2] = "light" THEN LightOf(bare) ELSE <<>>
      BY DEF RedrawArguments
<1>3. o.method[2] = "light" => LightOk(full)
  <2>1. OneOf(Get(o, "method", Null), DOMAIN REDRAW_OPTIONS)
        BY <1>1, Zenon DEF RedrawAccepts
  <2>2. Get(o, "method", Null) = o.method
        BY <2>1 DEF Get, OneOf, Is, Null
  <2>3. ASSUME Get(o, "method", Null)[2] = "light"
        PROVE  LightOk(full)
        BY <1>1, <2>3 DEF RedrawAccepts
  <2> QED
      BY <2>2, <2>3
<1>4. LightOk(full) => OneOf(Get(full[2], "from", Str(LIGHT_FROM_DEFAULT)), DIRECTIONS)
  <2>1. full # Null
        BY DEF Obj, Null
  <2> HIDE DEF full
  <2> QED
      BY <2>1, Zenon DEF LightOk
<1>5. Get(full[2], "from", Str(LIGHT_FROM_DEFAULT)) = Get(bare[2], "from", Str(LIGHT_FROM_DEFAULT))
      BY DEF Get, Obj, Without, Merge
<1>6. bare # Null /\ LightOf(bare)[2] = Get(bare[2], "from", Str(LIGHT_FROM_DEFAULT))[2]
  <2>1. bare # Null
        BY DEF Obj, Null
  <2> HIDE DEF bare
  <2> DEFINE from == Get(bare[2], "from", Str(LIGHT_FROM_DEFAULT))
  <2>2. LightOf(bare) = <<bare[2].scene[2], from[2]>>
        BY <2>1, Zenon DEF LightOf
  <2> HIDE DEF from
  <2>3. LightOf(bare)[2] = from[2]
        BY <2>2
  <2> QED
      BY <2>1, <2>3 DEF from
<1> HIDE DEF full, bare, o, a
<1>7. a.light = <<>> \/ a.light[2] \in DIRECTIONS
      BY <1>2, <1>3, <1>4, <1>5, <1>6 DEF OneOf
<1>8. RedrawPicture(v).light = a.light /\ RedrawPicture(v).stroke = Null
      BY <1>1 DEF RedrawPicture, Picture
<1>9. ~OneOf(Null, DIRECTIONS)
      BY DEF OneOf, Is, Null
<1> QED
    BY <1>7, <1>8, <1>9 DEF Lit, Agrees

\* Each light a lineage is lit by has a direction.
LEMMA LightOfLineage ==
    ASSUME StudioInv, AllLit
    PROVE  InheritedLight(chain) = <<>> \/ InheritedLight(chain)[2] \in DIRECTIONS
<1> DEFINE W == LightsWithin(chain, LINEAGE_HOPS)
<1>1. CASE W = {}
      BY <1>1 DEF InheritedLight
<1>2. CASE W # {}
  <2>1. W \subseteq 1..Len(chain) /\ W \subseteq DOMAIN chain /\ Len(chain) \in Nat
        BY Numbered DEF LightsWithin
  <2>2. Highest(W) \in W
        BY <1>2, <2>1, HighestOf
  <2>3. InheritedLight(chain) = chain[Highest(W)].light
        BY <1>2 DEF InheritedLight
  <2> QED
      BY <2>1, <2>2, <2>3 DEF AllLit, Lit
<1> QED
    BY <1>1, <1>2

\* A delivery's stroke goes with its light.
LEMMA DeliverIsLit ==
    ASSUME StudioInv, AllLit, NEW v, DeliverRefusal(v) = "none"
    PROVE  Lit(DeliverPicture(v)) /\ Agrees(DeliverPicture(v))
<1> DEFINE a == DeliverArguments(v)
           light == LightDelivered(v)
           stroke == StrokeDelivered(v)
<1>1. v \in Taken.deliver
      BY Zenon DEF DeliverRefusal
<1>2. DeliverAccepts(v) /\ ArgumentsOf.deliver[v] = a
      BY <1>1 DEF Taken, Accepts, ArgumentsOf, Arguments, KINDS
<1>3. a.light = <<>> \/ a.light[2] \in DIRECTIONS
  <2>1. LightOk(Get(Body(v), "light", Null))
        BY <1>2, Zenon DEF DeliverAccepts
  <2>2. a.light = LightOf(Get(Body(v), "light", Null))
        BY DEF DeliverArguments
  <2> QED
      BY <2>1, <2>2, LightHasDirection
<1>4. a.light # <<>> /\ OneOf(a.stroke_light, DIRECTIONS) => a.stroke_light[2] = a.light[2]
  <2>1. LET light_ == LightOf(Get(Body(v), "light", Null))
            stroke_ == DeliverStroke(Body(v))
        IN  light_ # <<>> /\ OneOf(stroke_, DIRECTIONS) => stroke_[2] = light_[2]
        BY <1>2, Zenon DEF DeliverAccepts
  <2>2. a.light = LightOf(Get(Body(v), "light", Null)) /\ a.stroke_light = DeliverStroke(Body(v))
        BY DEF DeliverArguments
  <2> QED
      BY <2>1, <2>2
<1>5. light = IF a.light # <<>> THEN a.light ELSE InheritedLight(chain)
      BY <1>2 DEF LightDelivered
<1>6. stroke = IF a.stroke_light # <<"recipe default">> THEN a.stroke_light
               ELSE Str(IF light # <<>> THEN light[2] ELSE DELIVER_DEFAULTS.stroke_light)
      BY <1>2 DEF StrokeDelivered
<1>7. ~(a.light = <<>> /\ light # <<>> /\ OneOf(a.stroke_light, DIRECTIONS)
        /\ a.stroke_light[2] # light[2])
  <2> DEFINE b == ArgumentsOf.deliver[v]
  <2>1. ~(b.light = <<>> /\ light # <<>> /\ OneOf(b.stroke_light, DIRECTIONS)
          /\ b.stroke_light[2] # light[2])
        BY Zenon DEF DeliverRefusal
  <2> QED
      BY <1>2, <2>1
<1> HIDE DEF a, light, stroke
<1>8. light = <<>> \/ light[2] \in DIRECTIONS
      BY <1>3, <1>5, LightOfLineage
<1>9. light # <<>> /\ OneOf(stroke, DIRECTIONS) => stroke[2] = light[2]
  <2>1. CASE a.stroke_light # <<"recipe default">>
        BY <1>4, <1>5, <1>6, <1>7, <2>1
  <2>2. CASE a.stroke_light = <<"recipe default">>
    <3>1. light # <<>> => stroke = Str(light[2])
          BY <1>6, <2>2
    <3> QED
        BY <3>1 DEF Str
  <2> QED
      BY <2>1, <2>2
<1>10. DeliverPicture(v).light = light /\ DeliverPicture(v).stroke = stroke
      BY DEF DeliverPicture, Picture, light, stroke
<1> QED
    BY <1>8, <1>9, <1>10 DEF Lit, Agrees

\* An operation adds a picture that is lit as it says.
LEMMA LitStep ==
    ASSUME StudioInv, AllLit, NEW v,
           Redraw(v) \/ Deliver(v) \/ Dof(v) \/ Lens(v) \/ Photo(v) \/ Stage(v) \/ Lighting(v)
               \/ Saturation(v)
    PROVE  chain' = chain \/ \E q : chain' = Append(chain, q) /\ Lit(q) /\ Agrees(q)
<1>0. ASSUME NEW p, Lit(p), Agrees(p), NEW X, NEW done, Records(p, X, done)
      PROVE  \E q : chain' = Append(chain, q) /\ Lit(q) /\ Agrees(q)
      BY <1>0 DEF Records, Alike, Lit, Agrees
<1>a. ASSUME NEW p, p.light = <<>>
      PROVE  Lit(p) /\ Agrees(p)
      BY <1>a DEF Lit, Agrees
<1>1. CASE Redraw(v)
  <2>1. CASE RedrawRefusal(v) # "none"
        BY <1>1, <2>1 DEF Redraw, Refuse
  <2>2. CASE RedrawRefusal(v) = "none"
    <3>1. v \in Taken.redraw
          BY <2>2, Zenon DEF RedrawRefusal
    <3> QED
        BY <1>0, <1>1, <2>2, <3>1, RedrawIsLit, RedrawRecords
  <2> QED
      BY <2>1, <2>2
<1>2. CASE Deliver(v)
  <2>1. CASE DeliverRefusal(v) # "none"
        BY <1>2, <2>1 DEF Deliver, Refuse
  <2> QED
      BY <1>0, <1>2, <2>1, DeliverIsLit, DeliverRecords
<1>3. CASE Dof(v)
  <2>1. CASE DofRefusal(v) # "none"
        BY <1>3, <2>1 DEF Dof, Refuse
  <2>2. \A i : DofPicture(v, i).light = <<>>
        BY DEF DofPicture, Picture
  <2> QED
      BY <1>0, <1>a, <1>3, <2>1, <2>2, DofRecords
<1>4. CASE Lens(v)
  <2>1. CASE LensRefusal(v) # "none"
        BY <1>4, <2>1 DEF Lens, Refuse
  <2> QED
      BY <1>0, <1>a, <1>4, <2>1, PictureIs, LensRecords
<1>5. CASE Photo(v)
  <2>1. CASE PhotoRefusal(v) # "none"
        BY <1>5, <2>1 DEF Photo, Refuse
  <2> QED
      BY <1>0, <1>a, <1>5, <2>1, PictureIs, PhotoRecords
<1>6. CASE Stage(v)
  <2>1. CASE StageRefusal(v) # "none"
        BY <1>6, <2>1 DEF Stage, Refuse
  <2>2. StagePicture(v).light = <<>>
        BY DEF StagePicture, Picture
  <2> QED
      BY <1>0, <1>a, <1>6, <2>1, <2>2, StageRecords
<1>7. CASE Lighting(v)
  <2>1. CASE LightingRefusal(v) # "none"
        BY <1>7, <2>1 DEF Lighting, Refuse
  <2> QED
      BY <1>0, <1>a, <1>7, <2>1, PictureIs, LightingRecords
<1>8. CASE Saturation(v)
  <2>1. CASE SaturationRefusal(v) # "none"
        BY <1>8, <2>1 DEF Saturation, Refuse
  <2> QED
      BY <1>0, <1>a, <1>8, <2>1, PictureIs, SaturationRecords
<1> QED
    BY <1>1, <1>2, <1>3, <1>4, <1>5, <1>6, <1>7, <1>8

\* Every step keeps pictures lit as their strokes say.
LEMMA LitKept ==
    ASSUME StudioInv, AllLit, [Next]_vars
    PROVE  AllLit'
<1>1. ASSUME chain' = chain
      PROVE  AllLit'
      BY <1>1 DEF AllLit
<1>2. CASE Again
  <2>1. /\ DOMAIN chain' = DOMAIN chain
        /\ \A m \in DOMAIN chain : chain'[m] = chain[m] \/ Alike(chain'[m], chain[m])
        BY <1>2, Completes, Numbered
  <2> QED
      BY <2>1 DEF AllLit, Alike, Lit, Agrees
<1>3. ASSUME NEW q, chain' = Append(chain, q), Lit(q), Agrees(q)
      PROVE  AllLit'
  <2>1. /\ DOMAIN chain' = 1..(Len(chain) + 1) /\ DOMAIN chain = 1..Len(chain)
        /\ Len(chain) \in Nat
        /\ \A m \in 1..Len(chain) : chain'[m] = chain[m]
        /\ chain'[Len(chain) + 1] = q
        BY <1>3, Appended, Numbered
  <2> QED
      BY <1>3, <2>1 DEF AllLit
<1>4. CASE Report \/ UNCHANGED vars
      BY <1>1, <1>4 DEF Report, vars
<1> QED
    BY <1>1, <1>2, <1>3, <1>4, LitStep
    DEF Next, DoRedraw, DoDeliver, DoDof, DoLens, DoPhoto, DoStage, DoLighting, DoSaturation

\* The roots are not lit.
LEMMA RootsLit == Init => AllLit
<1> SUFFICES ASSUME Init
             PROVE  AllLit
    OBVIOUS
<1>1. chain \in Roots
      BY StudioAssumption DEF Init
<1>2. \A base : Drawing(base).light = <<>>
      BY DEF Drawing, Picture
<1>3. \A kind : Picture(kind).light = <<>>
      BY PictureIs
<1>4. \A m \in DOMAIN chain : chain[m].light = <<>>
      BY <1>1, <1>2, <1>3 DEF Roots
<1> QED
    BY <1>4 DEF AllLit, Lit, Agrees

\* A light of any picture has a direction, and a stroke that has one has its light's.
THEOREM LitSafe == Spec => []AllLit
BY RootsLit, LitKept, LineageSafe, PTL DEF Spec

\* A picture that is drawn or redrawn after the second is a redraw.
LEMMA LaterRedraws ==
    ASSUME StudioInv, OrderedInv, NEW i \in DOMAIN chain, Rank(chain[i]) = 0, i > 2
    PROVE  chain[i].kind = "redraw"
<1>1. chain[i].kind \in {"generate"} \cup DERIVED_KINDS
      BY Numbered, RankOf
<1>2. chain[i].kind # "generate" /\ chain[i].kind \notin LEGACY_REPAIRS
      BY Numbered DEF OrderedInv, WithinHops
<1> QED
    BY <1>1, <1>2 DEF DERIVED_KINDS

\* The records inherited_light looks at reach every light of a picture that is
\* not delivered.
LEMMA InheritedIsNearest ==
    ASSUME StudioInv, OrderedInv, ~IsDelivered(Source)
    PROVE  InheritedLight(chain) = NearestLight(chain)
<1> DEFINE n == Len(chain)
           W == LightsWithin(chain, LINEAGE_HOPS)
           N == LightsWithin(chain, n)
<1>1. n \in Nat \ {0} /\ DOMAIN chain = 1..n /\ Source = chain[n] /\ LINEAGE_HOPS \in Nat
      BY Numbered, StudioAssumption
<1>2. Rank(Source) = 0
      BY Undelivered DEF StudioInv
<1>3. ASSUME NEW i \in 1..n, chain[i].kind = "redraw"
      PROVE  i >= n - LINEAGE_HOPS
  <2>1. i > 1
        BY <1>1, <1>3 DEF OrderedInv, WithinHops
  <2>2. CASE n > 2
    <3>1. chain[n].kind = "redraw"
          BY <1>1, <1>2, <2>2, LaterRedraws
    <3>2. n <= LINEAGE_HOPS + 2
          BY <1>1, <3>1 DEF OrderedInv, WithinHops
    <3> QED
        BY <1>1, <2>1, <3>2
  <2>3. CASE n <= 2
        BY <1>1, <2>1, <2>3
  <2> QED
      BY <1>1, <2>2, <2>3
<1>4. W = N
      BY <1>1, <1>3 DEF LightsWithin
<1> QED
    BY <1>4 DEF InheritedLight, NearestLight

\* The light a stage inherits is the nearest, or too far.
NearOrFar(c, light) ==
    \/ light = NearestLight(c)
    \/ /\ light = <<>>
       /\ LET lit == Highest(LightsWithin(c, Len(c)))
              saturated == IF Last(c).kind = "saturation" THEN 1 ELSE 0
          IN  Redraws(SubSeq(c, lit + 1, Len(c))) >= LINEAGE_HOPS - saturated

\* So many redraws lie over a picture.
LEMMA RedrawsOver ==
    ASSUME StudioInv, NEW i \in DOMAIN chain, NEW k \in Nat, i + k <= Len(chain),
           \A j \in (i + 1)..(i + k) : chain[j].kind = "redraw"
    PROVE  Redraws(SubSeq(chain, i + 1, Len(chain))) >= k
<1> DEFINE n == Len(chain)
           S == {chain[j] : j \in DOMAIN chain}
           c == SubSeq(chain, i + 1, n)
           R == {j \in DOMAIN c : c[j].kind = "redraw"}
<1>1. n \in Nat /\ DOMAIN chain = 1..n /\ i \in Nat \ {0}
      BY Numbered
<1>2. \A j \in (i + 1)..n : chain[j] \in S
      BY <1>1
<1> HIDE DEF S
<1>3. /\ c \in Seq(S) /\ Len(c) = IF i + 1 <= n THEN n - (i + 1) + 1 ELSE 0
      /\ \A j \in 1..(n - (i + 1) + 1) : c[j] = chain[(i + 1) + j - 1]
      BY <1>1, <1>2, SubSeqProperties
<1> HIDE DEF c
<1>4. DOMAIN c = 1..Len(c) /\ Len(c) \in Nat /\ Len(c) >= k
      BY <1>1, <1>3, LenProperties
<1>5. 1..k \subseteq R
  <2> SUFFICES ASSUME NEW j \in 1..k
               PROVE  c[j].kind = "redraw" /\ j \in DOMAIN c
      OBVIOUS
  <2>1. j \in 1..(n - (i + 1) + 1) /\ (i + 1) + j - 1 = i + j /\ i + j \in (i + 1)..(i + k)
        BY <1>1
  <2>2. c[j] = chain[(i + 1) + j - 1]
        BY <1>3, <2>1
  <2>3. j \in DOMAIN c
        BY <1>4
  <2> QED
      BY <2>1, <2>2, <2>3
<1>6. IsFiniteSet(R)
  <2>1. IsFiniteSet(1..Len(c)) /\ R \in SUBSET (1..Len(c))
        BY <1>4, FS_Interval
  <2> QED
      BY <2>1, FS_Subset
<1>7. Cardinality(1..k) <= Cardinality(R) /\ Cardinality(1..k) = k
  <2>1. 1..k \in SUBSET R
        BY <1>5
  <2>2. Cardinality(1..k) <= Cardinality(R)
        BY <1>6, <2>1, FS_Subset
  <2>3. Cardinality(1..k) = k
    <3>1. 1 \in Int /\ k \in Int
          OBVIOUS
    <3>2. Cardinality(1..k) = IF 1 > k THEN 0 ELSE k - 1 + 1
          BY <3>1, FS_Interval, Zenon
    <3> QED
        BY <3>2
  <2> QED
      BY <2>2, <2>3
<1>8. Cardinality(R) \in Nat
      BY <1>6, FS_CardinalityType
<1> QED
    BY <1>7, <1>8 DEF Redraws, c

\* A stage takes the nearest light, unless it lies too far back.
LEMMA StageInherits ==
    ASSUME StudioInv, OrderedInv, IsCutRedraw(Source) \/ Source.kind \in {"deliver", "saturation"}
    PROVE  NearOrFar(chain, InheritedLight(chain))
<1> DEFINE n == Len(chain)
           W == LightsWithin(chain, LINEAGE_HOPS)
           N == LightsWithin(chain, n)
           lit == Highest(N)
           saturated == IF Last(chain).kind = "saturation" THEN 1 ELSE 0
<1>1. /\ n \in Nat \ {0} /\ n \in DOMAIN chain /\ DOMAIN chain = 1..n /\ Source = chain[n]
      /\ Last(chain) = Source /\ LINEAGE_HOPS \in Nat
      BY Numbered, StudioAssumption DEF Last, Source
<1>2. W = {i \in N : i >= n - LINEAGE_HOPS} /\ N \subseteq 1..n
      BY <1>1 DEF LightsWithin
<1>3. CASE N = {}
  <2>1. W = {}
        BY <1>2, <1>3
  <2> QED
      BY <1>3, <2>1 DEF InheritedLight, NearestLight, NearOrFar
<1>4. CASE N # {}
  <2>1. lit \in N /\ \A j \in N : j <= lit
    <3> HIDE DEF N
    <3> QED
        BY <1>1, <1>2, <1>4, HighestOf
  <2>2. /\ lit \in 1..n /\ chain[lit].kind = "redraw" /\ lit > 1
        BY <1>1, <2>1 DEF LightsWithin, OrderedInv, WithinHops
  <2>3. CASE lit >= n - LINEAGE_HOPS
    <3>1. lit \in W /\ W \subseteq Int /\ \A j \in W : j <= lit
          BY <1>2, <2>1, <2>3
    <3>2. Highest(W) = lit
      <4> HIDE DEF W, lit
      <4> QED
          BY <3>1, HighestIs
    <3>3. InheritedLight(chain) = chain[Highest(W)].light
      <4>1. W # {}
            BY <3>1
      <4> QED
          BY <4>1 DEF InheritedLight
    <3>4. NearestLight(chain) = chain[lit].light
          BY <1>4 DEF NearestLight
    <3> QED
        BY <3>2, <3>3, <3>4 DEF NearOrFar
  <2>4. CASE lit < n - LINEAGE_HOPS
    <3>1. W = {}
          BY <1>1, <1>2, <2>1, <2>2, <2>4
    <3>2. InheritedLight(chain) = <<>>
          BY <3>1 DEF InheritedLight
    <3> HIDE DEF lit
    <3>a. saturated = IF Source.kind = "saturation" THEN 1 ELSE 0
          BY <1>1
    <3> HIDE DEF saturated
    <3>3. \E k \in Nat : /\ lit + k <= n /\ k >= LINEAGE_HOPS - saturated
                         /\ k > 0 => Rank(chain[lit + k]) = 0
      <4>1. CASE IsCutRedraw(Source)
        <5>1. Rank(chain[n]) = 0 /\ saturated = 0
              BY <1>1, <3>a, <4>1, Ranks DEF IsCutRedraw, DERIVED_KINDS
        <5>2. n - lit \in Nat /\ lit + (n - lit) = n /\ n - lit >= LINEAGE_HOPS
              BY <1>1, <2>2, <2>4
        <5> DEFINE k == n - lit
        <5>3. k \in Nat /\ lit + k = n /\ k >= LINEAGE_HOPS - saturated
              BY <1>1, <5>1, <5>2
        <5> QED
            BY <1>1, <5>1, <5>3
      <4>2. CASE Source.kind = "deliver"
        <5>1. Rank(chain[n]) = 1 /\ saturated = 0
              BY <1>1, <3>a, <4>2, Ranks
        <5>2. n - 1 \in DOMAIN chain /\ Rank(chain[n - 1]) = 0
          <6>1. n > 1 /\ n - 1 \in DOMAIN chain
                BY <1>1, <5>1, MadeFrom
          <6> QED
              BY <1>1, <5>1, <6>1, Numbered DEF OrderedInv, Sorted
        <5>3. /\ (n - 1) - lit \in Nat /\ lit + ((n - 1) - lit) = n - 1
              /\ (n - 1) - lit >= LINEAGE_HOPS /\ n - 1 <= n
              BY <1>1, <2>2, <2>4
        <5> DEFINE k == (n - 1) - lit
        <5>4. k \in Nat /\ lit + k = n - 1 /\ lit + k <= n /\ k >= LINEAGE_HOPS - saturated
              BY <1>1, <5>1, <5>3
        <5> QED
            BY <5>2, <5>4
      <4>3. CASE Source.kind = "saturation"
        <5>1. Rank(chain[n]) = 2 /\ saturated = 1
              BY <1>1, <3>a, <4>3, Ranks
        <5>2. n > 1 /\ n - 1 \in DOMAIN chain
              /\ (IsCutRedraw(chain[n - 1]) \/ Rank(chain[n - 1]) = 1)
              BY <1>1, <5>1, MadeFrom
        <5>3. CASE IsCutRedraw(chain[n - 1])
          <6>1. Rank(chain[n - 1]) = 0
                BY <5>3, Ranks DEF IsCutRedraw, DERIVED_KINDS
          <6>2. /\ (n - 1) - lit \in Nat /\ lit + ((n - 1) - lit) = n - 1
                /\ (n - 1) - lit >= LINEAGE_HOPS - 1 /\ n - 1 <= n
                BY <1>1, <2>2, <2>4
          <6> QED
              BY <5>1, <6>1, <6>2
        <5>4. CASE Rank(chain[n - 1]) = 1
          <6>1. n - 1 > 1 /\ (n - 1) - 1 \in DOMAIN chain
                BY <5>2, <5>4, MadeFrom
          <6>2. n - 2 \in DOMAIN chain /\ n - 2 < n - 1
                BY <1>1, <6>1
          <6>3. Rank(chain[n - 2]) = 0
                BY <5>2, <5>4, <6>2, Numbered DEF OrderedInv, Sorted
          <6>4. CASE n - 2 >= lit
            <7>1. /\ (n - 2) - lit \in Nat /\ lit + ((n - 2) - lit) = n - 2
                  /\ (n - 2) - lit >= LINEAGE_HOPS - 1 /\ n - 2 <= n
                  BY <1>1, <2>2, <2>4, <6>4
            <7> QED
                BY <5>1, <6>3, <7>1
          <6>5. CASE n - 2 < lit
            <7>1. LINEAGE_HOPS - 1 <= 0 /\ lit + 0 <= n
                  BY <1>1, <2>2, <2>4, <6>5
            <7> QED
                BY <5>1, <7>1
          <6> QED
              BY <1>1, <2>2, <6>4, <6>5
        <5> QED
            BY <5>2, <5>3, <5>4
      <4> QED
          BY <4>1, <4>2, <4>3
    <3>4. PICK k \in Nat : /\ lit + k <= n /\ k >= LINEAGE_HOPS - saturated
                           /\ k > 0 => Rank(chain[lit + k]) = 0
          BY <3>3
    <3>5. \A j \in (lit + 1)..(lit + k) : chain[j].kind = "redraw"
      <4> SUFFICES ASSUME NEW j \in (lit + 1)..(lit + k)
                   PROVE  chain[j].kind = "redraw"
          OBVIOUS
      <4>1. k > 0 /\ j \in DOMAIN chain /\ lit + k \in DOMAIN chain /\ j > 2 /\ j <= lit + k
            BY <1>1, <2>2, <3>4
      <4>2. Rank(chain[j]) = 0
        <5>1. j = lit + k \/ Rank(chain[j]) <= Rank(chain[lit + k])
              BY <1>1, <4>1, Numbered DEF OrderedInv, Sorted
        <5> QED
            BY <3>4, <4>1, <5>1, Numbered
      <4> QED
          BY <4>1, <4>2, LaterRedraws
    <3>6. Redraws(SubSeq(chain, lit + 1, n)) >= k
          BY <1>1, <2>2, <3>4, <3>5, RedrawsOver
    <3>7. Redraws(SubSeq(chain, lit + 1, n)) \in Nat
      <4> DEFINE c == SubSeq(chain, lit + 1, n)
                 T == {i \in DOMAIN c : c[i].kind = "redraw"}
      <4>1. IsFiniteSet(T)
        <5> DEFINE S == {chain[j] : j \in DOMAIN chain}
        <5>1. \A j \in (lit + 1)..n : chain[j] \in S
              BY <1>1, <2>2
        <5> HIDE DEF S
        <5>2. c \in Seq(S)
              BY <1>1, <2>2, <5>1, SubSeqProperties
        <5> HIDE DEF c
        <5>3. Len(c) \in Nat /\ DOMAIN c = 1..Len(c)
              BY <5>2, LenProperties
        <5>4. IsFiniteSet(1..Len(c)) /\ T \in SUBSET (1..Len(c))
              BY <5>3, FS_Interval
        <5> QED
            BY <5>4, FS_Subset
      <4>2. Cardinality(T) \in Nat
            BY <4>1, FS_CardinalityType
      <4> QED
          BY <4>2 DEF Redraws
    <3>8. Redraws(SubSeq(chain, lit + 1, n)) >= LINEAGE_HOPS - saturated
          BY <1>1, <3>a, <3>4, <3>6, <3>7
    <3> QED
        BY <3>2, <3>8 DEF NearOrFar, lit, saturated
  <2> QED
      BY <1>1, <2>2, <2>3, <2>4
<1> QED
    BY <1>3, <1>4

\* Where the transparent deliveries of a lineage are lit from.
Falls(p)  == IF p.light # <<>> THEN Str(p.light[2]) ELSE p.stroke
Thrown(c) == {Falls(c[i]) : i \in {j \in DOMAIN c : c[j].kind = "deliver" /\ c[j].transparent}}
ShadowFits(c, light, shadow) ==
    {shadow} = IF \E f \in Thrown(c) : OneOf(f, DIRECTIONS) THEN Thrown(c)
               ELSE IF light # <<>> THEN {Str(light[2])} ELSE {Null}

RowLit ==
    /\ row.kind = "deliver" /\ Made =>
          LET given == ArgumentsOf.deliver[row.posted].light
          IN  Last(chain).light = IF given # <<>> THEN given ELSE NearestLight(Before)
    /\ row.kind = "stage" /\ Made /\ ArgumentsOf.stage[row.posted].inherit_light =>
          NearOrFar(Before, row.light)
    /\ row.kind = "stage" /\ Made /\ ArgumentsOf.stage[row.posted].inherit_shadow =>
          ShadowFits(chain, row.light, row.shadow)

\* No string is null.
LEMMA NullIsNoStr ==
    /\ \A s : Str(s) # Null /\ (OneOf(Str(s), DIRECTIONS) <=> s \in DIRECTIONS)
    /\ \A f : OneOf(f, DIRECTIONS) => f # Null
<1>1. \A s : Str(s)[1] = "str" /\ Str(s)[2] = s
      BY DEF Str
<1>2. Null[1] = "null"
      BY DEF Null
<1> QED
    BY <1>1, <1>2 DEF OneOf, Is

\* A stage throws the shadow of the transparent delivery it stands on.
LEMMA ShadowOfSource ==
    ASSUME StudioInv, OrderedInv, AllLit,
           IsCutRedraw(Source) \/ Source.kind \in {"deliver", "saturation"}
    PROVE  LET thrown == InheritedShadow(Delivery(chain))
           IN  IF \E f \in Thrown(chain) : OneOf(f, DIRECTIONS)
               THEN thrown # Null /\ Thrown(chain) = {thrown}
               ELSE thrown = Null
<1> DEFINE n == Len(chain)
           D == Delivery(chain)
           T == Thrown(chain)
<1>1. n \in Nat \ {0} /\ n \in DOMAIN chain /\ DOMAIN chain = 1..n /\ Source = chain[n]
      BY Numbered
<1>2. PICK d \in 1..n : /\ D = chain[d] /\ (IsCutRedraw(D) \/ D.kind = "deliver")
                        /\ \A j \in (d + 1)..n : chain[j].kind = "saturation"
  <2>1. CASE Source.kind # "saturation"
    <3>1. D = chain[n]
          BY <1>1, <2>1 DEF Delivery
    <3> QED
        BY <1>1, <2>1, <3>1
  <2>2. CASE Source.kind = "saturation"
    <3>1. D = chain[n - 1]
          BY <1>1, <2>2 DEF Delivery
    <3>2. n - 1 \in DOMAIN chain /\ (IsCutRedraw(chain[n - 1]) \/ chain[n - 1].kind = "deliver")
          BY <1>1, <2>2, RestsSomewhere
    <3>3. \A N \in Int : \A j \in ((N - 1) + 1)..N : j = N
          OBVIOUS
    <3> QED
        BY <1>1, <2>2, <3>1, <3>2, <3>3
  <2> QED
      BY <2>1, <2>2
<1>3. \A j \in 1..n : chain[j].kind = "deliver" => j = d /\ D.kind = "deliver"
  <2> SUFFICES ASSUME NEW j \in 1..n, chain[j].kind = "deliver"
               PROVE  j = d
      BY <1>2
  <2>1. Rank(chain[j]) = 1 /\ Rank(chain[d]) \in {0, 1}
        BY <1>2, Ranks DEF IsCutRedraw, DERIVED_KINDS
  <2>2. ~(j > d)
        BY <1>2
  <2>3. ~(j < d)
        BY <1>1, <1>2, <2>1 DEF OrderedInv, Sorted
  <2> QED
      BY <2>2, <2>3
<1> HIDE DEF D
<1>4. CASE D.kind = "deliver" /\ D.transparent
  <2>1. T = {Falls(D)}
        BY <1>1, <1>2, <1>3, <1>4 DEF Thrown
  <2>2. ~IsCutRedraw(D)
        BY <1>4 DEF IsCutRedraw
  <2>3. InheritedShadow(D) = IF D.light # <<>> THEN Str(D.light[2])
                             ELSE IF OneOf(D.stroke, DIRECTIONS) THEN D.stroke ELSE Null
        BY <1>4, <2>2, Zenon DEF InheritedShadow
  <2>4. Lit(D)
        BY <1>1, <1>2 DEF AllLit
  <2>5. CASE D.light # <<>>
    <3>1. Falls(D) = Str(D.light[2]) /\ InheritedShadow(D) = Str(D.light[2])
          BY <2>3, <2>5 DEF Falls
    <3>2. OneOf(Falls(D), DIRECTIONS) /\ InheritedShadow(D) # Null
          BY <2>4, <2>5, <3>1, NullIsNoStr DEF Lit
    <3> QED
        BY <2>1, <3>1, <3>2 DEF D
  <2>6. CASE D.light = <<>> /\ OneOf(D.stroke, DIRECTIONS)
    <3>1. Falls(D) = D.stroke /\ InheritedShadow(D) = D.stroke
          BY <2>3, <2>6 DEF Falls
    <3>2. InheritedShadow(D) # Null
          BY <2>6, <3>1, NullIsNoStr
    <3> QED
        BY <2>1, <2>6, <3>1, <3>2 DEF D
  <2>7. CASE D.light = <<>> /\ ~OneOf(D.stroke, DIRECTIONS)
    <3>1. Falls(D) = D.stroke /\ InheritedShadow(D) = Null
          BY <2>3, <2>7 DEF Falls
    <3> QED
        BY <2>1, <2>7, <3>1 DEF D
  <2> QED
      BY <2>5, <2>6, <2>7
<1>5. CASE ~(D.kind = "deliver" /\ D.transparent)
  <2>1. T = {}
        BY <1>1, <1>2, <1>3, <1>5 DEF Thrown
  <2>2. IsCutRedraw(D) \/ ~D.transparent
        BY <1>2, <1>5
  <2>3. InheritedShadow(D) = Null
        BY <2>2 DEF InheritedShadow
  <2> QED
      BY <2>1, <2>3 DEF D
<1> QED
    BY <1>4, <1>5

\* A step that adds no delivery throws no other shadow.
LEMMA ThrownStays ==
    ASSUME StudioInv, NEW q, chain' = Append(chain, q), q.kind # "deliver"
    PROVE  Thrown(chain') = Thrown(chain)
<1>1. /\ DOMAIN chain' = 1..(Len(chain) + 1) /\ DOMAIN chain = 1..Len(chain)
      /\ Len(chain) \in Nat
      /\ \A m \in 1..Len(chain) : chain'[m] = chain[m]
      /\ chain'[Len(chain) + 1] = q
      BY Appended, Numbered
<1> DEFINE Cast(e) == e.kind = "deliver" /\ e.transparent
           A == {j \in DOMAIN chain : Cast(chain[j])}
           B == {j \in DOMAIN chain' : Cast(chain'[j])}
<1>2. ~Cast(q)
      OBVIOUS
<1>3. Thrown(chain) = {Falls(chain[j]) : j \in A}
      BY DEF Thrown
<1>4. Thrown(chain') = {Falls(chain'[j]) : j \in B}
      BY DEF Thrown
<1> HIDE DEF Cast
<1>5. A = B
      BY <1>1, <1>2
<1>6. \A j \in A : chain'[j] = chain[j]
      BY <1>1
<1> HIDE DEF A, B
<1>7. {Falls(chain'[j]) : j \in B} = {Falls(chain[j]) : j \in A}
      BY <1>5, <1>6
<1> QED
    BY <1>3, <1>4, <1>7

\* The shadow of a stage.
LEMMA StageShadowFits ==
    ASSUME StudioInv, OrderedInv, AllLit, NEW v, ArgumentsOf.stage[v].inherit_shadow,
           IsCutRedraw(Source) \/ Source.kind \in {"deliver", "saturation"}
    PROVE  ShadowFits(chain, StageLight(v), StageShadow(v))
<1> DEFINE thrown == InheritedShadow(Delivery(chain))
           light == StageLight(v)
           directed == \E f \in Thrown(chain) : OneOf(f, DIRECTIONS)
<1>1. IF directed THEN thrown # Null /\ Thrown(chain) = {thrown} ELSE thrown = Null
      BY ShadowOfSource
<1>2. StageShadow(v) = IF thrown # Null THEN thrown
                       ELSE IF light # <<>> THEN Str(light[2]) ELSE Null
      BY Zenon DEF StageShadow
<1> HIDE DEF thrown, light
<1>3. CASE directed
  <2>1. StageShadow(v) = thrown
        BY <1>1, <1>2, <1>3
  <2>2. {StageShadow(v)} = Thrown(chain)
        BY <1>1, <1>3, <2>1
  <2> QED
      BY <1>3, <2>2 DEF ShadowFits
<1>4. CASE ~directed
  <2>1. StageShadow(v) = IF light # <<>> THEN Str(light[2]) ELSE Null
        BY <1>1, <1>2, <1>4
  <2>2. {StageShadow(v)} = IF light # <<>> THEN {Str(light[2])} ELSE {Null}
        BY <2>1
  <2> QED
      BY <1>4, <2>2 DEF ShadowFits, light
<1> QED
    BY <1>3, <1>4

\* The light a stage on a pattern inherits.
LEMMA StageLightNear ==
    ASSUME StudioInv, OrderedInv, NEW v, StageRefusal(v) = "none",
           ArgumentsOf.stage[v].inherit_light
    PROVE  NearOrFar(chain, StageLight(v))
<1> DEFINE a == StageArguments(v)
<1>1. v \in Taken.stage /\ (IsCutRedraw(Source) \/ Source.kind \in {"deliver", "saturation"})
      BY Zenon DEF StageRefusal
<1>2. ArgumentsOf.stage[v] = a
      BY <1>1 DEF Taken, ArgumentsOf, Arguments, KINDS
<1>3. a.inherit_light = (~("photo" \in DOMAIN Body(v)) /\ "light" \notin DOMAIN Body(v))
      BY Zenon DEF StageArguments
<1>4. a.photo = Get(Body(v), "photo", Null)
      BY DEF StageArguments
<1>5. a.photo = Null
      BY <1>2, <1>3, <1>4 DEF Get
<1>6. StageLight(v) = InheritedLight(chain)
      BY <1>2, <1>5 DEF StageLight
<1> QED
    BY <1>1, <1>6, StageInherits

\* An operation lights its picture, and throws its shadow, as it says.
LEMMA RowLitStep ==
    ASSUME StudioInv, OrderedInv, AllLit, NEW v,
           Redraw(v) \/ Deliver(v) \/ Dof(v) \/ Lens(v) \/ Photo(v) \/ Stage(v) \/ Lighting(v)
               \/ Saturation(v)
    PROVE  RowLit'
<1>0. ASSUME NEW kind, NEW why, why \notin {"done", "torn"}, Refuse(kind, why)
      PROVE  RowLit'
  <2>1. row'.how = why
        BY <1>0 DEF Refuse, Idle
  <2> QED
      BY <1>0, <2>1 DEF RowLit, Made
<1>a. ASSUME NEW p, NEW X, NEW done, done.kind \notin {"deliver", "stage"}, Records(p, X, done)
      PROVE  RowLit'
  <2>1. row'.kind = done.kind
        BY <1>a DEF Records, Answered
  <2> QED
      BY <1>a, <2>1 DEF RowLit
<1>1. CASE Redraw(v)
  <2>1. CASE RedrawRefusal(v) # "none"
        BY <1>0, <1>1, <2>1, RefusalsRefuse DEF Redraw
  <2> QED
      BY <1>a, <1>1, <2>1, RedrawRecords, RowHas
<1>2. CASE Deliver(v)
  <2>1. CASE DeliverRefusal(v) # "none"
        BY <1>0, <1>2, <2>1, RefusalsRefuse DEF Deliver
  <2>2. CASE DeliverRefusal(v) = "none"
    <3>1. PICK X, jobs : Records(DeliverPicture(v), X,
                                 Row("deliver", v, "done", jobs, {}, ResolvedOf.deliver[v]))
          BY <1>2, <2>2, DeliverRecords
    <3>2. row'.kind = "deliver" /\ row'.posted = v /\ row'.how \in {"done", "torn"}
          BY <3>1, RowHas DEF Records, Answered
    <3>3. PICK q : Alike(q, DeliverPicture(v)) /\ chain' = Append(chain, q)
          BY <3>1 DEF Records
    <3>4. Made' /\ Before' = chain
          BY <3>2, <3>3, BeforeAdded DEF Made
    <3>5. Last(chain') = q
          BY <3>3, Appended DEF Last
    <3>6. q.light = LightDelivered(v)
          BY <3>3 DEF Alike, DeliverPicture, Picture
    <3>7. InheritedLight(chain) = NearestLight(chain)
      <4>1. ~IsDelivered(Source)
            BY <2>2, Zenon DEF DeliverRefusal
      <4> QED
          BY <4>1, InheritedIsNearest
    <3>8. LET given == ArgumentsOf.deliver[v].light
          IN  q.light = IF given # <<>> THEN given ELSE NearestLight(chain)
          BY <3>6, <3>7 DEF LightDelivered
    <3> QED
        BY <3>2, <3>4, <3>5, <3>8 DEF RowLit
  <2> QED
      BY <2>1, <2>2
<1>3. CASE Dof(v)
  <2>1. CASE DofRefusal(v) # "none"
        BY <1>0, <1>3, <2>1, RefusalsRefuse DEF Dof
  <2>2. \A jobs : [Row("dof", v, "done", jobs, LayerRoles(chain), ResolvedOf.dof[v])
                       EXCEPT !.setting = Setting(chain)].kind = "dof"
        BY RowHas DEF ROW
  <2> QED
      BY <1>a, <1>3, <2>1, <2>2, DofRecords
<1>4. CASE Lens(v)
  <2>1. CASE LensRefusal(v) # "none"
        BY <1>0, <1>4, <2>1, RefusalsRefuse DEF Lens
  <2> QED
      BY <1>a, <1>4, <2>1, LensRecords, RowHas
<1>5. CASE Photo(v)
  <2>1. CASE PhotoRefusal(v) # "none"
        BY <1>0, <1>5, <2>1, RefusalsRefuse DEF Photo
  <2> QED
      BY <1>a, <1>5, <2>1, PhotoRecords, RowHas
<1>6. CASE Stage(v)
  <2>1. CASE StageRefusal(v) # "none"
        BY <1>0, <1>6, <2>1, RefusalsRefuse DEF Stage
  <2>2. CASE StageRefusal(v) = "none"
    <3>1. IsCutRedraw(Source) \/ Source.kind \in {"deliver", "saturation"}
          BY <2>2, Zenon DEF StageRefusal
    <3>2. CASE \E jobs : row' = Row("stage", v, "render", jobs, FIGURE_ROLES, Null)
      <4>1. row'.how = "render"
            BY <3>2, RowHas
      <4> QED
          BY <4>1 DEF RowLit, Made
    <3>3. ASSUME NEW jobs, NEW resolved,
                 Records(StagePicture(v), ToSet(LayerSeq(TRUE)),
                         [Row("stage", v, "done", jobs, FIGURE_ROLES, resolved)
                              EXCEPT !.light = StageLight(v), !.shadow = StageShadow(v)])
          PROVE  RowLit'
      <4> DEFINE done == [Row("stage", v, "done", jobs, FIGURE_ROLES, resolved)
                              EXCEPT !.light = StageLight(v), !.shadow = StageShadow(v)]
      <4>1. /\ done.how = "done" /\ done.posted = v /\ done.light = StageLight(v)
            /\ done.shadow = StageShadow(v) /\ done.kind = "stage"
            BY RowHas DEF ROW
      <4>2. Records(StagePicture(v), ToSet(LayerSeq(TRUE)), done)
            BY <3>3
      <4> HIDE DEF done
      <4>3. /\ row'.kind = "stage" /\ row'.posted = v /\ row'.how \in {"done", "torn"}
            /\ row'.light = StageLight(v) /\ row'.shadow = StageShadow(v)
            BY <4>1, <4>2 DEF Records, Answered
      <4>4. PICK q : Alike(q, StagePicture(v)) /\ chain' = Append(chain, q)
            BY <4>2 DEF Records
      <4>5. Made' /\ Before' = chain
            BY <4>3, <4>4, BeforeAdded DEF Made
      <4>6. Thrown(chain') = Thrown(chain)
        <5>1. q.kind = "stage"
              BY <4>4 DEF Alike, StagePicture, Picture
        <5> QED
            BY <4>4, <5>1, ThrownStays
      <4>7. ArgumentsOf.stage[v].inherit_light => NearOrFar(chain, row'.light)
            BY <2>2, <4>3, StageLightNear
      <4>8. ArgumentsOf.stage[v].inherit_shadow => ShadowFits(chain, row'.light, row'.shadow)
            BY <3>1, <4>3, StageShadowFits
      <4>9. ArgumentsOf.stage[v].inherit_shadow => ShadowFits(chain', row'.light, row'.shadow)
            BY <4>6, <4>8 DEF ShadowFits
      <4> QED
          BY <4>3, <4>5, <4>7, <4>9 DEF RowLit
    <3> QED
        BY <1>6, <2>2, <3>2, <3>3, StageRecords
  <2> QED
      BY <2>1, <2>2
<1>7. CASE Lighting(v)
  <2>1. CASE LightingRefusal(v) # "none"
        BY <1>0, <1>7, <2>1, RefusalsRefuse DEF Lighting
  <2> QED
      BY <1>a, <1>7, <2>1, LightingRecords, RowHas
<1>8. CASE Saturation(v)
  <2>1. CASE SaturationRefusal(v) # "none"
        BY <1>0, <1>8, <2>1, RefusalsRefuse DEF Saturation
  <2> QED
      BY <1>a, <1>8, <2>1, SaturationRecords, RowHas
<1> QED
    BY <1>1, <1>2, <1>3, <1>4, <1>5, <1>6, <1>7, <1>8

\* Every step keeps the row's light and shadow what they are to be.
LEMMA RowLitKept ==
    ASSUME StudioInv, OrderedInv, AllLit, RowInv, RowLit, [Next]_vars
    PROVE  RowLit'
<1>1. CASE UNCHANGED vars
  <2>1. chain' = chain /\ row' = row
        BY <1>1 DEF vars
  <2> QED
      BY <2>1 DEF RowLit, Made, Before
<1>2. CASE Report
  <2>1. row'.how = ""
        BY <1>2 DEF Report, Idle
  <2> QED
      BY <2>1 DEF RowLit, Made
<1>3. CASE Again
  <2>1. /\ row.how = "torn" /\ row'.how = "done" /\ row'.kind = row.kind
        /\ row'.posted = row.posted /\ row'.light = row.light /\ row'.shadow = row.shadow
        BY <1>3 DEF Again, RowInv, ROW
  <2>2. Made /\ Made' /\ Before' = Before
        BY <1>3, <2>1, BeforeAgain DEF Made, Before
  <2>3. /\ Len(chain') = Len(chain) /\ DOMAIN chain' = DOMAIN chain
        /\ \A m \in DOMAIN chain : chain'[m] = chain[m] \/ Alike(chain'[m], chain[m])
        /\ Len(chain) \in DOMAIN chain
        BY <1>3, Completes, Numbered
  <2>4. \A m \in DOMAIN chain : /\ chain'[m].kind = chain[m].kind
                                /\ chain'[m].transparent = chain[m].transparent
                                /\ chain'[m].light = chain[m].light
                                /\ chain'[m].stroke = chain[m].stroke
        BY <2>3 DEF Alike
  <2>5. Last(chain').light = Last(chain).light
        BY <2>3, <2>4 DEF Last
  <2>6. Thrown(chain') = Thrown(chain)
    <3> DEFINE A == {j \in DOMAIN chain : chain[j].kind = "deliver" /\ chain[j].transparent}
               B == {j \in DOMAIN chain' : chain'[j].kind = "deliver" /\ chain'[j].transparent}
    <3>1. A = B
          BY <2>3, <2>4
    <3>2. \A j \in A : Falls(chain'[j]) = Falls(chain[j])
          BY <2>4 DEF Falls
    <3> HIDE DEF A, B
    <3>3. {Falls(chain'[j]) : j \in B} = {Falls(chain[j]) : j \in A}
          BY <3>1, <3>2
    <3> QED
        BY <3>3 DEF Thrown, A, B
  <2>7. ShadowFits(chain, row.light, row.shadow) => ShadowFits(chain', row.light, row.shadow)
        BY <2>6 DEF ShadowFits
  <2> QED
      BY <2>1, <2>2, <2>5, <2>7 DEF RowLit
<1> QED
    BY <1>1, <1>2, <1>3, RowLitStep
    DEF Next, DoRedraw, DoDeliver, DoDof, DoLens, DoPhoto, DoStage, DoLighting, DoSaturation

\* A delivery is lit by its own light or the nearest of its lineage, a stage
\* too as far as the records are looked at, and shadow and stroke go with it.
THEOREM LightSafe == Spec => []LightIsInherited
<1>1. ASSUME Init
      PROVE  RowLit
  <2>1. row.how = ""
        BY <1>1 DEF Init, Idle
  <2> QED
      BY <2>1 DEF RowLit, Made
<1>2. Spec => []RowLit
      BY <1>1, RowLitKept, LineageSafe, OrderedSafe, LitSafe, RowsSafe, PTL DEF Spec
<1>3. ASSUME RowLit, AllLit
      PROVE  LightIsInherited
  <2>1. row.kind = "deliver" /\ Made =>
          LET given == ArgumentsOf.deliver[row.posted].light
          IN  Last(chain).light = IF given # <<>> THEN given ELSE NearestLight(Before)
        BY <1>3 DEF RowLit
  <2>2. row.kind = "stage" /\ Made /\ ArgumentsOf.stage[row.posted].inherit_light =>
          NearOrFar(Before, row.light)
        BY <1>3 DEF RowLit
  <2>3. row.kind = "stage" /\ Made /\ ArgumentsOf.stage[row.posted].inherit_shadow =>
          ShadowFits(chain, row.light, row.shadow)
        BY <1>3 DEF RowLit
  <2>4. \A i \in DOMAIN chain : Agrees(chain[i])
        BY <1>3 DEF AllLit
  <2> QED
      BY <2>1, <2>2, <2>3, <2>4, Zenon
      DEF LightIsInherited, NearOrFar, ShadowFits, Thrown, Falls, Agrees
<1> QED
    BY <1>2, <1>3, LitSafe, PTL

-----------------------------------------------------------------------------
(* The numbers of a row's options.                                         *)

Fits(node, x) == NodeRanges[node][1] <= x /\ x <= NodeRanges[node][2]
AllFit(kind, a) == \A n \in Numbers(kind, a) : Fits(n[1], n[2])

\* The ranges of the nodes.
LEMMA NodesTake ==
    /\ \A x \in Int : 140 <= x /\ x <= 2200 => Fits("f_number", x) /\ Fits("viewfinder_f", x)
    /\ \A x \in Int : 0 <= x /\ x <= 100 =>
          Fits("fraction", x) /\ Fits("bokeh", x) /\ Fits("nearer", x) /\ Fits("lighting", x)
            /\ Fits("saturation", x)
    /\ \A x \in Int : -100 <= x /\ x <= 100 => Fits("tilt", x) /\ Fits("lens", x)
    /\ \A x \in Int : 0 <= x /\ x <= 150 => Fits("place_y", x)
    /\ \A x \in Int : 5 <= x /\ x <= 150 => Fits("height", x)
    /\ \A x \in Int : 5 <= x /\ x <= 100 => Fits("radius", x)
    /\ \A x \in Int : 100 <= x /\ x <= 500 => Fits("gain", x)
BY DEF Fits, NodeRanges

\* A number of the catalog is in its range, whether it is given or not.
LEMMA RangedFits ==
    ASSUME NEW o, NEW key, NEW range, RangedOk(o, key, range)
    PROVE  LET x == Ranged(o, key, range)[2]
           IN  x \in Int /\ RANGES[range][1] <= x /\ x <= RANGES[range][2]
BY DEF RangedOk, Ranged, Within, IsNumber, AsFloat, Float

\* The ranges of the catalog are the nodes'.
LEMMA CatalogFits ==
    ASSUME NEW x \in Int
    PROVE  /\ \A range \in {"f_number", "height", "nearer", "tilt", "bokeh", "lighting", "saturation",
                            "lens", "radius"} :
                 RANGES[range][1] <= x /\ x <= RANGES[range][2] => Fits(range, x)
           /\ RANGES["f_number"][1] <= x /\ x <= RANGES["f_number"][2] => Fits("viewfinder_f", x)
BY DEF RANGES, Fits, NodeRanges

\* A point that is accepted is one of the picture, or a little under it.
LEMMA PointsFit ==
    ASSUME NEW v, NEW max_y \in {100, 150}, v = Null \/ IsPoint(v, max_y)
    PROVE  /\ v # Null => /\ AsPoint(v)[1] = "list"
                          /\ At(AsPoint(v), 1) \in 0..100 /\ At(AsPoint(v), 2) \in 0..max_y
           /\ v = Null => AsPoint(v) = Null
<1>1. CASE v = Null
      BY <1>1 DEF AsPoint
<1>2. CASE v # Null
  <2>1. /\ v[2][1][2] \in Int /\ 0 <= v[2][1][2] /\ v[2][1][2] <= 100
        /\ v[2][2][2] \in Int /\ 0 <= v[2][2][2] /\ v[2][2][2] <= max_y
        BY <1>2 DEF IsPoint, Within, IsNumber
  <2>2. AsPoint(v) = <<"list", <<AsFloat(v[2][1]), AsFloat(v[2][2])>>>>
        BY <1>2 DEF AsPoint, List
  <2>3. AsPoint(v)[1] = "list" /\ AsPoint(v)[2] = <<AsFloat(v[2][1]), AsFloat(v[2][2])>>
        BY <2>2
  <2>4. At(AsPoint(v), 1) = v[2][1][2] /\ At(AsPoint(v), 2) = v[2][2][2]
        BY <2>3 DEF At, AsFloat, Float
  <2> QED
      BY <1>2, <2>1, <2>3, <2>4
<1> QED
    BY <1>1, <1>2

\* Such a point is one the nodes take.
LEMMA PointFits ==
    ASSUME NEW v, v = Null \/ IsPoint(v, 100)
    PROVE  \A n \in Point(AsPoint(v)) : Fits(n[1], n[2])
<1>1. CASE v = Null
      BY <1>1, PointsFit DEF Point, Null
<1>2. CASE v # Null
  <2>1. At(AsPoint(v), 1) \in 0..100 /\ At(AsPoint(v), 2) \in 0..100
        BY <1>2, PointsFit
  <2>2. \A n \in Point(AsPoint(v)) : n[1] = "fraction" /\ n[2] \in 0..100
        BY <2>1 DEF Point
  <2> QED
      BY <2>2, NodesTake
<1> QED
    BY <1>1, <1>2

\* So is a number of the catalog.
LEMMA RangedTaken ==
    ASSUME NEW o, NEW range \in {"f_number", "height", "nearer", "tilt", "bokeh", "lighting",
                                 "saturation", "lens", "radius"},
           NEW key, RangedOk(o, key, range)
    PROVE  /\ Fits(range, Ranged(o, key, range)[2])
           /\ range = "f_number" => Fits("viewfinder_f", Ranged(o, key, range)[2])
BY RangedFits, CatalogFits

\* A delivery's gain.
LEMMA DeliverFits ==
    ASSUME NEW v, DeliverAccepts(v)
    PROVE  AllFit("deliver", DeliverArguments(v))
<1> DEFINE see_through == Get(Body(v), "see_through", Null)
           a == DeliverArguments(v)
<1>1. see_through = Null \/ Within(see_through, 100, 500)
      BY Zenon DEF DeliverAccepts
<1>2. a.see_through = IF see_through = Null THEN Float(100) ELSE AsFloat(see_through)
      BY DEF DeliverArguments
<1> HIDE DEF see_through, a
<1>3. a.see_through[2] \in Int /\ 100 <= a.see_through[2] /\ a.see_through[2] <= 500
      BY <1>1, <1>2 DEF Within, IsNumber, AsFloat, Float
<1>4. Numbers("deliver", a) = {<<"gain", a.see_through[2]>>}
      BY DEF Numbers
<1> QED
    BY <1>3, <1>4, NodesTake DEF AllFit, a

\* What a blur is given of a photo.
LEMMA BlurredFits ==
    ASSUME NEW a, NEW o, PointOk(o, "stand_at", Null, 100),
           \A k \in {"nearer", "tilt", "bokeh"} : RangedOk(o, k, k),
           a.stand_at = AsPoint(Get(o, "stand_at", Null)),
           a.nearer = Ranged(o, "nearer", "nearer"), a.tilt = Ranged(o, "tilt", "tilt"),
           a.bokeh = Ranged(o, "bokeh", "bokeh")
    PROVE  \A n \in Blurred(a) : Fits(n[1], n[2])
<1>1. \A n \in Point(a.stand_at) : Fits(n[1], n[2])
      BY PointFits DEF PointOk
<1>2. Fits("nearer", a.nearer[2]) /\ Fits("tilt", a.tilt[2]) /\ Fits("bokeh", a.bokeh[2])
      BY RangedTaken
<1>3. Blurred(a) = {<<"nearer", a.nearer[2]>>, <<"tilt", a.tilt[2]>>, <<"bokeh", a.bokeh[2]>>}
                       \cup Point(a.stand_at)
      BY DEF Blurred
<1> QED
    BY <1>1, <1>2, <1>3

\* Where a figure stands in a photo.
LEMMA PlacedFits ==
    ASSUME NEW a, NEW o, PointOk(o, "place", PLACE_DEFAULT, PLACE_MAX_Y),
           RangedOk(o, "height", "height"),
           a.place = AsPoint(Get(o, "place", PLACE_DEFAULT)), a.place # Null,
           a.height = Ranged(o, "height", "height")
    PROVE  \A n \in Placed(a) : Fits(n[1], n[2])
<1>1. At(a.place, 1) \in 0..100 /\ At(a.place, 2) \in 0..150
  <2>1. Get(o, "place", PLACE_DEFAULT) = Null \/ IsPoint(Get(o, "place", PLACE_DEFAULT), 150)
        BY DEF PointOk, PLACE_MAX_Y
  <2> QED
      BY <2>1, PointsFit
<1>2. Fits("height", a.height[2])
      BY RangedTaken
<1>3. Fits("fraction", At(a.place, 1)) /\ Fits("place_y", At(a.place, 2))
      BY <1>1, NodesTake
<1>4. Placed(a) = {<<"fraction", At(a.place, 1)>>, <<"place_y", At(a.place, 2)>>,
                   <<"height", a.height[2]>>}
      BY DEF Placed
<1> QED
    BY <1>2, <1>3, <1>4

\* A blur's numbers.
LEMMA DofFits ==
    ASSUME NEW v, DofAccepts(v)
    PROVE  AllFit("dof", DofArguments(v))
<1> DEFINE o == Body(v)
           a == DofArguments(v)
           shot == [stand_at |-> AsPoint(Get(o, "stand_at", Null)),
                    nearer |-> Ranged(o, "nearer", "nearer"), tilt |-> Ranged(o, "tilt", "tilt"),
                    bokeh |-> Ranged(o, "bokeh", "bokeh"),
                    focal_length |-> Get(o, "focal_length", Str("85mm"))]
<1>1. /\ IsPoint(Get(o, "focus", Null), 100) /\ RangedOk(o, "f_number", "f_number")
      /\ DOMAIN o \cap DOF_PHOTO_OPTIONS # {} =>
            /\ PointOk(o, "stand_at", Null, 100)
            /\ \A k \in {"nearer", "tilt", "bokeh"} : RangedOk(o, k, k)
      BY Zenon DEF DofAccepts
<1>2. /\ a.focus = AsPoint(o.focus) /\ a.f_number = Ranged(o, "f_number", "f_number")
      /\ a.photo_blur = IF DOMAIN o \cap DOF_PHOTO_OPTIONS = {} THEN <<>> ELSE shot
      BY DEF DofArguments
<1> HIDE DEF a, o
<1>3. Get(o, "focus", Null) # Null => o.focus = Get(o, "focus", Null)
      BY DEF Get
<1>4. IsPoint(o.focus, 100)
      BY <1>1, <1>3 DEF IsPoint, ListOf, IsList, Is, Null
<1>5. \A n \in Point(a.focus) : Fits(n[1], n[2])
      BY <1>2, <1>4, PointFits
<1>6. Fits("f_number", a.f_number[2]) /\ Fits("viewfinder_f", a.f_number[2])
      BY <1>1, <1>2, RangedTaken
<1>7. a.photo_blur # <<>> => \A n \in Blurred(a.photo_blur) : Fits(n[1], n[2])
  <2> SUFFICES ASSUME a.photo_blur # <<>>
               PROVE  \A n \in Blurred(a.photo_blur) : Fits(n[1], n[2])
      OBVIOUS
  <2>1. DOMAIN o \cap DOF_PHOTO_OPTIONS # {} /\ a.photo_blur = shot
        BY <1>2
  <2>2. /\ shot.stand_at = AsPoint(Get(o, "stand_at", Null))
        /\ shot.nearer = Ranged(o, "nearer", "nearer") /\ shot.tilt = Ranged(o, "tilt", "tilt")
        /\ shot.bokeh = Ranged(o, "bokeh", "bokeh")
        OBVIOUS
  <2> HIDE DEF shot
  <2> QED
      BY <1>1, <2>1, <2>2, BlurredFits
<1>8. Numbers("dof", a) = Point(a.focus) \cup {<<"f_number", a.f_number[2]>>}
                                \cup (IF a.photo_blur # <<>> THEN Blurred(a.photo_blur) ELSE {})
                                \cup (IF a.viewfinder # "off"
                                      THEN {<<"viewfinder_f", a.f_number[2]>>} ELSE {})
      BY DEF Numbers
<1> QED
    BY <1>5, <1>6, <1>7, <1>8 DEF AllFit, a

\* A lens's.
LEMMA LensFits ==
    ASSUME NEW v, LensAccepts(v)
    PROVE  AllFit("lens", LensArguments(v))
<1> DEFINE o == Body(v)
           a == LensArguments(v)
           shape == Get(o, "shape", Str("fisheye"))
           center == Get(o, "center", List(<<Float(50), Float(50)>>))
<1>1. /\ IsPoint(center, 100) /\ RangedOk(o, "strength", "lens")
      /\ shape[2] = "sphere" => RangedOk(o, "radius", "radius")
      BY Zenon DEF LensAccepts
<1>2. /\ a.center = AsPoint(center) /\ a.strength = Ranged(o, "strength", "lens")
      /\ a.radius = IF shape[2] = "sphere" THEN Ranged(o, "radius", "radius") ELSE Null
      BY DEF LensArguments
<1> HIDE DEF a, o, shape, center
<1>3. \A n \in Point(a.center) : Fits(n[1], n[2])
      BY <1>1, <1>2, PointFits
<1>4. Fits("lens", a.strength[2])
      BY <1>1, <1>2, RangedTaken
<1>5. a.radius # Null => Fits("radius", a.radius[2])
      BY <1>1, <1>2, RangedTaken
<1>6. Numbers("lens", a) = Point(a.center) \cup {<<"lens", a.strength[2]>>}
                               \cup (IF a.radius # Null THEN {<<"radius", a.radius[2]>>} ELSE {})
      BY DEF Numbers
<1> QED
    BY <1>3, <1>4, <1>5, <1>6 DEF AllFit, a

\* Those of a picture in a photo, where it has a place.
LEMMA PhotoFits ==
    ASSUME NEW v, PhotoAccepts(v), PhotoArguments(v).place # Null
    PROVE  AllFit("photo", PhotoArguments(v))
<1> DEFINE o == Body(v)
           a == PhotoArguments(v)
           focus == Get(o, "focus", Str("subject"))
<1>1. /\ focus = Str("subject") \/ IsPoint(focus, 100)
      /\ PointOk(o, "place", PLACE_DEFAULT, PLACE_MAX_Y) /\ PointOk(o, "stand_at", Null, 100)
      /\ \A k \in {"height", "nearer", "f_number", "tilt", "bokeh"} : RangedOk(o, k, k)
      BY Zenon DEF PhotoAccepts
<1>2. /\ a.place = AsPoint(Get(o, "place", PLACE_DEFAULT))
      /\ a.stand_at = AsPoint(Get(o, "stand_at", Null))
      /\ a.focus = IF focus = Str("subject") THEN focus ELSE AsPoint(focus)
      /\ a.height = Ranged(o, "height", "height") /\ a.nearer = Ranged(o, "nearer", "nearer")
      /\ a.f_number = Ranged(o, "f_number", "f_number") /\ a.tilt = Ranged(o, "tilt", "tilt")
      /\ a.bokeh = Ranged(o, "bokeh", "bokeh")
      BY DEF PhotoArguments
<1>3. a.place # Null
      OBVIOUS
<1> HIDE DEF a, o, focus
<1>4. \A n \in Placed(a) : Fits(n[1], n[2])
      BY <1>1, <1>2, <1>3, PlacedFits
<1>5. \A n \in Blurred(a) : Fits(n[1], n[2])
      BY <1>1, <1>2, BlurredFits
<1>6. \A n \in Point(a.focus) : Fits(n[1], n[2])
  <2>1. CASE focus = Str("subject")
        BY <1>2, <2>1 DEF Point, Str
  <2>2. CASE focus # Str("subject")
        BY <1>1, <1>2, <2>2, PointFits
  <2> QED
      BY <2>1, <2>2
<1>7. Fits("f_number", a.f_number[2])
      BY <1>1, <1>2, RangedTaken
<1>8. Numbers("photo", a) = Placed(a) \cup Blurred(a) \cup Point(a.focus)
                                \cup {<<"f_number", a.f_number[2]>>}
      BY DEF Numbers
<1> QED
    BY <1>4, <1>5, <1>6, <1>7, <1>8 DEF AllFit, a

\* Those of a stage in front of a photo.
LEMMA StageFits ==
    ASSUME NEW v, StageAccepts(v),
           StageArguments(v).photo # Null => StageArguments(v).place # Null
    PROVE  AllFit("stage", StageArguments(v))
<1> DEFINE o == Body(v)
           a == StageArguments(v)
<1>1. "photo" \in DOMAIN o =>
          PointOk(o, "place", PLACE_DEFAULT, PLACE_MAX_Y) /\ RangedOk(o, "height", "height")
      BY Zenon DEF StageAccepts
<1>2. /\ a.photo = Get(o, "photo", Null)
      /\ a.place = IF "photo" \in DOMAIN o THEN AsPoint(Get(o, "place", PLACE_DEFAULT)) ELSE Null
      /\ a.height = IF "photo" \in DOMAIN o THEN Ranged(o, "height", "height") ELSE Null
      BY DEF StageArguments
<1>3. a.photo # Null => a.place # Null
      OBVIOUS
<1> HIDE DEF a, o
<1>4. a.photo # Null => \A n \in Placed(a) : Fits(n[1], n[2])
  <2>1. a.photo # Null => "photo" \in DOMAIN o
        BY <1>2 DEF Get
  <2> QED
      BY <1>1, <1>2, <1>3, <2>1, PlacedFits
<1>5. Numbers("stage", a) = IF a.photo # Null THEN Placed(a) ELSE {}
      BY DEF Numbers
<1> QED
    BY <1>4, <1>5 DEF AllFit, a

\* The strengths of a lighting and of a saturation.
LEMMA StrengthsFit ==
    ASSUME NEW v
    PROVE  /\ LightingAccepts(v) => AllFit("lighting", LightingArguments(v))
           /\ SaturationAccepts(v) => AllFit("saturation", SaturationArguments(v))
<1> DEFINE o == Body(v)
           a == LightingArguments(v)
           b == SaturationArguments(v)
<1>1. /\ LightingAccepts(v) => RangedOk(o, "strength", "lighting")
      /\ SaturationAccepts(v) => RangedOk(o, "strength", "saturation")
      BY Zenon DEF LightingAccepts, SaturationAccepts
<1>2. /\ a.strength = Ranged(o, "strength", "lighting")
      /\ b.strength = Ranged(o, "strength", "saturation")
      BY DEF LightingArguments, SaturationArguments
<1> HIDE DEF a, b, o
<1>3. Numbers("lighting", a) = {<<"lighting", a.strength[2]>>}
      BY DEF Numbers
<1>4. Numbers("saturation", b) = {<<"saturation", b.strength[2]>>}
      BY DEF Numbers
<1>5. LightingAccepts(v) => Fits("lighting", a.strength[2])
      BY <1>1, <1>2, RangedTaken
<1>6. SaturationAccepts(v) => Fits("saturation", b.strength[2])
      BY <1>1, <1>2, RangedTaken
<1> QED
    BY <1>3, <1>4, <1>5, <1>6 DEF AllFit, a, b

\* The options a row goes on with: accepted, and a place where one is asked for.
Goes(kind, v) ==
    /\ v \in Taken[kind]
    /\ kind = "photo" => ArgumentsOf.photo[v].place # Null
    /\ kind = "stage" /\ ArgumentsOf.stage[v].photo # Null => ArgumentsOf.stage[v].place # Null

\* Their numbers fit.
LEMMA GoesFits ==
    ASSUME NEW kind \in KINDS, NEW v, Goes(kind, v)
    PROVE  AllFit(kind, ArgumentsOf[kind][v])
<1>1. v \in Taken[kind]
      BY DEF Goes
<1>2. Accepts(kind, v) /\ ArgumentsOf[kind][v] = Arguments(kind, v)
      BY <1>1 DEF Taken, ArgumentsOf
<1>3. CASE kind = "redraw"
      BY <1>3 DEF AllFit, Numbers
<1>4. CASE kind = "deliver"
      BY <1>2, <1>4, DeliverFits DEF Accepts, Arguments
<1>5. CASE kind = "dof"
      BY <1>2, <1>5, DofFits DEF Accepts, Arguments
<1>6. CASE kind = "lens"
      BY <1>2, <1>6, LensFits DEF Accepts, Arguments
<1>7. CASE kind = "photo"
      BY <1>2, <1>7, PhotoFits DEF Accepts, Arguments, Goes
<1>8. CASE kind = "stage"
      BY <1>2, <1>8, StageFits DEF Accepts, Arguments, Goes
<1>9. CASE kind = "lighting"
      BY <1>2, <1>9, StrengthsFit DEF Accepts, Arguments
<1>10. CASE kind = "saturation"
      BY <1>2, <1>10, StrengthsFit DEF Accepts, Arguments
<1> QED
    BY <1>3, <1>4, <1>5, <1>6, <1>7, <1>8, <1>9, <1>10 DEF KINDS

-----------------------------------------------------------------------------
(* What a row was posted with, and how it comes out.                       *)

REFUSALS == Outcomes \ {"", "done", "torn", "render"}

\* A row that comes out goes on with its options, and reads layers only.
Answer(r) ==
    /\ DOMAIN r = ROW /\ r.how \in Outcomes
    /\ r.how \in {"done", "torn"} => r.kind \in KINDS /\ Goes(r.kind, r.posted)
    /\ r.how = "render" => r.kind = "stage" /\ Goes("stage", r.posted)
    /\ r.read \subseteq LAYERS

\* Every refusal is one of the outcomes.
LEMMA RefusalsAre ==
    ASSUME NEW v
    PROVE  /\ RedrawRefusal(v) \in REFUSALS \cup {"none"}
           /\ DeliverRefusal(v) \in REFUSALS \cup {"none"}
           /\ DofRefusal(v) \in REFUSALS \cup {"none"}
           /\ LensRefusal(v) \in REFUSALS \cup {"none"}
           /\ PhotoRefusal(v) \in REFUSALS \cup {"none"}
           /\ StageRefusal(v) \in REFUSALS \cup {"none"}
           /\ LightingRefusal(v) \in REFUSALS \cup {"none"}
           /\ SaturationRefusal(v) \in REFUSALS \cup {"none"}
<1>1. RedrawRefusal(v) \in REFUSALS \cup {"none"}
      BY DEF RedrawRefusal, REFUSALS, Outcomes
<1>2. DeliverRefusal(v) \in REFUSALS \cup {"none"}
      BY DEF DeliverRefusal, REFUSALS, Outcomes
<1>3. DofRefusal(v) \in REFUSALS \cup {"none"}
      BY DEF DofRefusal, REFUSALS, Outcomes
<1>4. LensRefusal(v) \in REFUSALS \cup {"none"}
      BY DEF LensRefusal, REFUSALS, Outcomes
<1>5. PhotoRefusal(v) \in REFUSALS \cup {"none"}
      BY DEF PhotoRefusal, REFUSALS, Outcomes
<1>6. StageRefusal(v) \in REFUSALS \cup {"none"}
      BY DEF StageRefusal, REFUSALS, Outcomes
<1>7. LightingRefusal(v) \in REFUSALS \cup {"none"}
      BY DEF LightingRefusal, REFUSALS, Outcomes
<1>8. SaturationRefusal(v) \in REFUSALS \cup {"none"}
      BY DEF SaturationRefusal, REFUSALS, Outcomes
<1> QED
    BY <1>1, <1>2, <1>3, <1>4, <1>5, <1>6, <1>7, <1>8

\* What is not refused goes on.
LEMMA GoesOn ==
    ASSUME NEW v
    PROVE  /\ RedrawRefusal(v) = "none" => Goes("redraw", v)
           /\ DeliverRefusal(v) = "none" => Goes("deliver", v)
           /\ DofRefusal(v) = "none" => Goes("dof", v)
           /\ LensRefusal(v) = "none" => Goes("lens", v)
           /\ PhotoRefusal(v) = "none" => Goes("photo", v)
           /\ StageRefusal(v) = "none" => Goes("stage", v)
           /\ LightingRefusal(v) = "none" => Goes("lighting", v)
           /\ SaturationRefusal(v) = "none" => Goes("saturation", v)
<1>1. RedrawRefusal(v) = "none" => Goes("redraw", v)
      BY DEF RedrawRefusal, Goes
<1>2. DeliverRefusal(v) = "none" => Goes("deliver", v)
      BY DEF DeliverRefusal, Goes
<1>3. DofRefusal(v) = "none" => Goes("dof", v)
      BY DEF DofRefusal, Goes
<1>4. LensRefusal(v) = "none" => Goes("lens", v)
      BY DEF LensRefusal, Goes
<1>5. PhotoRefusal(v) = "none" => Goes("photo", v)
      BY DEF PhotoRefusal, Goes
<1>6. StageRefusal(v) = "none" => Goes("stage", v)
      BY DEF StageRefusal, Goes
<1>7. LightingRefusal(v) = "none" => Goes("lighting", v)
      BY DEF LightingRefusal, Goes
<1>8. SaturationRefusal(v) = "none" => Goes("saturation", v)
      BY DEF SaturationRefusal, Goes
<1> QED
    BY <1>1, <1>2, <1>3, <1>4, <1>5, <1>6, <1>7, <1>8

\* Layers are layers.
LEMMA RolesAreLayers ==
    /\ LayerRoles(chain) \subseteq LAYERS /\ FIGURE_ROLES \subseteq LAYERS
    /\ FIGURE_ROLES \cup {"layer-backdrop"} \subseteq LAYERS
BY DEF LayerRoles, LAYERS, FIGURE_ROLES

\* An operation answers its row as it should.
LEMMA AnswerStep ==
    ASSUME NEW v,
           Redraw(v) \/ Deliver(v) \/ Dof(v) \/ Lens(v) \/ Photo(v) \/ Stage(v) \/ Lighting(v)
               \/ Saturation(v)
    PROVE  Answer(row')
<1>0. ASSUME NEW kind, NEW why \in REFUSALS, Refuse(kind, why)
      PROVE  Answer(row')
  <2>1. DOMAIN row' = ROW /\ row'.how = why /\ row'.read = {}
        BY <1>0 DEF Refuse, Idle, ROW
  <2>2. why \in Outcomes /\ why \notin {"done", "torn", "render"}
        BY DEF REFUSALS
  <2> QED
      BY <2>1, <2>2 DEF Answer
<1>a. ASSUME NEW p, NEW X, NEW done, Records(p, X, done), done.how = "done", done.kind \in KINDS,
             Goes(done.kind, done.posted), done.read \subseteq LAYERS
      PROVE  Answer(row')
  <2>1. /\ DOMAIN row' = ROW /\ row'.kind = done.kind /\ row'.posted = done.posted
        /\ row'.read = done.read /\ row'.how \in {"done", "torn"}
        BY <1>a DEF Records, Answered
  <2>2. {"done", "torn"} \subseteq Outcomes
        BY DEF Outcomes
  <2> QED
      BY <1>a, <2>1, <2>2 DEF Answer
<1>b. ASSUME NEW kind \in KINDS, Goes(kind, v), NEW p, NEW X, NEW jobs, NEW read, NEW resolved,
             read \subseteq LAYERS, Records(p, X, Row(kind, v, "done", jobs, read, resolved))
      PROVE  Answer(row')
      BY <1>a, <1>b, RowHas
<1>c. KINDS = {"redraw", "deliver", "dof", "lens", "photo", "stage", "lighting", "saturation"}
      BY DEF KINDS
<1>1. CASE Redraw(v)
  <2>1. CASE RedrawRefusal(v) # "none"
        BY <1>0, <1>1, <2>1, RefusalsAre DEF Redraw
  <2> QED
      BY <1>b, <1>c, <1>1, <2>1, GoesOn, RedrawRecords
<1>2. CASE Deliver(v)
  <2>1. CASE DeliverRefusal(v) # "none"
        BY <1>0, <1>2, <2>1, RefusalsAre DEF Deliver
  <2> QED
      BY <1>b, <1>c, <1>2, <2>1, GoesOn, DeliverRecords
<1>3. CASE Dof(v)
  <2>1. CASE DofRefusal(v) # "none"
        BY <1>0, <1>3, <2>1, RefusalsAre DEF Dof
  <2>2. CASE DofRefusal(v) = "none"
    <3>1. PICK i, jobs : Records(DofPicture(v, i), {},
                      [Row("dof", v, "done", jobs, LayerRoles(chain), ResolvedOf.dof[v])
                           EXCEPT !.setting = Setting(chain)])
          BY <1>3, <2>2, DofRecords
    <3> DEFINE done == [Row("dof", v, "done", jobs, LayerRoles(chain), ResolvedOf.dof[v])
                           EXCEPT !.setting = Setting(chain)]
    <3>2. done.how = "done" /\ done.kind = "dof" /\ done.posted = v /\ done.read = LayerRoles(chain)
          BY RowHas DEF ROW
    <3>3. Records(DofPicture(v, i), {}, done)
          BY <3>1
    <3> HIDE DEF done
    <3> QED
        BY <1>a, <1>c, <2>2, <3>2, <3>3, GoesOn, RolesAreLayers
  <2> QED
      BY <2>1, <2>2
<1>4. CASE Lens(v)
  <2>1. CASE LensRefusal(v) # "none"
        BY <1>0, <1>4, <2>1, RefusalsAre DEF Lens
  <2> QED
      BY <1>b, <1>c, <1>4, <2>1, GoesOn, LensRecords
<1>5. CASE Photo(v)
  <2>1. CASE PhotoRefusal(v) # "none"
        BY <1>0, <1>5, <2>1, RefusalsAre DEF Photo
  <2> QED
      BY <1>b, <1>c, <1>5, <2>1, GoesOn, PhotoRecords, RolesAreLayers
<1>6. CASE Stage(v)
  <2>1. CASE StageRefusal(v) # "none"
        BY <1>0, <1>6, <2>1, RefusalsAre DEF Stage
  <2>2. CASE StageRefusal(v) = "none"
    <3>1. ASSUME NEW jobs, row' = Row("stage", v, "render", jobs, FIGURE_ROLES, Null)
          PROVE  Answer(row')
      <4>1. /\ DOMAIN row' = ROW /\ row'.kind = "stage" /\ row'.how = "render"
            /\ row'.posted = v /\ row'.read = FIGURE_ROLES
            BY <3>1, RowHas
      <4>2. "render" \in Outcomes
            BY DEF Outcomes
      <4> QED
          BY <2>2, <4>1, <4>2, GoesOn, RolesAreLayers DEF Answer
    <3>2. ASSUME NEW jobs, NEW resolved,
                 Records(StagePicture(v), ToSet(LayerSeq(TRUE)),
                         [Row("stage", v, "done", jobs, FIGURE_ROLES, resolved)
                              EXCEPT !.light = StageLight(v), !.shadow = StageShadow(v)])
          PROVE  Answer(row')
      <4> DEFINE done == [Row("stage", v, "done", jobs, FIGURE_ROLES, resolved)
                              EXCEPT !.light = StageLight(v), !.shadow = StageShadow(v)]
      <4>1. done.how = "done" /\ done.read = FIGURE_ROLES /\ done.kind = "stage" /\ done.posted = v
            BY RowHas
      <4>2. Records(StagePicture(v), ToSet(LayerSeq(TRUE)), done)
            BY <3>2
      <4> HIDE DEF done
      <4> QED
          BY <1>a, <1>c, <2>2, <4>1, <4>2, GoesOn, RolesAreLayers
    <3> QED
        BY <1>6, <2>2, <3>1, <3>2, StageRecords
  <2> QED
      BY <2>1, <2>2
<1>7. CASE Lighting(v)
  <2>1. CASE LightingRefusal(v) # "none"
        BY <1>0, <1>7, <2>1, RefusalsAre DEF Lighting
  <2> QED
      BY <1>b, <1>c, <1>7, <2>1, GoesOn, LightingRecords, RolesAreLayers
<1>8. CASE Saturation(v)
  <2>1. CASE SaturationRefusal(v) # "none"
        BY <1>0, <1>8, <2>1, RefusalsAre DEF Saturation
  <2>2. CASE SaturationRefusal(v) = "none"
    <3> DEFINE backdrop == "layer-backdrop" \in LayerRolesPresent(Source)
               read == FIGURE_ROLES \cup (IF backdrop THEN {"layer-backdrop"} ELSE {})
    <3>1. \E X, jobs : Records(Picture("saturation"), X,
                               Row("saturation", v, "done", jobs, read, ResolvedOf.saturation[v]))
          BY <1>8, <2>2, SaturationRecords
    <3>2. read \subseteq LAYERS
          BY RolesAreLayers
    <3> HIDE DEF read
    <3> QED
        BY <1>b, <1>c, <2>2, <3>1, <3>2, GoesOn
  <2> QED
      BY <2>1, <2>2
<1> QED
    BY <1>1, <1>2, <1>3, <1>4, <1>5, <1>6, <1>7, <1>8

Answers == Answer(row)

\* An idle worker has read nothing.
LEMMA IdleIsAnswer == Answer(Idle)
BY DEF Answer, Idle, ROW, Outcomes

\* Every step leaves the row an answer.
LEMMA AnswerKept ==
    ASSUME Answers, [Next]_vars
    PROVE  Answers'
<1>1. CASE UNCHANGED vars
      BY <1>1 DEF vars, Answers
<1>2. CASE Report
      BY <1>2, IdleIsAnswer DEF Report, Answers
<1>3. CASE Again
  <2>1. /\ row.how = "torn" /\ DOMAIN row' = ROW /\ row'.how = "done" /\ row'.kind = row.kind
        /\ row'.posted = row.posted /\ row'.read = row.read
        BY <1>3 DEF Again, Answers, Answer, ROW
  <2>2. "done" \in Outcomes
        BY DEF Outcomes
  <2> QED
      BY <2>1, <2>2 DEF Answers, Answer
<1> QED
    BY <1>1, <1>2, <1>3, AnswerStep
    DEF Answers, Next, DoRedraw, DoDeliver, DoDof, DoLens, DoPhoto, DoStage, DoLighting, DoSaturation

\* The row comes out as one of the outcomes, with options that were accepted.
THEOREM AnswersSafe == Spec => []Answers
<1>1. Init => Answers
      BY IdleIsAnswer DEF Init, Answers
<1> QED
    BY <1>1, AnswerKept, PTL DEF Spec

\* A number of a row the worker accepts is one its node takes, whatever JSON the
\* row was posted with.
THEOREM NumbersSafe == Spec => []NumbersFit
<1>1. Answers => NumbersFit
      BY GoesFits DEF Answers, Answer, NumbersFit, Made, AllFit, Fits
<1> QED
    BY <1>1, AnswersSafe, PTL

-----------------------------------------------------------------------------
(* Types.                                                                  *)

Bases == ANIMA \cup FOREIGN \cup {NoBase}
Methods == {"", "canvas", "hires", "light"}

\* What is on record of a picture, but for its kind, has its type.
Typed(p) ==
    /\ p.method \in Methods /\ p.light \in Lights /\ IsStroke(p.stroke)
    /\ p.view \in VIEWFINDERS /\ p.output \in 0..1 /\ p.overlay \in BOOLEAN
    /\ p.base \in Bases
AllTyped == \A m \in DOMAIN chain : Typed(chain[m]) /\ chain[m].assets \subseteq AllRoles

\* A light that is accepted is one of the scenes, from some direction.
LEMMA LightIsTyped ==
    ASSUME NEW v, LightOk(v)
    PROVE  LightOf(v) \in Lights
<1>1. CASE v = Null
      BY <1>1 DEF LightOf, Lights
<1>2. CASE v # Null
  <2> DEFINE from == Get(v[2], "from", Str(LIGHT_FROM_DEFAULT))
             scene == Get(v[2], "scene", Null)
  <2>1. OneOf(from, DIRECTIONS) /\ OneOf(scene, SCENES)
        BY <1>2, Zenon DEF LightOk
  <2>2. v[2].scene = scene
        BY <2>1 DEF Get, OneOf, Is, Null
  <2>3. LightOf(v) = <<v[2].scene[2], from[2]>>
        BY <1>2, Zenon DEF LightOf
  <2> HIDE DEF from, scene
  <2>4. from[2] \in DIRECTIONS /\ scene[2] \in SCENES
        BY <2>1 DEF OneOf
  <2>5. LightOf(v) \in SCENES \X DIRECTIONS
        BY <2>2, <2>3, <2>4
  <2> QED
      BY <2>5 DEF Lights
<1> QED
    BY <1>1, <1>2

\* What is not on record has its type.
LEMMA UnrecordedTyped == "off" \in VIEWFINDERS /\ 0 \in 0..1 /\ NoBase \in Bases
<1>1. NoBase \in Bases
      BY Zenon DEF Bases
<1>2. "off" \in VIEWFINDERS /\ 0 \in 0..1
      BY DEF VIEWFINDERS
<1> QED
    BY <1>1, <1>2

\* A new picture has its type.
LEMMA PictureIsTyped ==
    ASSUME NEW kind
    PROVE  /\ Typed(Picture(kind)) /\ Picture(kind).assets = {}
           /\ \A base \in Bases : Typed(Drawing(base)) /\ Drawing(base).assets = {}
<1>1. ASSUME NEW p, p.method = "", p.light = <<>>, p.stroke = Null, p.view = "off", p.output = 0,
             p.overlay = FALSE, p.base \in Bases
      PROVE  Typed(p)
  <2>1. p.method \in Methods /\ p.light \in Lights /\ IsStroke(p.stroke)
        BY <1>1 DEF Methods, Lights, IsStroke
  <2>2. p.view \in VIEWFINDERS /\ p.output \in 0..1
    <3>1. p.view = "off" /\ p.output = 0
          BY <1>1, Zenon
    <3> QED
        BY <3>1, UnrecordedTyped, Zenon
  <2>3. p.overlay \in BOOLEAN
        BY <1>1, Zenon
  <2> QED
      BY <1>1, <2>1, <2>2, <2>3, Zenon DEF Typed
<1>2. NoBase \in Bases
      BY UnrecordedTyped
<1>3. \A k : /\ Picture(k).method = "" /\ Picture(k).light = <<>> /\ Picture(k).stroke = Null
             /\ Picture(k).view = "off" /\ Picture(k).output = 0 /\ Picture(k).overlay = FALSE
             /\ Picture(k).base = NoBase /\ Picture(k).assets = {}
      BY DEF Picture
<1>4. \A base : /\ Drawing(base).method = "" /\ Drawing(base).light = <<>>
                /\ Drawing(base).stroke = Null /\ Drawing(base).view = "off"
                /\ Drawing(base).output = 0 /\ Drawing(base).overlay = FALSE
                /\ Drawing(base).base = base /\ Drawing(base).assets = {}
      BY DEF Drawing, Picture
<1>5. Typed(Picture(kind)) /\ Picture(kind).assets = {}
      BY <1>1, <1>2, <1>3
<1>6. ASSUME NEW base \in Bases
      PROVE  Typed(Drawing(base)) /\ Drawing(base).assets = {}
      BY <1>1, <1>4, <1>6
<1> QED
    BY <1>5, <1>6

\* What a redraw is asked for.
LEMMA RedrawTyped ==
    ASSUME NEW v \in Taken.redraw
    PROVE  LET a == ArgumentsOf.redraw[v]
           IN  /\ a.method \in {"canvas", "hires", "light"} /\ a.light \in Lights
               /\ a.latent_route \in BOOLEAN /\ a.cut \in BOOLEAN
<1> DEFINE o == v[2]
           bare == Obj(Without(o, {"method", "cut"}))
           full == Obj(Without(Merge(o, [scene |-> Null]), {"method", "cut"}))
           a == RedrawArguments(v, "yukari")
           method == Get(o, "method", Null)
           cut == Get(o, "cut", Bool(FALSE))
<1>1. RedrawAccepts(v, "yukari") /\ ArgumentsOf.redraw[v] = a
      BY DEF Taken, Accepts, ArgumentsOf, Arguments, KINDS
<1>2. OneOf(method, DOMAIN REDRAW_OPTIONS) /\ IsBool(cut)
      BY <1>1, Zenon DEF RedrawAccepts
<1>3. method[2] = "light" => LightOk(full)
      BY <1>1 DEF RedrawAccepts
<1>4. method = o.method
      BY <1>2 DEF Get, OneOf, Is, Null
<1>5. /\ a.method = o.method[2] /\ a.cut = cut[2]
      /\ a.light = IF o.method[2] = "light" THEN LightOf(bare) ELSE <<>>
      /\ a.latent_route = (Get(o, "route", Null) = Str("latent"))
      BY DEF RedrawArguments
<1>6. LightOk(full) => LightOf(bare) \in Lights
  <2> SUFFICES ASSUME LightOk(full)
               PROVE  LightOf(bare) \in Lights
      OBVIOUS
  <2>1. LightOf(full) \in Lights /\ full # Null /\ bare # Null
        BY LightIsTyped DEF Obj, Null
  <2>2. OneOf(Get(full[2], "scene", Null), SCENES)
        BY <2>1, Zenon DEF LightOk
  <2>3. "scene" \in DOMAIN full[2] /\ full[2].scene # Null
        BY <2>2 DEF Get, OneOf, Is, Null
  <2>4. "scene" \in DOMAIN o /\ bare[2].scene = full[2].scene
        BY <2>3 DEF Obj, Without, Merge
  <2>5. Get(full[2], "from", Str(LIGHT_FROM_DEFAULT)) = Get(bare[2], "from", Str(LIGHT_FROM_DEFAULT))
        BY DEF Get, Obj, Without, Merge
  <2> HIDE DEF full, bare
  <2>6. LightOf(bare) = LightOf(full)
        BY <2>1, <2>4, <2>5, Zenon DEF LightOf
  <2> QED
      BY <2>1, <2>6
<1> HIDE DEF full, bare, o, a, method, cut
<1>7. a.method \in {"canvas", "hires", "light"}
      BY <1>2, <1>4, <1>5 DEF OneOf, REDRAW_OPTIONS
<1>8. a.light \in Lights
      BY <1>3, <1>4, <1>5, <1>6 DEF Lights
<1>9. a.cut \in BOOLEAN
      BY <1>2, <1>5, Zenon DEF IsBool
<1>10. a.latent_route \in BOOLEAN
      BY <1>5, Zenon
<1> QED
    BY <1>1, <1>7, <1>8, <1>9, <1>10, Zenon

\* A redraw has its type.
LEMMA RedrawPictureTyped ==
    ASSUME NEW v \in Taken.redraw
    PROVE  Typed(RedrawPicture(v))
<1> DEFINE p == RedrawPicture(v)
<1>1. /\ ArgumentsOf.redraw[v].method \in {"canvas", "hires", "light"}
      /\ ArgumentsOf.redraw[v].light \in Lights
      BY RedrawTyped
<1>2. /\ p.method = ArgumentsOf.redraw[v].method /\ p.light = ArgumentsOf.redraw[v].light
      /\ p.stroke = Null /\ p.view = "off" /\ p.output = 0 /\ p.base = NoBase
      BY DEF RedrawPicture, Picture
<1>3. p.overlay = FALSE
      BY DEF RedrawPicture, Picture
<1> HIDE DEF p
<1>4. p.method \in Methods /\ p.light \in Lights /\ IsStroke(p.stroke)
      BY <1>1, <1>2 DEF Methods, IsStroke
<1>5. p.view \in VIEWFINDERS /\ p.output \in 0..1 /\ p.base \in Bases
      BY <1>2, UnrecordedTyped, Zenon
<1>6. p.overlay \in BOOLEAN
      BY <1>3, Zenon
<1>7. Typed(p)
      BY <1>4, <1>5, <1>6, Zenon DEF Typed
<1> QED
    BY <1>7 DEF p

\* The light a lineage is lit by is one of the lights.
LEMMA InheritedTyped ==
    ASSUME StudioInv, AllTyped
    PROVE  InheritedLight(chain) \in Lights
<1> DEFINE W == LightsWithin(chain, LINEAGE_HOPS)
<1>1. CASE W = {}
      BY <1>1 DEF InheritedLight, Lights
<1>2. CASE W # {}
  <2>1. W \subseteq 1..Len(chain) /\ W \subseteq DOMAIN chain /\ Len(chain) \in Nat
        BY Numbered DEF LightsWithin
  <2>2. Highest(W) \in W
        BY <1>2, <2>1, HighestOf
  <2>3. InheritedLight(chain) = chain[Highest(W)].light
        BY <1>2 DEF InheritedLight
  <2>4. \A m \in DOMAIN chain : chain[m].light \in Lights
        BY Zenon DEF AllTyped, Typed
  <2> QED
      BY <2>1, <2>2, <2>3, <2>4
<1> QED
    BY <1>1, <1>2

\* What a delivery is asked for.
LEMMA DeliverTyped ==
    ASSUME NEW v \in Taken.deliver
    PROVE  LET a == ArgumentsOf.deliver[v]
           IN  /\ a.light \in Lights /\ (a.stroke_light = <<"recipe default">> \/ IsStroke(a.stroke_light))
               /\ a.keep_scene \in BOOLEAN /\ a.transparent \in BOOLEAN
<1> DEFINE o == Body(v)
           a == DeliverArguments(v)
           light == LightOf(Get(o, "light", Null))
           given == Get(o, "transparent", Null)
           keep == Get(o, "keep_scene", Bool(FALSE))
           asked == IF given = Null THEN "backdrop" \in DOMAIN o /\ o.backdrop = Null ELSE given[2]
<1>1. DeliverAccepts(v) /\ ArgumentsOf.deliver[v] = a
      BY DEF Taken, Accepts, ArgumentsOf, Arguments, KINDS
<1>2. /\ LightOk(Get(o, "light", Null)) /\ (given = Null \/ IsBool(given)) /\ IsBool(keep)
      /\ LET stroke == Get(o, "stroke_light", Null) IN stroke = Null \/ OneOf(stroke, STROKE_CHOICES)
      BY <1>1, Zenon DEF DeliverAccepts
<1>3. /\ a.light = light /\ a.stroke_light = DeliverStroke(o)
      /\ a.keep_scene = keep[2]
      BY DEF DeliverArguments
<1>4. a.transparent = (asked /\ ~keep[2])
      BY DEF DeliverArguments
<1>5. DeliverStroke(o) = IF "stroke_light" \in DOMAIN o THEN o.stroke_light
                         ELSE IF light # <<>> THEN Str(light[2]) ELSE <<"recipe default">>
      BY DEF DeliverStroke
<1>6. IsStroke(Get(o, "stroke_light", Null))
      BY <1>2 DEF IsStroke
<1>7. light \in Lights
      BY <1>2, LightIsTyped
<1>8. keep[2] \in BOOLEAN
      BY <1>2, Zenon DEF IsBool
<1>9. (asked /\ ~keep[2]) \in BOOLEAN
      OBVIOUS
<1> HIDE DEF a, light, given, keep, asked
<1>10. light # <<>> => IsStroke(Str(light[2]))
       BY <1>7 DEF Lights, IsStroke, OneOf, Is, Str, STROKE_CHOICES
<1>11. "stroke_light" \in DOMAIN o => IsStroke(o.stroke_light)
       BY <1>6 DEF Get
<1>12. a.stroke_light = <<"recipe default">> \/ IsStroke(a.stroke_light)
       BY <1>3, <1>5, <1>10, <1>11
<1>13. a.keep_scene \in BOOLEAN
       BY <1>3, <1>8, Zenon
<1>14. a.transparent \in BOOLEAN
       BY <1>4, <1>9, Zenon
<1>15. a.light \in Lights
       BY <1>3, <1>7, Zenon
<1> QED
    BY <1>1, <1>12, <1>13, <1>14, <1>15, Zenon

\* A delivery has its type.
LEMMA DeliverPictureTyped ==
    ASSUME StudioInv, AllTyped, NEW v \in Taken.deliver
    PROVE  Typed(DeliverPicture(v))
<1> DEFINE p == DeliverPicture(v)
           a == ArgumentsOf.deliver[v]
           light == LightDelivered(v)
<1>1. a.light \in Lights /\ (a.stroke_light = <<"recipe default">> \/ IsStroke(a.stroke_light))
      BY DeliverTyped
<1>2. light = IF a.light # <<>> THEN a.light ELSE InheritedLight(chain)
      BY DEF LightDelivered
<1>3. StrokeDelivered(v) = IF a.stroke_light # <<"recipe default">> THEN a.stroke_light
                           ELSE Str(IF light # <<>> THEN light[2] ELSE DELIVER_DEFAULTS.stroke_light)
      BY DEF StrokeDelivered
<1>4. /\ p.light = light /\ p.stroke = StrokeDelivered(v)
      /\ p.method = "" /\ p.view = "off" /\ p.output = 0 /\ p.base = NoBase
      BY DEF DeliverPicture, Picture
<1>5. p.overlay = FALSE
      BY DEF DeliverPicture, Picture
<1> HIDE DEF a, p, light
<1>6. light \in Lights
      BY <1>1, <1>2, InheritedTyped
<1>7. light # <<>> => light[2] \in STROKE_CHOICES
      BY <1>6 DEF Lights, STROKE_CHOICES
<1>8. DELIVER_DEFAULTS.stroke_light \in STROKE_CHOICES
      BY DEF DELIVER_DEFAULTS, STROKE_CHOICES, DIRECTIONS
<1>9. \A d \in STROKE_CHOICES : IsStroke(Str(d))
      BY DEF IsStroke, OneOf, Is, Str
<1>10. IsStroke(StrokeDelivered(v))
       BY <1>1, <1>3, <1>7, <1>8, <1>9
<1>11. p.method \in Methods /\ p.light \in Lights /\ IsStroke(p.stroke)
       BY <1>4, <1>6, <1>10 DEF Methods
<1>12. p.view \in VIEWFINDERS /\ p.output \in 0..1 /\ p.base \in Bases
       BY <1>4, UnrecordedTyped, Zenon
<1>13. p.overlay \in BOOLEAN
       BY <1>5, Zenon
<1>14. Typed(p)
       BY <1>11, <1>12, <1>13, Zenon DEF Typed
<1> QED
    BY <1>14 DEF p

\* So has a stage.
LEMMA StagePictureTyped ==
    ASSUME NEW v
    PROVE  Typed(StagePicture(v))
<1> DEFINE p == StagePicture(v)
<1>1. /\ p.light = <<>> /\ p.stroke = Null
      /\ p.method = "" /\ p.view = "off" /\ p.output = 0 /\ p.base = NoBase
      BY DEF StagePicture, Picture
<1>2. p.overlay = FALSE
      BY DEF StagePicture, Picture
<1> HIDE DEF p
<1>3. p.method \in Methods /\ p.light \in Lights /\ IsStroke(p.stroke)
      BY <1>1 DEF Methods, Lights, IsStroke
<1>4. p.view \in VIEWFINDERS /\ p.output \in 0..1 /\ p.base \in Bases
      BY <1>1, UnrecordedTyped, Zenon
<1>5. p.overlay \in BOOLEAN
      BY <1>2, Zenon
<1>6. Typed(p)
      BY <1>3, <1>4, <1>5, Zenon DEF Typed
<1> QED
    BY <1>6 DEF p

\* What a blur is asked for.
LEMMA DofTyped ==
    ASSUME NEW v \in Taken.dof
    PROVE  ArgumentsOf.dof[v].viewfinder \in VIEWFINDERS
<1> DEFINE view == Get(Body(v), "viewfinder", Str("off"))
<1>1. DofAccepts(v) /\ ArgumentsOf.dof[v] = DofArguments(v)
      BY DEF Taken, Accepts, ArgumentsOf, Arguments, KINDS
<1>2. OneOf(view, VIEWFINDERS)
      BY <1>1, Zenon DEF DofAccepts
<1>3. DofArguments(v).viewfinder = view[2]
      BY DEF DofArguments
<1> HIDE DEF view
<1> QED
    BY <1>1, <1>2, <1>3 DEF OneOf

\* And a blur's pictures.
LEMMA DofPictureTyped ==
    ASSUME NEW v \in Taken.dof, NEW i \in DOMAIN DofPictures(ArgumentsOf.dof[v].viewfinder)
    PROVE  Typed(DofPicture(v, i))
<1> DEFINE p == DofPicture(v, i)
           view == ArgumentsOf.dof[v].viewfinder
<1>1. view \in VIEWFINDERS
      BY DofTyped
<1>2. i \in 1..2
      BY DEF DofPictures
<1>3. /\ p.light = <<>> /\ p.stroke = Null
      /\ p.method = "" /\ p.view = view /\ p.output = i - 1 /\ p.base = NoBase
      BY DEF DofPicture, Picture
<1>4. p.overlay = (view = "on" \/ DofPictures(view)[i] = "-viewfinder")
      BY DEF DofPicture, Picture
<1> HIDE DEF p, view
<1>5. p.method \in Methods /\ p.light \in Lights /\ IsStroke(p.stroke)
      BY <1>3 DEF Methods, Lights, IsStroke
<1>6. p.output \in 0..1
  <2>1. i - 1 \in 0..1
        BY <1>2
  <2> QED
      BY <1>3, <2>1, Zenon
<1>7. p.view \in VIEWFINDERS /\ p.base \in Bases
      BY <1>1, <1>3, UnrecordedTyped, Zenon
<1>8. p.overlay \in BOOLEAN
      BY <1>4, Zenon
<1>9. Typed(p)
      BY <1>5, <1>6, <1>7, <1>8, Zenon DEF Typed
<1> QED
    BY <1>9 DEF p

\* What looks the same has the same type.
LEMMA AlikeTyped ==
    ASSUME NEW p, NEW q, Alike(q, p), Typed(p)
    PROVE  Typed(q)
BY Zenon DEF Alike, Typed

\* An operation adds a picture that has its type.
LEMMA TypedStep ==
    ASSUME StudioInv, AllTyped, NEW v,
           Redraw(v) \/ Deliver(v) \/ Dof(v) \/ Lens(v) \/ Photo(v) \/ Stage(v) \/ Lighting(v)
               \/ Saturation(v)
    PROVE  chain' = chain \/ \E q : chain' = Append(chain, q) /\ Typed(q) /\ q.assets \subseteq AllRoles
<1>0. ASSUME NEW p, Typed(p), NEW X, X \subseteq AllRoles, NEW done, Records(p, X, done)
      PROVE  \E q : chain' = Append(chain, q) /\ Typed(q) /\ q.assets \subseteq AllRoles
  <2>1. PICK q : Alike(q, p) /\ chain' = Append(chain, q) /\ q.assets \subseteq X
        BY <1>0, Zenon DEF Records
  <2>2. Typed(q)
        BY <1>0, <2>1, AlikeTyped
  <2>3. q.assets \subseteq AllRoles
        BY <1>0, <2>1, Zenon
  <2> QED
      BY <2>1, <2>2, <2>3, Zenon
<1>a. /\ \A cut : ToSet(IF cut THEN CUT_RESULTS ELSE <<>>) \subseteq AllRoles
      /\ \A backdrop : ToSet(LayerSeq(backdrop)) \subseteq AllRoles
  <2>1. \A seq : seq \in Seq(AllRoles) => ToSet(seq) \subseteq AllRoles
        BY ElementOfSeq, LenProperties DEF ToSet
  <2> QED
      BY <2>1, RolesInTurn
<1>1. CASE Redraw(v)
  <2>1. CASE RedrawRefusal(v) # "none"
        BY <1>1, <2>1 DEF Redraw, Refuse
  <2>2. CASE RedrawRefusal(v) = "none"
    <3>1. v \in Taken.redraw
          BY <2>2, Zenon DEF RedrawRefusal
    <3>2. Typed(RedrawPicture(v))
          BY <3>1, RedrawPictureTyped
    <3>3. PICK jobs : Records(RedrawPicture(v),
                              ToSet(IF ArgumentsOf.redraw[v].cut THEN CUT_RESULTS ELSE <<>>),
                              Row("redraw", v, "done", jobs, {}, ResolvedOf.redraw[v]))
          BY <1>1, <2>2, RedrawRecords
    <3> QED
        BY <1>0, <1>a, <3>2, <3>3
  <2> QED
      BY <2>1, <2>2
<1>2. CASE Deliver(v)
  <2>1. CASE DeliverRefusal(v) # "none"
        BY <1>2, <2>1 DEF Deliver, Refuse
  <2>2. CASE DeliverRefusal(v) = "none"
    <3>1. v \in Taken.deliver
          BY <2>2, Zenon DEF DeliverRefusal
    <3>2. Typed(DeliverPicture(v))
          BY <3>1, DeliverPictureTyped
    <3>3. PICK X, done : Records(DeliverPicture(v), X, done) /\ X \subseteq AllRoles
          BY <1>a, <1>2, <2>2, DeliverRecords
    <3> QED
        BY <1>0, <3>2, <3>3
  <2> QED
      BY <2>1, <2>2
<1>3. CASE Dof(v)
  <2>1. CASE DofRefusal(v) # "none"
        BY <1>3, <2>1 DEF Dof, Refuse
  <2>2. CASE DofRefusal(v) = "none"
    <3>1. v \in Taken.dof
          BY <2>2, Zenon DEF DofRefusal
    <3>2. PICK i \in DOMAIN DofPictures(ArgumentsOf.dof[v].viewfinder) :
             \E done : Records(DofPicture(v, i), {}, done)
          BY <1>3, <2>2, DofRecords
    <3>3. Typed(DofPicture(v, i))
          BY <3>1, DofPictureTyped
    <3> QED
        BY <1>0, <3>2, <3>3
  <2> QED
      BY <2>1, <2>2
<1>4. CASE Lens(v)
  <2>1. CASE LensRefusal(v) # "none"
        BY <1>4, <2>1 DEF Lens, Refuse
  <2> QED
      BY <1>0, <1>4, <2>1, PictureIsTyped, LensRecords
<1>5. CASE Photo(v)
  <2>1. CASE PhotoRefusal(v) # "none"
        BY <1>5, <2>1 DEF Photo, Refuse
  <2> QED
      BY <1>0, <1>5, <2>1, PictureIsTyped, PhotoRecords
<1>6. CASE Stage(v)
  <2>1. CASE StageRefusal(v) # "none"
        BY <1>6, <2>1 DEF Stage, Refuse
  <2> QED
      BY <1>0, <1>a, <1>6, <2>1, StagePictureTyped, StageRecords
<1>7. CASE Lighting(v)
  <2>1. CASE LightingRefusal(v) # "none"
        BY <1>7, <2>1 DEF Lighting, Refuse
  <2> QED
      BY <1>0, <1>a, <1>7, <2>1, PictureIsTyped, LightingRecords
<1>8. CASE Saturation(v)
  <2>1. CASE SaturationRefusal(v) # "none"
        BY <1>8, <2>1 DEF Saturation, Refuse
  <2> QED
      BY <1>0, <1>a, <1>8, <2>1, PictureIsTyped, SaturationRecords
<1> QED
    BY <1>1, <1>2, <1>3, <1>4, <1>5, <1>6, <1>7, <1>8

\* What a row that is claimed again attaches are assets.
LEMMA AssetsAreRoles ==
    ASSUME NEW p, NEW c
    PROVE  AssetsOf(p, c) \subseteq AllRoles
<1>1. LAYERS \subseteq AllRoles /\ FIGURE_ROLES \subseteq AllRoles /\ ToSet(CUT_RESULTS) \subseteq AllRoles
      BY DEF AllRoles, LAYERS
<1>2. LayerRoles(c) \in {LAYERS, FIGURE_ROLES}
      BY DEF LayerRoles
<1>3. \A backdrop : ToSet(LayerSeq(backdrop)) \subseteq AllRoles
  <2>1. \A seq : seq \in Seq(AllRoles) => ToSet(seq) \subseteq AllRoles
        BY ElementOfSeq, LenProperties DEF ToSet
  <2> QED
      BY <2>1, RolesInTurn
<1> QED
    BY <1>1, <1>2, <1>3 DEF AssetsOf

\* Every step keeps the pictures' types.
LEMMA TypedKept ==
    ASSUME StudioInv, AllTyped, [Next]_vars
    PROVE  AllTyped'
<1>1. ASSUME chain' = chain
      PROVE  AllTyped'
      BY <1>1 DEF AllTyped
<1>2. CASE Again
  <2>1. /\ DOMAIN chain' = DOMAIN chain
        /\ \A m \in DOMAIN chain : chain'[m] = chain[m] \/ (/\ Alike(chain'[m], chain[m])
                                                           /\ chain'[m].assets \subseteq AllRoles)
    <3>1. /\ DOMAIN chain' = 1..Len(chain) /\ DOMAIN chain = 1..Len(chain)
          /\ \A m \in 1..Len(chain) : m # Len(chain) => chain'[m] = chain[m]
          /\ Alike(chain'[Len(chain)], chain[Len(chain)])
          /\ chain'[Len(chain)].assets = AssetsOf(Source, chain)
          BY <1>2, Completes, Numbered
    <3>2. AssetsOf(Source, chain) \subseteq AllRoles
          BY AssetsAreRoles
    <3> QED
        BY <3>1, <3>2, Zenon
  <2> QED
      BY <2>1, AlikeTyped DEF AllTyped
<1>3. ASSUME NEW q, chain' = Append(chain, q), Typed(q), q.assets \subseteq AllRoles
      PROVE  AllTyped'
  <2>1. /\ DOMAIN chain' = 1..(Len(chain) + 1) /\ DOMAIN chain = 1..Len(chain)
        /\ Len(chain) \in Nat
        /\ \A m \in 1..Len(chain) : chain'[m] = chain[m]
        /\ chain'[Len(chain) + 1] = q
        BY <1>3, Appended, Numbered
  <2> QED
      BY <1>3, <2>1 DEF AllTyped
<1>4. CASE Report \/ UNCHANGED vars
      BY <1>1, <1>4 DEF Report, vars
<1> QED
    BY <1>1, <1>2, <1>3, <1>4, TypedStep
    DEF Next, DoRedraw, DoDeliver, DoDof, DoLens, DoPhoto, DoStage, DoLighting, DoSaturation

\* The roots have their types.
LEMMA RootsTyped == Init => AllTyped
<1> SUFFICES ASSUME Init
             PROVE  AllTyped
    OBVIOUS
<1>1. chain \in Roots
      BY StudioAssumption DEF Init
<1>2. \A base \in Bases : Typed(Drawing(base)) /\ Drawing(base).assets = {}
      BY PictureIsTyped
<1>3. \A kind : Typed(Picture(kind)) /\ Picture(kind).assets = {}
      BY PictureIsTyped
<1>4. \/ \E base \in Bases : chain = <<Drawing(base)>>
      \/ \E base \in Bases : \E kind : chain = <<Drawing(base), Picture(kind)>>
      \/ \E kind : chain = <<Picture(kind)>>
      BY <1>1 DEF Roots, Bases
<1>5. \A m \in DOMAIN chain : Typed(chain[m]) /\ chain[m].assets = {}
      BY <1>2, <1>3, <1>4
<1> QED
    BY <1>5 DEF AllTyped

\* What is on record of a picture has its type.
THEOREM RecordsTyped == Spec => []AllTyped
BY RootsTyped, TypedKept, LineageSafe, PTL DEF Spec

-----------------------------------------------------------------------------
(* The graphs a row submits.                                               *)

\* A graph drawn from a checkpoint is not the recipe's.
LEMMA CheckpointIsForeign == ~Anima(Foreign("checkpoint"))
<1> DEFINE S == {Node("CheckpointLoaderSimple", <<>>, ""), Node("CLIPLoader", <<>>, ""),
                 Sampler("KSampler", <<1, 0>>, <<6, 0>>, <<7, 0>>, <<5, 0>>),
                 Node("VAELoader", <<>>, ""), Node("EmptyLatentImage", <<>>, ""),
                 Text(<<1, 1>>, "positive"), Text(<<1, 1>>, "negative"),
                 Node("VAEDecode", [samples |-> <<3, 0>>, vae |-> <<1, 2>>], ""),
                 SaveImage(<<8, 0>>, "raw")}
           s == <<Node("CheckpointLoaderSimple", <<>>, ""), Node("CLIPLoader", <<>>, ""),
                  Sampler("KSampler", <<1, 0>>, <<6, 0>>, <<7, 0>>, <<5, 0>>),
                  Node("VAELoader", <<>>, ""), Node("EmptyLatentImage", <<>>, ""),
                  Text(<<1, 1>>, "positive"), Text(<<1, 1>>, "negative"),
                  Node("VAEDecode", [samples |-> <<3, 0>>, vae |-> <<1, 2>>], ""),
                  SaveImage(<<8, 0>>, "raw")>>
<1>1. \A n \in S : n.class # "UNETLoader"
  <2>1. \A class, in, what : Node(class, in, what).class = class
        BY DEF Node
  <2>2. /\ \A m, p, n, l : Sampler("KSampler", m, p, n, l).class = "KSampler"
        /\ \A clip, what : Text(clip, what).class = "CLIPTextEncode"
        /\ \A ref, what : SaveImage(ref, what).class = "SaveImage"
        BY <2>1 DEF Sampler, Text, SaveImage
  <2> SUFFICES ASSUME NEW n \in S
               PROVE  n.class # "UNETLoader"
      OBVIOUS
  <2>3. CASE n = Sampler("KSampler", <<1, 0>>, <<6, 0>>, <<7, 0>>, <<5, 0>>)
        BY <2>2, <2>3
  <2>4. CASE n \in {Text(<<1, 1>>, "positive"), Text(<<1, 1>>, "negative")}
        BY <2>2, <2>4
  <2>5. CASE n = SaveImage(<<8, 0>>, "raw")
        BY <2>2, <2>5
  <2>6. CASE n \in {Node("CheckpointLoaderSimple", <<>>, ""), Node("CLIPLoader", <<>>, ""),
                    Node("VAELoader", <<>>, ""), Node("EmptyLatentImage", <<>>, ""),
                    Node("VAEDecode", [samples |-> <<3, 0>>, vae |-> <<1, 2>>], "")}
    <3> DEFINE in == [samples |-> <<3, 0>>, vae |-> <<1, 2>>]
    <3> HIDE DEF in
    <3>1. /\ Node("CheckpointLoaderSimple", <<>>, "").class # "UNETLoader"
          /\ Node("CLIPLoader", <<>>, "").class # "UNETLoader"
          /\ Node("VAELoader", <<>>, "").class # "UNETLoader"
          /\ Node("EmptyLatentImage", <<>>, "").class # "UNETLoader"
          /\ Node("VAEDecode", in, "").class # "UNETLoader"
          BY DEF Node
    <3> QED
        BY <2>6, <3>1 DEF in
  <2> QED
      BY <2>3, <2>4, <2>5, <2>6
<1>2. s \in Seq(S)
  <2>1. \A a, b, c, d, e, f, g, h, i :
           <<a, b, c, d, e, f, g, h, i>> \in Seq({a, b, c, d, e, f, g, h, i})
        OBVIOUS
  <2> QED
      BY <2>1
<1>3. Foreign("checkpoint") = s \o <<>>
      BY DEF Foreign
<1> HIDE DEF S, s
<1>4. Foreign("checkpoint") = s
      BY <1>2, <1>3, ConcatEmptySeq
<1>5. \A n \in DOMAIN s : s[n] \in S
      BY <1>2, ElementOfSeq, LenProperties
<1> QED
    BY <1>1, <1>4, <1>5 DEF Anima, HasClass

\* The bases a redraw goes on from.
LEMMA BaseIsRedrawn ==
    ASSUME NEW base \in Bases, base # NoBase, base.made # "layerdiffuse", Anima(BaseGraphs[base])
    PROVE  /\ base \in REDRAWN
           /\ base.made = "stitched" \/ (base \in ANIMA /\ base.made = "anima")
<1>1. \A made, l, g, h : Base(made, l, g, h).made = made
      BY DEF Base
<1>2. base \in ANIMA \cup FOREIGN
      BY DEF Bases
<1>3. CASE base \in ANIMA
      BY <1>1, <1>3 DEF ANIMA, REDRAWN
<1>4. CASE base \in FOREIGN
  <2>1. base.made \in {"checkpoint", "stitched", "layerdiffuse"}
    <3>1. PICK made \in {"checkpoint", "stitched", "layerdiffuse"} :
             base = Base(made, FALSE, FALSE, FALSE)
          BY <1>4, Zenon DEF FOREIGN
    <3>2. Base(made, FALSE, FALSE, FALSE).made = made
          BY DEF Base
    <3> QED
        BY <3>1, <3>2
  <2>2. base.made = "checkpoint" => ~Anima(BaseGraphs[base])
    <3> SUFFICES ASSUME base.made = "checkpoint"
                 PROVE  ~Anima(BaseGraphs[base])
        OBVIOUS
    <3>1. BaseGraphs[base] = BaseGraph(base)
          BY <1>2 DEF BaseGraphs
    <3>2. BaseGraph(base) = Foreign("checkpoint")
          BY DEF BaseGraph
    <3> QED
        BY <3>1, <3>2, CheckpointIsForeign
  <2>3. base.made = "stitched"
        BY <2>1, <2>2
  <2> QED
      BY <1>4, <2>3 DEF REDRAWN
<1> QED
    BY <1>2, <1>3, <1>4

\* The drawing a redraw goes back to is one of the lineage.
LEMMA OriginIsIn ==
    ASSUME StudioInv, Origin(chain) # 0
    PROVE  Origin(chain) \in DOMAIN chain
<1> DEFINE found == {i \in DOMAIN chain :
                        ~IsDerived(chain[i]) /\ \A j \in (i + 1)..Len(chain) : IsDerived(chain[j])}
<1>1. found # {} /\ Origin(chain) = Highest(found)
      BY DEF Origin
<1>2. found \subseteq 1..Len(chain) /\ Len(chain) \in Nat /\ found \subseteq DOMAIN chain
      BY Numbered
<1> HIDE DEF found
<1>3. Highest(found) \in found
      BY <1>1, <1>2, HighestOf
<1> QED
    BY <1>1, <1>2, <1>3

\* A redraw that goes on has a base to be sampled on.
LEMMA RedrawHasBase ==
    ASSUME StudioInv, AllTyped, NEW v, RedrawRefusal(v) = "none"
    PROVE  LET base   == BaseOf(Origin(chain))
               method == ArgumentsOf.redraw[v].method
           IN  /\ v \in Taken.redraw /\ base \in REDRAWN
               /\ base.made = "stitched" \/ (base \in ANIMA /\ base.made = "anima")
               /\ method # "canvas" => base.made # "stitched"
               /\ method = "hires" => ~IsDerived(Source) /\ HiresAble(BaseGraphs[base], RolesOf[base])
<1> DEFINE base   == BaseOf(Origin(chain))
           method == ArgumentsOf.redraw[v].method
<1>1. /\ v \in Taken.redraw /\ Origin(chain) # 0 /\ base.made # "layerdiffuse" /\ base # NoBase
      /\ Anima(BaseGraphs[base])
      /\ method # "canvas" => base.made # "stitched"
      /\ method = "hires" => ~IsDerived(Source) /\ HiresAble(BaseGraphs[base], RolesOf[base])
      BY DEF RedrawRefusal
<1>2. base \in Bases
  <2>1. Origin(chain) \in DOMAIN chain
        BY <1>1, OriginIsIn
  <2> QED
      BY <2>1, Zenon DEF BaseOf, AllTyped, Typed
<1> HIDE DEF base, method
<1>3. base \in REDRAWN /\ (base.made = "stitched" \/ (base \in ANIMA /\ base.made = "anima"))
      BY <1>1, <1>2, BaseIsRedrawn
<1> QED
    BY <1>1, <1>3 DEF base, method

\* The graphs of each operation are among the jobs: a canvas redraw's.
LEMMA CanvasIsJob ==
    ASSUME NEW base \in REDRAWN, NEW l \in BOOLEAN, NEW d \in BOOLEAN, NEW k \in BOOLEAN,
           NEW w \in LOADERS, base.made = "anima" \/ l = FALSE
    PROVE  <<"canvas", base, l, d, k, w>> \in Jobs
<1> DEFINE job == <<"canvas", base, l, d, k, w>>
<1>1. job \in {<<"canvas", bb, ll, dd, kk, ww>> : bb \in REDRAWN, ll \in BOOLEAN, dd \in BOOLEAN,
                                               kk \in BOOLEAN, ww \in LOADERS}
      BY SMTT(60)
<1>2. job[3] => job[2].made = "anima"
      OBVIOUS
<1>3. job \in CanvasJobs
      BY <1>1, <1>2 DEF CanvasJobs
<1> QED
    BY <1>3, SMTT(60) DEF Jobs

\* A hires redraw's.
LEMMA HiresIsJob ==
    ASSUME NEW base \in ANIMA, HiresAble(BaseGraphs[base], RolesOf[base])
    PROVE  <<"hires", base>> \in Jobs
BY SMTT(60) DEF Jobs

\* A light redraw's.
LEMMA LightIsJob ==
    ASSUME NEW base \in ANIMA, NEW a \in BOOLEAN, NEW d \in BOOLEAN
    PROVE  <<"light", base, a, d>> \in Jobs
BY SMTT(60) DEF Jobs

\* A delivery's.
LEMMA DeliverIsJob ==
    ASSUME NEW a \in BOOLEAN, NEW k \in BOOLEAN, NEW t \in BOOLEAN, NEW s \in BOOLEAN
    PROVE  <<"deliver", a, k, t, s>> \in Jobs
BY SMTT(60) DEF Jobs

\* A blur's.
LEMMA DofIsJob ==
    ASSUME NEW b \in BOOLEAN, NEW d \in BOOLEAN, NEW v \in VIEWS
    PROVE  <<"dof", b, d, v>> \in Jobs /\ <<"photo_dof", d, v>> \in Jobs
BY SMTT(60) DEF Jobs

\* Those that only work on layers.
LEMMA LayersIsJob ==
    ASSUME NEW b \in BOOLEAN, NEW kind \in {"photo", "stage", "lighting", "saturation"}
    PROVE  <<kind, b>> \in Jobs
BY SMTT(60) DEF Jobs

\* The cut and the lens.
LEMMA PlainJobs == <<"cut">> \in Jobs /\ <<"lens">> \in Jobs
BY SMTT(60) DEF Jobs

\* A row that is recorded submits what it says, whether it is cut short or not.
LEMMA RecordSubmits ==
    ASSUME NEW p, NEW seq, NEW done, DOMAIN done = ROW, Record(p, seq, done) \/ Keep(p, done)
    PROVE  row'.jobs = done.jobs /\ row'.kind = done.kind
<1>1. CASE row' = done
      BY <1>1
<1>2. CASE row' = [done EXCEPT !.how = "torn"]
      BY <1>2 DEF ROW
<1>3. Record(p, seq, done) => row' = done \/ row' = [done EXCEPT !.how = "torn"]
      BY Zenon DEF Record
<1>4. Keep(p, done) => row' = done
      BY DEF Keep
<1> QED
    BY <1>1, <1>2, <1>3, <1>4

\* A redraw submits one graph of its method, and the one that cuts it.
LEMMA RedrawSubmits ==
    ASSUME StudioInv, AllTyped, NEW v, Redraw(v), RedrawRefusal(v) = "none"
    PROVE  \E job \in REDRAWS :
              /\ row'.jobs \subseteq {job, <<"cut">>}
              /\ OnPixels(job) <=> IsDerived(Source) \/ job[1] = "light"
<1> DEFINE a      == ArgumentsOf.redraw[v]
           base   == BaseOf(Origin(chain))
           latent == a.latent_route /\ base.made # "stitched"
           cut    == IF a.cut THEN {<<"cut">>} ELSE {}
           keep   == a.keep_regions # List(<<>>)
           derived == IsDerived(Source)
           job(alpha, depth, loader) ==
               CASE a.method = "canvas" -> <<"canvas", base, latent, derived, keep, loader>>
                 [] a.method = "hires"  -> <<"hires", base>>
                 [] a.method = "light"  -> <<"light", base, alpha, depth>>
           done(j) == Row("redraw", v, "done", {j} \cup cut, {}, ResolvedOf.redraw[v])
<1>1. /\ v \in Taken.redraw /\ base \in REDRAWN
      /\ base.made = "stitched" \/ (base \in ANIMA /\ base.made = "anima")
      /\ a.method # "canvas" => base.made # "stitched"
      /\ a.method = "hires" => ~derived /\ HiresAble(BaseGraphs[base], RolesOf[base])
      BY RedrawHasBase
<1>2. a.method \in {"canvas", "hires", "light"} /\ a.latent_route \in BOOLEAN
      BY <1>1, RedrawTyped
<1>3. latent \in BOOLEAN /\ keep \in BOOLEAN /\ derived \in BOOLEAN
      BY DEF IsDerived
<1>4. base.made = "anima" \/ latent = FALSE
      BY <1>1
<1>5. PICK alpha \in BOOLEAN, depth \in BOOLEAN, loader \in LOADERS :
         \E p, seq : Record(p, seq, done(job(alpha, depth, loader)))
      BY Zenon DEF Redraw
<1> DEFINE j == job(alpha, depth, loader)
<1>6. row'.jobs = {j} \cup cut
  <2>1. \A k : DOMAIN done(k) = ROW /\ done(k).jobs = {k} \cup cut
        BY RowHas
  <2> HIDE DEF done, job, cut
  <2> QED
      BY <1>5, <2>1, RecordSubmits
<1>7. row'.jobs \subseteq {j, <<"cut">>}
  <2>1. cut \subseteq {<<"cut">>}
        OBVIOUS
  <2> HIDE DEF cut, j
  <2> QED
      BY <1>6, <2>1
<1>8. CASE a.method = "canvas"
  <2>1. j = <<"canvas", base, latent, derived, keep, loader>>
        BY <1>8
  <2> HIDE DEF a, base, latent, derived, keep, j, job
  <2>2. j \in Jobs
        BY <1>1, <1>3, <1>4, <2>1, CanvasIsJob
  <2>3. j[1] = "canvas"
        BY <2>1
  <2>4. j[4] = derived
        BY <2>1
  <2>5. j \in REDRAWS
        BY <2>2, <2>3 DEF REDRAWS
  <2>6. OnPixels(j) <=> derived
        BY <2>3, <2>4, <1>3 DEF OnPixels
  <2>7. OnPixels(j) <=> derived \/ j[1] = "light"
        BY <2>3, <2>6
  <2> QED
      BY <1>7, <2>5, <2>7 DEF derived
<1>9. CASE a.method = "hires"
  <2>1. j = <<"hires", base>>
        BY <1>9
  <2>2. base \in ANIMA
        BY <1>1, <1>9
  <2>3. ~derived
        BY <1>1, <1>9
  <2>4. j \in Jobs
        BY <1>1, <1>9, <2>1, <2>2, HiresIsJob
  <2> HIDE DEF a, base, latent, derived, keep, j, job
  <2>5. j[1] = "hires"
        BY <2>1
  <2>6. j \in REDRAWS
        BY <2>4, <2>5 DEF REDRAWS
  <2>7. OnPixels(j) <=> derived \/ j[1] = "light"
        BY <2>3, <2>5 DEF OnPixels
  <2> QED
      BY <1>7, <2>6, <2>7 DEF derived
<1>10. CASE a.method = "light"
  <2>1. j = <<"light", base, alpha, depth>>
        BY <1>10
  <2>2. base \in ANIMA
        BY <1>1, <1>10
  <2>3. j \in Jobs
        BY <2>1, <2>2, LightIsJob
  <2> HIDE DEF a, base, latent, derived, keep, j, job
  <2>4. j[1] = "light"
        BY <2>1
  <2>5. j \in REDRAWS
        BY <2>3, <2>4 DEF REDRAWS
  <2>6. OnPixels(j) <=> derived \/ j[1] = "light"
        BY <2>4 DEF OnPixels
  <2> QED
      BY <1>7, <2>5, <2>6 DEF derived
<1> QED
    BY <1>2, <1>8, <1>9, <1>10

\* What a row that comes to nothing submits.
LEMMA RefuseSubmits ==
    ASSUME NEW kind, NEW why, Refuse(kind, why)
    PROVE  row'.jobs = {}
BY DEF Refuse, Idle

\* A delivery submits one graph, by its options.
LEMMA DeliverSubmits ==
    ASSUME NEW v, Deliver(v)
    PROVE  row'.jobs \subseteq Jobs /\ (row'.jobs # {} => row'.kind = "deliver")
<1>1. CASE DeliverRefusal(v) # "none"
      BY <1>1, RefuseSubmits DEF Deliver
<1>2. CASE DeliverRefusal(v) = "none"
  <2> DEFINE a == ArgumentsOf.deliver[v]
             more == a.see_through[2] > 100
             done(alpha) == Row("deliver", v, "done",
                                {<<"deliver", alpha, a.keep_scene, a.transparent, more>>}, {},
                                ResolvedOf.deliver[v])
  <2>1. v \in Taken.deliver
        BY <1>2, Zenon DEF DeliverRefusal
  <2>2. a.keep_scene \in BOOLEAN /\ a.transparent \in BOOLEAN /\ more \in BOOLEAN
    <3>1. more \in BOOLEAN
          OBVIOUS
    <3> HIDE DEF more
    <3>2. a.keep_scene \in BOOLEAN /\ a.transparent \in BOOLEAN
          BY <2>1, DeliverTyped, Zenon
    <3> QED
        BY <3>1, <3>2, Zenon
  <2>3. PICK alpha \in BOOLEAN : \E p, seq : Record(p, seq, done(alpha))
        BY <1>2, Zenon DEF Deliver
  <2>4. /\ DOMAIN done(alpha) = ROW /\ done(alpha).kind = "deliver"
        /\ done(alpha).jobs = {<<"deliver", alpha, a.keep_scene, a.transparent, more>>}
        BY RowHas
  <2> HIDE DEF a, more
  <2>5. <<"deliver", alpha, a.keep_scene, a.transparent, more>> \in Jobs
        BY <2>2, DeliverIsJob
  <2> HIDE DEF done
  <2> QED
      BY <2>3, <2>4, <2>5, RecordSubmits
<1> QED
    BY <1>1, <1>2

\* A blur submits one graph, by where the layers stand.
LEMMA DofSubmits ==
    ASSUME NEW v, Dof(v)
    PROVE  row'.jobs \subseteq Jobs /\ (row'.jobs # {} => row'.kind = "dof")
<1>1. CASE DofRefusal(v) # "none"
      BY <1>1, RefuseSubmits DEF Dof
<1>2. CASE DofRefusal(v) = "none"
  <2> DEFINE view == ArgumentsOf.dof[v].viewfinder
             job(depth) == IF Setting(chain).photo THEN <<"photo_dof", depth, view>>
                           ELSE <<"dof", HasBackdrop(chain), depth, view>>
             done(depth) == [Row("dof", v, "done", {job(depth)}, LayerRoles(chain),
                                 ResolvedOf.dof[v]) EXCEPT !.setting = Setting(chain)]
  <2>1. v \in Taken.dof
        BY <1>2, Zenon DEF DofRefusal
  <2>2. view \in VIEWS /\ HasBackdrop(chain) \in BOOLEAN
        BY <2>1, DofTyped DEF VIEWFINDERS, VIEWS, HasBackdrop
  <2>3. PICK depth \in BOOLEAN : \E p : Keep(p, done(depth))
        BY <1>2, Zenon DEF Dof
  <2>4. /\ DOMAIN done(depth) = ROW /\ done(depth).kind = "dof"
        /\ done(depth).jobs = {job(depth)}
    <3> DEFINE r == Row("dof", v, "done", {job(depth)}, LayerRoles(chain), ResolvedOf.dof[v])
    <3>1. DOMAIN r = ROW /\ r.kind = "dof" /\ r.jobs = {job(depth)}
          BY RowHas
    <3>2. done(depth) = [r EXCEPT !.setting = Setting(chain)]
          OBVIOUS
    <3> HIDE DEF r, job, done
    <3> QED
        BY <3>1, <3>2 DEF ROW
  <2>5. job(depth) \in Jobs
    <3> DEFINE back == HasBackdrop(chain)
    <3>1. back \in BOOLEAN
          BY <2>2
    <3>2. job(depth) \in {<<"photo_dof", depth, view>>, <<"dof", back, depth, view>>}
          OBVIOUS
    <3> HIDE DEF back, view, job
    <3> QED
        BY <2>2, <3>1, <3>2, DofIsJob
  <2> HIDE DEF done, job
  <2> QED
      BY <2>3, <2>4, <2>5, RecordSubmits
<1> QED
    BY <1>1, <1>2

\* A lens submits one graph.
LEMMA LensSubmits ==
    ASSUME NEW v, Lens(v)
    PROVE  row'.jobs \subseteq Jobs /\ (row'.jobs # {} => row'.kind = "lens")
<1> DEFINE done == Row("lens", v, "done", {<<"lens">>}, {}, ResolvedOf.lens[v])
<1>1. CASE LensRefusal(v) # "none"
      BY <1>1, RefuseSubmits DEF Lens
<1>2. CASE LensRefusal(v) = "none"
  <2>1. \E p : Keep(p, done)
        BY <1>2, Zenon DEF Lens
  <2>2. DOMAIN done = ROW /\ done.kind = "lens" /\ done.jobs = {<<"lens">>}
        BY RowHas
  <2> HIDE DEF done
  <2> QED
      BY <2>1, <2>2, RecordSubmits, PlainJobs
<1> QED
    BY <1>1, <1>2

\* A picture in a photo submits one graph.
LEMMA PhotoSubmits ==
    ASSUME NEW v, Photo(v)
    PROVE  row'.jobs \subseteq Jobs /\ (row'.jobs # {} => row'.kind = "photo")
<1> DEFINE done(depth) == Row("photo", v, "done", {<<"photo", depth>>}, FIGURE_ROLES,
                              ResolvedOf.photo[v])
<1>1. CASE PhotoRefusal(v) # "none"
      BY <1>1, RefuseSubmits DEF Photo
<1>2. CASE PhotoRefusal(v) = "none"
  <2>1. PICK depth \in BOOLEAN : \E p : Keep(p, done(depth))
        BY <1>2, Zenon DEF Photo
  <2>2. /\ DOMAIN done(depth) = ROW /\ done(depth).kind = "photo"
        /\ done(depth).jobs = {<<"photo", depth>>}
        BY RowHas
  <2>3. <<"photo", depth>> \in Jobs
        BY LayersIsJob
  <2> HIDE DEF done
  <2> QED
      BY <2>1, <2>2, <2>3, RecordSubmits
<1> QED
    BY <1>1, <1>2

\* A stage submits one graph, whether its canvas comes out empty or not.
LEMMA StageSubmits ==
    ASSUME NEW v, Stage(v)
    PROVE  row'.jobs \subseteq Jobs /\ (row'.jobs # {} => row'.kind = "stage")
<1> DEFINE a        == ArgumentsOf.stage[v]
           on_photo == a.photo # Null
           jobs     == {<<"stage", on_photo>>}
           empty(seen) == a.frame # Null /\ EmptyCanvas(FramesOf[v][seen])
<1>1. CASE StageRefusal(v) # "none"
      BY <1>1, RefuseSubmits DEF Stage
<1>2. CASE StageRefusal(v) = "none"
  <2>1. jobs \subseteq Jobs
    <3>1. on_photo \in BOOLEAN
          OBVIOUS
    <3> HIDE DEF on_photo
    <3> QED
        BY <3>1, LayersIsJob
  <2> DEFINE done(seen) ==
                 [Row("stage", v, "done", jobs, FIGURE_ROLES, StagedOf[v][seen])
                     EXCEPT !.light = StageLight(v), !.shadow = StageShadow(v)]
  <2>2. \/ row' = Row("stage", v, "render", jobs, FIGURE_ROLES, Null)
        \/ \E seen, p, seq : Record(p, seq, done(seen))
        BY <1>2, Zenon DEF Stage, StagePicture, StageLight, StageShadow
  <2> HIDE DEF jobs
  <2>3. CASE row' = Row("stage", v, "render", jobs, FIGURE_ROLES, Null)
        BY <2>1, <2>3, RowHas
  <2>4. ASSUME NEW seen, NEW p, NEW seq, Record(p, seq, done(seen))
        PROVE  row'.jobs = jobs /\ row'.kind = "stage"
    <3> DEFINE r == Row("stage", v, "done", jobs, FIGURE_ROLES, StagedOf[v][seen])
               d == [r EXCEPT !.light = StageLight(v), !.shadow = StageShadow(v)]
    <3>1. DOMAIN r = ROW /\ r.kind = "stage" /\ r.jobs = jobs
          BY RowHas
    <3>2. Record(p, seq, d)
          BY <2>4
    <3> HIDE DEF r
    <3>3. DOMAIN d = ROW /\ d.kind = "stage" /\ d.jobs = jobs
          BY <3>1 DEF ROW
    <3> HIDE DEF d
    <3> QED
        BY <3>2, <3>3, RecordSubmits
  <2> QED
      BY <2>1, <2>2, <2>3, <2>4
<1> QED
    BY <1>1, <1>2

\* A lighting submits one graph, by what is under it.
LEMMA LightingSubmits ==
    ASSUME NEW v, Lighting(v)
    PROVE  row'.jobs \subseteq Jobs /\ (row'.jobs # {} => row'.kind = "lighting")
<1> DEFINE backdrop == HasBackdrop(chain)
           done == Row("lighting", v, "done", {<<"lighting", backdrop>>}, LayerRoles(chain),
                       ResolvedOf.lighting[v])
<1>1. CASE LightingRefusal(v) # "none"
      BY <1>1, RefuseSubmits DEF Lighting
<1>2. CASE LightingRefusal(v) = "none"
  <2>1. \E p, seq : Record(p, seq, done)
        BY <1>2, Zenon DEF Lighting
  <2>2. DOMAIN done = ROW /\ done.kind = "lighting" /\ done.jobs = {<<"lighting", backdrop>>}
        BY RowHas
  <2>3. backdrop \in BOOLEAN
        BY DEF HasBackdrop
  <2> HIDE DEF backdrop
  <2>4. <<"lighting", backdrop>> \in Jobs
        BY <2>3, LayersIsJob
  <2> HIDE DEF done
  <2> QED
      BY <2>1, <2>2, <2>4, RecordSubmits
<1> QED
    BY <1>1, <1>2

\* A saturation submits one graph, by the assets it finds.
LEMMA SaturationSubmits ==
    ASSUME NEW v, Saturation(v)
    PROVE  row'.jobs \subseteq Jobs /\ (row'.jobs # {} => row'.kind = "saturation")
<1> DEFINE backdrop == "layer-backdrop" \in LayerRolesPresent(Source)
           read == FIGURE_ROLES \cup (IF backdrop THEN {"layer-backdrop"} ELSE {})
           done == Row("saturation", v, "done", {<<"saturation", backdrop>>}, read,
                       ResolvedOf.saturation[v])
<1>1. CASE SaturationRefusal(v) # "none"
      BY <1>1, RefuseSubmits DEF Saturation
<1>2. CASE SaturationRefusal(v) = "none"
  <2>1. \E p, seq : Record(p, seq, done)
        BY <1>2, Zenon DEF Saturation
  <2>2. DOMAIN done = ROW /\ done.kind = "saturation" /\ done.jobs = {<<"saturation", backdrop>>}
        BY RowHas
  <2>3. backdrop \in BOOLEAN
        OBVIOUS
  <2> HIDE DEF backdrop
  <2>4. <<"saturation", backdrop>> \in Jobs
        BY <2>3, LayersIsJob
  <2> HIDE DEF done
  <2> QED
      BY <2>1, <2>2, <2>4, RecordSubmits
<1> QED
    BY <1>1, <1>2

\* A redraw is made from the pixels it ought to be: those of its source, where
\* that is redrawn or repaired itself or is lit, and no others.
PixelsTold ==
    row.kind = "redraw" /\ Made =>
        \A job \in row.jobs \ {<<"cut">>} :
            job \in REDRAWS /\ (OnPixels(job) <=> IsDerived(Last(Before)) \/ job[1] = "light")
Submitted == row.jobs \subseteq Jobs /\ PixelsTold

\* An operation submits graphs the worker can build, and a redraw the one its
\* source calls for.
LEMMA SubmitStep ==
    ASSUME StudioInv, AllTyped, NEW v,
           Redraw(v) \/ Deliver(v) \/ Dof(v) \/ Lens(v) \/ Photo(v) \/ Stage(v) \/ Lighting(v)
               \/ Saturation(v)
    PROVE  Submitted'
<1>0. ASSUME row'.jobs = {}
      PROVE  Submitted'
      BY <1>0 DEF Submitted, PixelsTold
<1>a. ASSUME row'.jobs \subseteq Jobs, row'.jobs # {} => row'.kind # "redraw"
      PROVE  Submitted'
      BY <1>a DEF Submitted, PixelsTold
<1>1. CASE Redraw(v) /\ RedrawRefusal(v) # "none"
      BY <1>0, <1>1, RefuseSubmits DEF Redraw
<1>2. CASE Redraw(v) /\ RedrawRefusal(v) = "none"
  <2>1. PICK job \in REDRAWS : /\ row'.jobs \subseteq {job, <<"cut">>}
                               /\ OnPixels(job) <=> IsDerived(Source) \/ job[1] = "light"
        BY <1>2, RedrawSubmits
  <2>2. row'.jobs \subseteq Jobs
        BY <2>1, PlainJobs DEF REDRAWS
  <2>3. \E q : chain' = Append(chain, q)
        BY <1>2, RedrawRecords DEF Records
  <2>4. Made' => Last(Before)' = Source
    <3>1. Made' => Before' = chain
          BY <2>3, BeforeAdded
    <3> QED
        BY <3>1 DEF Last, Source
  <2>5. PixelsTold'
        BY <2>1, <2>4 DEF PixelsTold
  <2> QED
      BY <2>2, <2>5 DEF Submitted
<1>3. CASE Deliver(v)
      BY <1>3, <1>a, DeliverSubmits
<1>4. CASE Dof(v)
      BY <1>4, <1>a, DofSubmits
<1>5. CASE Lens(v)
      BY <1>5, <1>a, LensSubmits
<1>6. CASE Photo(v)
      BY <1>6, <1>a, PhotoSubmits
<1>7. CASE Stage(v)
      BY <1>7, <1>a, StageSubmits
<1>8. CASE Lighting(v)
      BY <1>8, <1>a, LightingSubmits
<1>9. CASE Saturation(v)
      BY <1>9, <1>a, SaturationSubmits
<1> QED
    BY <1>1, <1>2, <1>3, <1>4, <1>5, <1>6, <1>7, <1>8, <1>9

\* Every step keeps the graphs in order.
LEMMA SubmittedKept ==
    ASSUME StudioInv, AllTyped, DOMAIN row = ROW, Submitted, [Next]_vars
    PROVE  Submitted'
<1>1. CASE UNCHANGED vars
      BY <1>1 DEF vars, Submitted, PixelsTold, Made, Before
<1>2. CASE Report
      BY <1>2 DEF Report, Idle, Submitted, PixelsTold
<1>3. CASE Again
  <2>1. row'.jobs = row.jobs /\ row'.kind = row.kind /\ Made
        BY <1>3 DEF Again, ROW, Made
  <2>2. Made' => Before' = Before
        BY <1>3, <2>1, BeforeAgain DEF Before
  <2> QED
      BY <2>1, <2>2 DEF Submitted, PixelsTold
<1> QED
    BY <1>1, <1>2, <1>3, SubmitStep
    DEF Next, DoRedraw, DoDeliver, DoDof, DoLens, DoPhoto, DoStage, DoLighting, DoSaturation

\* A row submits graphs the worker can build, a redraw the one that starts from
\* the pixels of its source where they are not the base graph's.
THEOREM SubmittedSafe == Spec => []Submitted
<1>1. Init => Submitted
  <2>1. Idle.jobs = {}
        BY DEF Idle
  <2> QED
      BY <2>1 DEF Init, Submitted, PixelsTold
<1>2. Answers => DOMAIN row = ROW
      BY DEF Answers, Answer
<1> QED
    BY <1>1, <1>2, SubmittedKept, LineageSafe, RecordsTyped, AnswersSafe, PTL DEF Spec

\* The records of pictures and of the row have their types, of any lineage.
THEOREM TypeSafe == Spec => []TypeOK
<1>1. StudioInv /\ AllTyped /\ Answers /\ Submitted => TypeOK
  <2> SUFFICES ASSUME StudioInv, AllTyped, Answers, Submitted
               PROVE  TypeOK
      OBVIOUS
  <2>1. Len(chain) >= 1
        BY Numbered
  <2>2. ASSUME NEW i \in DOMAIN chain
        PROVE  LET p == chain[i]
               IN  /\ DOMAIN p = DOMAIN Picture("")
                   /\ p.kind \in KINDS \cup DERIVED_KINDS \cup LEGACY_DELIVERED \cup {"generate"}
                   /\ p.method \in {"", "canvas", "hires", "light"}
                   /\ p.light \in Lights /\ IsStroke(p.stroke)
                   /\ p.view \in VIEWFINDERS /\ p.output \in 0..1 /\ p.overlay \in BOOLEAN
                   /\ p.assets \subseteq AllRoles
                   /\ p.base \in ANIMA \cup FOREIGN \cup {NoBase}
    <3> DEFINE p == chain[i]
    <3>1. Typed(p) /\ p.assets \subseteq AllRoles
          BY <2>2, Zenon DEF AllTyped
    <3>2. DOMAIN p = DOMAIN Picture("")
          BY <2>2, PictureHas DEF StudioInv, Lineage, IsPicture
    <3>3. p.kind \in KINDS \cup DERIVED_KINDS \cup LEGACY_DELIVERED \cup {"generate"}
          BY <2>2 DEF StudioInv, Lineage, IsPicture, AllKinds
    <3> QED
        BY <3>1, <3>2, <3>3, Zenon DEF Typed, Methods, Bases
  <2>3. DOMAIN row = DOMAIN Idle /\ row.how \in Outcomes /\ row.read \subseteq LAYERS
        BY DEF Answers, Answer, Idle, ROW
  <2>4. row.how \in {"done", "torn", "render"} => row.posted \in RowOptions[row.kind]
    <3>1. \A kind \in KINDS : Goes(kind, row.posted) => row.posted \in RowOptions[kind]
          BY Zenon DEF Goes, Taken
    <3>2. row.how \in {"done", "torn"} => row.kind \in KINDS /\ Goes(row.kind, row.posted)
          BY DEF Answers, Answer
    <3>3. row.how = "render" => row.kind = "stage" /\ Goes("stage", row.posted)
          BY DEF Answers, Answer
    <3>4. "stage" \in KINDS
          BY DEF KINDS
    <3> QED
        BY <3>1, <3>2, <3>3, <3>4, Zenon
  <2>5. row.jobs \subseteq Jobs
        BY DEF Submitted
  <2> QED
      BY <2>1, <2>2, <2>3, <2>4, <2>5, Zenon DEF TypeOK
<1> QED
    BY <1>1, LineageSafe, RecordsTyped, AnswersSafe, SubmittedSafe, PTL

-----------------------------------------------------------------------------
(* What the graphs are worth.  The hypotheses say of each graph the worker *)
(* can build, however it comes to be asked for, what TLC finds by building *)
(* them all: Jobs depends on no constant.                                  *)

\* Any row submits graphs that ComfyUI takes and that save what it looks for.
THEOREM RunsSafe == ASSUME SOUND = Jobs PROVE Spec => []SubmittedRuns
<1>1. Submitted => SubmittedRuns
      BY DEF Submitted, SubmittedRuns
<1> QED
    BY <1>1, SubmittedSafe, PTL

\* The labels of any row's graphs tell its nodes apart, and its stages in order.
THEOREM LabelsSafe == ASSUME LABELLED = Jobs PROVE Spec => []LabelsInOrder
<1>1. Submitted => LabelsInOrder
      BY DEF Submitted, LabelsInOrder
<1> QED
    BY <1>1, SubmittedSafe, PTL

\* A redraw starts from its source's own pixels exactly where that is redrawn or
\* repaired, or is lit, whatever lineage lies behind it.
THEOREM PixelsSafe == ASSUME OWN = REDRAWS PROVE Spec => []OwnPixels
<1>1. Submitted => OwnPixels
      BY DEF Submitted, PixelsTold, OwnPixels
<1> QED
    BY <1>1, SubmittedSafe, PTL

-----------------------------------------------------------------------------
(* What a row reports of its options.                                      *)

(* ----------------------- frames that are filled in ---------------------- *)
\* A side is left open or given, and a range is one of two: either way it lies
\* in the range a frame may take, so that the canvas a frame is filled in with
\* is one a frame may be given.
LEMMA FilledFrame ==
    ASSUME NEW v, FrameOk(v), v # Null, NEW seen \in BOOLEAN,
           ~EmptyCanvas(Filled(FrameOf(v), seen))
    PROVE  FilledIn(FrameOf(v), Filled(FrameOf(v), seen))
<1> DEFINE frame == FrameOf(v)
           o == v[2]
           asked == Get(o, "canvas", Null)
           box == frame[2].box
           given == frame[2].canvas
           expand == frame[2].expand
           open(i) == given = Null \/ given[2][i] = Null
           low(side)  == IF Expands(expand, side) THEN -100 ELSE 0
           high(side) == IF Expands(expand, side) THEN 200 ELSE 100
           least(a, b) == IF a < b THEN a ELSE b
           most(a, b)  == IF a > b THEN a ELSE b
           first(i, side) == most(IF seen THEN least(At(box, i), 0) - FRAME_MARGIN
                                  ELSE At(box, i) - FRAME_MARGIN, low(side))
           last(i, side)  == least(IF seen THEN most(At(box, i), 100) + FRAME_MARGIN
                                   ELSE At(box, i) + FRAME_MARGIN, high(side))
           auto == <<first(1, "left"), first(2, "top"), last(3, "right"), last(4, "bottom")>>
           f == [i \in 1..4 |-> IF open(i) THEN Float(auto[i]) ELSE given[2][i]]
           c == List([i \in 1..4 |-> f[i]])
<1>1. RectOk(o.box) /\ CanvasRectOk(asked)
      BY Zenon DEF FrameOk
<1>2. box = RectOf(o.box) /\ given = CanvasRectOf(asked) /\ "canvas" \in DOMAIN frame[2]
  <2> DEFINE sides == Obj(Merge(Get(o, "sides", Obj(<<>>))[2], FRAME_SIDE_DEFAULTS))
             line == BandOf(Get(o, "line", Obj(FRAME_LINE)), FRAME_LINE)
             rim == BandOf(Get(o, "rim", Obj(FRAME_RIM)), FRAME_RIM)
             paper == AsHex(Get(o, "paper", Str("#ffffff")))
             canvas == CanvasRectOf(asked)
             grown == ExpandOf(Get(o, "expand", Bool(FALSE)))
             strokes == StrokesOf(Get(o, "strokes", List(<<>>)))
             rect == RectOf(o.box)
             r == [box |-> rect, sides |-> sides, line |-> line, rim |-> rim,
                   paper |-> paper, canvas |-> canvas, expand |-> grown, strokes |-> strokes]
  <2>1. frame = Obj(r)
        BY Zenon DEF FrameOf
  <2>2. frame[2] = r
        BY <2>1, ObjBody
  <2> HIDE DEF sides, line, rim, paper, canvas, grown, strokes, rect, frame
  <2>3. frame[2].box = rect /\ frame[2].canvas = canvas /\ "canvas" \in DOMAIN frame[2]
        BY <2>2
  <2> QED
      BY <2>3 DEF rect, canvas
<1>3. \A i \in 1..4 : At(box, i) \in -100..200
  <2>1. RectOk(box)
        BY <1>1, <1>2, RectAgain
  <2> HIDE DEF box
  <2>2. \A i \in 1..4 : FrameShareOk(box[2][i])
        BY <2>1, Zenon DEF RectOk
  <2>3. \A s : FrameShareOk(s) => s[2] \in -100..200
        BY DEF FrameShareOk, Within, IsNumber
  <2>4. \A i \in 1..4 : box[2][i][2] \in -100..200
        BY <2>2, <2>3, Zenon
  <2> QED
      BY <2>4, Zenon DEF At
<1>4. \A i \in 1..4 : ~open(i) => FrameShareOk(given[2][i]) /\ AsFloat(given[2][i]) = given[2][i]
  <2> SUFFICES ASSUME NEW i \in 1..4, given # Null, given[2][i] # Null
               PROVE  FrameShareOk(given[2][i]) /\ AsFloat(given[2][i]) = given[2][i]
      OBVIOUS
  <2> HIDE DEF asked
  <2> DEFINE g == [j \in 1..4 |-> IF asked[2][j] = Null THEN Null ELSE AsFloat(asked[2][j])]
  <2>1. asked # Null /\ given = List(g)
        BY <1>2 DEF CanvasRectOf
  <2>2. given[2] = g
        BY <2>1, Contents
  <2> HIDE DEF given
  <2>3. asked[2][i] # Null /\ given[2][i] = AsFloat(asked[2][i])
        BY <2>2
  <2>4. FrameShareOk(asked[2][i])
        BY <1>1, <2>1, <2>3 DEF CanvasRectOk
  <2> QED
      BY <2>3, <2>4, ShareAgain
<1>5. \A side : low(side) \in {-100, 0} /\ high(side) \in {100, 200}
      OBVIOUS
<1>6. Filled(frame, seen) = Obj([frame[2] EXCEPT !.canvas = FrameCanvas(frame, seen)])
      BY DEF Filled
<1>7. FrameCanvas(frame, seen) = List(f)
      BY Zenon DEF FrameCanvas
<1> HIDE DEF frame, box, given, low, high
<1>8. \A side : low(side) \in -100..0 /\ high(side) \in 100..200
      BY <1>5
<1>9. \A i \in 1..4 : \A side : first(i, side) \in -100..200 /\ last(i, side) \in -100..200
      BY <1>3, <1>8 DEF FRAME_MARGIN
<1> HIDE DEF first, last
<1>10. \A i \in 1..4 : auto[i] \in -100..200
       BY <1>9
<1> HIDE DEF auto
<1>11. \A i \in 1..4 : FrameShareOk(Float(auto[i])) /\ AsFloat(Float(auto[i])) = Float(auto[i])
       BY <1>10, Contents DEF FrameShareOk, Within, IsNumber, AsFloat
<1>12. \A i \in 1..4 : FrameShareOk(f[i]) /\ AsFloat(f[i]) = f[i]
  <2> HIDE DEF open
  <2> QED
      BY <1>4, <1>11
<1>13. \A i \in 1..4 : f[i][2] \in Int
       BY <1>12 DEF FrameShareOk, Within, IsNumber
<1>14. f = [i \in 1..4 |-> f[i]]
       OBVIOUS
<1> HIDE DEF f
<1>15. c[2] = [i \in 1..4 |-> f[i]]
       BY Contents
<1>16. Filled(frame, seen) = Obj([frame[2] EXCEPT !.canvas = c])
       BY <1>6, <1>7, <1>14
<1>17. "canvas" \in DOMAIN frame[2]
       BY <1>2
<1> HIDE DEF c
<1>18. Filled(frame, seen)[2].canvas = c
       BY <1>16, <1>17, ObjBody
<1>19. f[1][2] < f[3][2] /\ f[2][2] < f[4][2]
  <2>1. \A i \in 1..4 : At(c, i) = f[i][2]
        BY <1>15 DEF At
  <2>2. ~EmptyCanvas(Filled(frame, seen))
        BY DEF frame
  <2> QED
      BY <1>13, <1>18, <2>1, <2>2 DEF EmptyCanvas
<1> QED
    BY <1>12, <1>16, <1>19 DEF FilledIn, frame, c

\* The frame of a stage that is accepted is one that was given and is accepted.
LEMMA FrameIs ==
    ASSUME NEW v, StageAccepts(v), StageArguments(v).frame # Null
    PROVE  \E g : FrameOk(g) /\ g # Null /\ StageArguments(v).frame = FrameOf(g)
<1> DEFINE o == Body(v)
           given == Get(o, "frame", Null)
<1>1. "photo" \notin DOMAIN o
      BY PhotoStageAgain
<1>2. FrameOk(given)
      BY <1>1, Zenon DEF StageAccepts
<1>3. StageArguments(v).frame = FrameOf(given)
  <2> DEFINE lit == "light" \notin DOMAIN o
             thrown == "shadow_from" \notin DOMAIN o
             backdrop == Get(o, "backdrop", Str(DELIVER_DEFAULTS.backdrop))
             light == LightOf(Get(o, "light", Null))
  <2>1. StageArguments(v) =
            Staging(Get(o, "photo", Null), Null, Null, backdrop, Get(o, "shadow_from", Null),
                    thrown, light, lit, FrameOf(given))
        BY <1>1, StagedIn, Zenon
  <2> HIDE DEF lit, thrown, backdrop, light, given
  <2> QED
      BY <2>1, StagingIs
<1>4. given # Null
      BY <1>3 DEF FrameOf
<1> QED
    BY <1>2, <1>3, <1>4

\* What a stage reports: the frame came out by what was seen of the figure, and
\* its canvas is not empty.
Came(v, resolved) ==
    \E seen \in BOOLEAN :
       /\ resolved = StagedOf[v][seen]
       /\ ArgumentsOf.stage[v].frame # Null => ~EmptyCanvas(FramesOf[v][seen])

\* It makes the same stage again.
LEMMA CameAgain ==
    ASSUME NEW v \in Taken.stage, NEW resolved, Came(v, resolved)
    PROVE  LET first == ArgumentsOf.stage[v]
               again == StageArguments(resolved)
           IN  /\ StageAccepts(resolved)
               /\ [again EXCEPT !.frame = Null] = [first EXCEPT !.frame = Null]
               /\ \E seen \in BOOLEAN : FramesOf[v][seen] = again.frame
<1>1. StageAccepts(v) /\ ArgumentsOf.stage[v] = StageArguments(v)
      BY DEF Taken, Accepts, ArgumentsOf, Arguments, KINDS
<1>2. PICK seen \in BOOLEAN : /\ resolved = StagedOf[v][seen]
                              /\ StageArguments(v).frame # Null => ~EmptyCanvas(FramesOf[v][seen])
      BY <1>1 DEF Came
<1> DEFINE frame == StageArguments(v).frame
           came == FramesOf[v][seen]
<1>3. came = IF frame = Null THEN Null ELSE Filled(frame, seen)
      BY <1>1, Zenon DEF FramesOf
<1>4. resolved = StageResolved(v, came)
      BY <1>2, Zenon DEF StagedOf
<1>5. IF frame = Null THEN came = Null ELSE FilledIn(frame, came)
  <2>1. CASE frame = Null
        BY <1>3, <2>1
  <2>2. CASE frame # Null
    <3>1. PICK g : FrameOk(g) /\ g # Null /\ frame = FrameOf(g)
          BY <1>1, <2>2, FrameIs
    <3>2. came = Filled(FrameOf(g), seen) /\ ~EmptyCanvas(came)
          BY <1>2, <1>3, <2>2, <3>1
    <3>3. FilledIn(FrameOf(g), Filled(FrameOf(g), seen))
          BY <3>1, <3>2, FilledFrame
    <3> QED
        BY <2>2, <3>1, <3>2, <3>3
  <2> QED
      BY <2>1, <2>2
<1> HIDE DEF came
<1>6. StageAgain(v, came)
      BY <1>1, <1>5, StageIsAgain
<1> QED
    BY <1>1, <1>4, <1>6, Zenon DEF StageAgain, came

-----------------------------------------------------------------------------
(* What a row reports.                                                     *)

\* A row that came out reports its options resolved, a stage by its frame.
Reports(r) ==
    r.how \in {"done", "torn"} =>
        IF r.kind = "stage" THEN Came(r.posted, r.resolved)
        ELSE r.resolved = ResolvedOf[r.kind][r.posted]
Told == Reports(row)

\* An operation reports what it resolved.
LEMMA ReportStep ==
    ASSUME NEW v,
           Redraw(v) \/ Deliver(v) \/ Dof(v) \/ Lens(v) \/ Photo(v) \/ Stage(v) \/ Lighting(v)
               \/ Saturation(v)
    PROVE  Reports(row')
<1>0. ASSUME NEW kind, NEW why \in REFUSALS, Refuse(kind, why)
      PROVE  Reports(row')
  <2>1. row'.how = why
        BY <1>0 DEF Refuse, Idle
  <2> QED
      BY <2>1 DEF Reports, REFUSALS
<1>a. ASSUME NEW p, NEW X, NEW done, Records(p, X, done),
             IF done.kind = "stage" THEN Came(done.posted, done.resolved)
             ELSE done.resolved = ResolvedOf[done.kind][done.posted]
      PROVE  Reports(row')
  <2>1. row'.kind = done.kind /\ row'.posted = done.posted /\ row'.resolved = done.resolved
        BY <1>a DEF Records, Answered
  <2> QED
      BY <1>a, <2>1 DEF Reports
<1>b. ASSUME NEW kind, kind # "stage", NEW p, NEW X, NEW jobs, NEW read,
             Records(p, X, Row(kind, v, "done", jobs, read, ResolvedOf[kind][v]))
      PROVE  Reports(row')
  <2> DEFINE done == Row(kind, v, "done", jobs, read, ResolvedOf[kind][v])
  <2>1. done.kind = kind /\ done.posted = v /\ done.resolved = ResolvedOf[kind][v]
        BY RowHas
  <2>2. Records(p, X, done)
        BY <1>b
  <2> HIDE DEF done
  <2> QED
      BY <1>a, <1>b, <2>1, <2>2
<1>1. CASE Redraw(v)
  <2>1. CASE RedrawRefusal(v) # "none"
        BY <1>0, <1>1, <2>1, RefusalsAre DEF Redraw
  <2> QED
      BY <1>b, <1>1, <2>1, RedrawRecords
<1>2. CASE Deliver(v)
  <2>1. CASE DeliverRefusal(v) # "none"
        BY <1>0, <1>2, <2>1, RefusalsAre DEF Deliver
  <2> QED
      BY <1>b, <1>2, <2>1, DeliverRecords
<1>3. CASE Dof(v)
  <2>1. CASE DofRefusal(v) # "none"
        BY <1>0, <1>3, <2>1, RefusalsAre DEF Dof
  <2>2. CASE DofRefusal(v) = "none"
    <3>1. PICK i, jobs : Records(DofPicture(v, i), {},
                      [Row("dof", v, "done", jobs, LayerRoles(chain), ResolvedOf.dof[v])
                           EXCEPT !.setting = Setting(chain)])
          BY <1>3, <2>2, DofRecords
    <3> DEFINE done == [Row("dof", v, "done", jobs, LayerRoles(chain), ResolvedOf.dof[v])
                           EXCEPT !.setting = Setting(chain)]
    <3>2. done.kind = "dof" /\ done.posted = v /\ done.resolved = ResolvedOf.dof[v]
          BY RowHas DEF ROW
    <3>3. Records(DofPicture(v, i), {}, done)
          BY <3>1
    <3> HIDE DEF done
    <3> QED
        BY <1>a, <3>2, <3>3
  <2> QED
      BY <2>1, <2>2
<1>4. CASE Lens(v)
  <2>1. CASE LensRefusal(v) # "none"
        BY <1>0, <1>4, <2>1, RefusalsAre DEF Lens
  <2> QED
      BY <1>b, <1>4, <2>1, LensRecords
<1>5. CASE Photo(v)
  <2>1. CASE PhotoRefusal(v) # "none"
        BY <1>0, <1>5, <2>1, RefusalsAre DEF Photo
  <2> QED
      BY <1>b, <1>5, <2>1, PhotoRecords
<1>6. CASE Stage(v)
  <2>1. CASE StageRefusal(v) # "none"
        BY <1>0, <1>6, <2>1, RefusalsAre DEF Stage
  <2>2. CASE StageRefusal(v) = "none"
    <3> DEFINE empty(seen) == /\ ArgumentsOf.stage[v].frame # Null
                              /\ EmptyCanvas(FramesOf[v][seen])
               done(jobs, seen) ==
                   [Row("stage", v, "done", jobs, FIGURE_ROLES, StagedOf[v][seen])
                       EXCEPT !.light = StageLight(v), !.shadow = StageShadow(v)]
    <3>1. \/ \E jobs : row' = Row("stage", v, "render", jobs, FIGURE_ROLES, Null)
          \/ \E jobs : \E seen \in BOOLEAN :
                ~empty(seen) /\ Record(StagePicture(v), LayerSeq(TRUE), done(jobs, seen))
          BY <1>6, <2>2, Zenon DEF Stage, StagePicture, StageLight, StageShadow
    <3>2. CASE \E jobs : row' = Row("stage", v, "render", jobs, FIGURE_ROLES, Null)
      <4>1. row'.how = "render"
            BY <3>2, RowHas
      <4> QED
          BY <4>1 DEF Reports
    <3>3. ASSUME NEW jobs, NEW seen \in BOOLEAN, ~empty(seen),
                 Record(StagePicture(v), LayerSeq(TRUE), done(jobs, seen))
          PROVE  Reports(row')
      <4> DEFINE r == Row("stage", v, "done", jobs, FIGURE_ROLES, StagedOf[v][seen])
                 d == [r EXCEPT !.light = StageLight(v), !.shadow = StageShadow(v)]
      <4>1. DOMAIN r = ROW /\ r.kind = "stage" /\ r.posted = v /\ r.resolved = StagedOf[v][seen]
            BY RowHas
      <4>2. Record(StagePicture(v), LayerSeq(TRUE), d)
            BY <3>3
      <4> HIDE DEF r
      <4>3. /\ DOMAIN d = ROW /\ d.kind = "stage" /\ d.posted = v
            /\ d.resolved = StagedOf[v][seen]
            BY <4>1 DEF ROW
      <4> HIDE DEF d
      <4>4. DOMAIN StagePicture(v) = FIELDS
            BY DEF StagePicture, Picture, FIELDS
      <4>5. Records(StagePicture(v), ToSet(LayerSeq(TRUE)), d)
            BY <4>2, <4>3, <4>4, RolesInTurn, RecordRecords
      <4>6. Came(v, StagedOf[v][seen])
            BY <3>3 DEF Came
      <4> QED
          BY <1>a, <4>3, <4>5, <4>6
    <3> QED
        BY <3>1, <3>2, <3>3, Zenon
  <2> QED
      BY <2>1, <2>2
<1>7. CASE Lighting(v)
  <2>1. CASE LightingRefusal(v) # "none"
        BY <1>0, <1>7, <2>1, RefusalsAre DEF Lighting
  <2> QED
      BY <1>b, <1>7, <2>1, LightingRecords
<1>8. CASE Saturation(v)
  <2>1. CASE SaturationRefusal(v) # "none"
        BY <1>0, <1>8, <2>1, RefusalsAre DEF Saturation
  <2> QED
      BY <1>b, <1>8, <2>1, SaturationRecords
<1> QED
    BY <1>1, <1>2, <1>3, <1>4, <1>5, <1>6, <1>7, <1>8

\* An attach cut short and made up for reports what it would have.
LEMMA ToldKept ==
    ASSUME Answers, Told, [Next]_vars
    PROVE  Told'
<1>1. CASE UNCHANGED vars
      BY <1>1 DEF vars, Told
<1>2. CASE Report
      BY <1>2 DEF Report, Told, Reports, Idle
<1>3. CASE Again
  <2>1. /\ row.how = "torn" /\ row'.how = "done" /\ row'.kind = row.kind
        /\ row'.posted = row.posted /\ row'.resolved = row.resolved
        BY <1>3 DEF Again, Answers, Answer, ROW
  <2> QED
      BY <2>1 DEF Told, Reports
<1> QED
    BY <1>1, <1>2, <1>3, ReportStep
    DEF Told, Next, DoRedraw, DoDeliver, DoDof, DoLens, DoPhoto, DoStage, DoLighting, DoSaturation

\* What a row that came out reports is accepted, and is the same again.
LEMMA ToldAgain ==
    ASSUME Answers, Told
    PROVE  ResolvedRunsAgain
<1> DEFINE kind == row.kind
           v == row.posted
           w == row.resolved
<1> SUFFICES ASSUME row.how = "done"
             PROVE  Accepts(kind, w) /\ SameArguments(Arguments(kind, w))
    BY DEF ResolvedRunsAgain
<1>1. kind \in KINDS /\ v \in Taken[kind]
      BY DEF Answers, Answer, Goes
<1>2. Accepts(kind, v) /\ ArgumentsOf[kind][v] = Arguments(kind, v)
      BY <1>1 DEF Taken, ArgumentsOf
<1>3. CASE kind = "stage"
  <2>1. Came(v, w) /\ v \in Taken.stage
        BY <1>1, <1>3 DEF Told, Reports
  <2>2. /\ StageAccepts(w)
        /\ [StageArguments(w) EXCEPT !.frame = Null] = [ArgumentsOf.stage[v] EXCEPT !.frame = Null]
        /\ \E seen \in BOOLEAN : FramesOf[v][seen] = StageArguments(w).frame
        BY <2>1, CameAgain
  <2>3. Accepts(kind, w) /\ Arguments(kind, w) = StageArguments(w)
        BY <1>3, <2>2 DEF Accepts, Arguments
  <2> QED
      BY <1>3, <2>2, <2>3, Zenon DEF SameArguments
<1>4. ASSUME kind # "stage", Accepts(kind, w), Arguments(kind, w) = Arguments(kind, v)
      PROVE  Accepts(kind, w) /\ SameArguments(Arguments(kind, w))
      BY <1>2, <1>4, Zenon DEF SameArguments
<1>5. kind # "stage" => w = Resolved(kind, v)
      BY <1>1 DEF Told, Reports, ResolvedOf
<1>6. CASE kind = "redraw"
      BY <1>2, <1>4, <1>5, <1>6, RedrawIsAgain DEF Accepts, Arguments, Resolved, RedrawAgain
<1>7. CASE kind = "deliver"
      BY <1>2, <1>4, <1>5, <1>7, DeliverIsAgain DEF Accepts, Arguments, Resolved, DeliverAgain
<1>8. CASE kind = "dof"
      BY <1>2, <1>4, <1>5, <1>8, DofIsAgain DEF Accepts, Arguments, Resolved, DofAgain
<1>9. CASE kind = "lens"
      BY <1>2, <1>4, <1>5, <1>9, LensIsAgain DEF Accepts, Arguments, Resolved, LensAgain
<1>10. CASE kind = "photo"
      BY <1>2, <1>4, <1>5, <1>10, PhotoIsAgain DEF Accepts, Arguments, Resolved, PhotoAgain
<1>11. CASE kind = "lighting"
      BY <1>2, <1>4, <1>5, <1>11, LightingIsAgain DEF Accepts, Arguments, Resolved, LightingAgain
<1>12. CASE kind = "saturation"
      BY <1>2, <1>4, <1>5, <1>12, SaturationIsAgain DEF Accepts, Arguments, Resolved, SaturationAgain
<1> QED
    BY <1>1, <1>3, <1>6, <1>7, <1>8, <1>9, <1>10, <1>11, <1>12 DEF KINDS

\* resolved_options, posted again, are accepted and make the same picture,
\* whatever JSON the row was posted with.
THEOREM ResolvedSafe == Spec => []ResolvedRunsAgain
<1>1. Init => Told
  <2>1. Idle.how = ""
        BY DEF Idle
  <2> QED
      BY <2>1 DEF Init, Told, Reports
<1>2. Answers /\ Told => ResolvedRunsAgain
      BY ToldAgain
<1>3. Spec => []Told
      BY <1>1, ToldKept, AnswersSafe, PTL DEF Spec
<1> QED
    BY <1>2, <1>3, AnswersSafe, PTL
==================================================================================
