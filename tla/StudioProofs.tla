------------------------------ MODULE StudioProofs -------------------------------
(********************************************************************************)
(* What holds of every lineage, for any rows, roots and bounds: the order of    *)
(* the operations, the viewfinder no operation works on and the LayerDiffuse    *)
(* drawings none takes; the layers of a picture, why what an operation reads    *)
(* is there, and where a blur finds that the layers stand.                      *)
(*                                                                              *)
(* A step of Studio leaves the lineage as it was, adds a picture to it or       *)
(* completes its last one (LineageStep).  An operation adds a picture only      *)
(* past its refusals, so that the first three properties come down to what the  *)
(* refusals say of the source (one lemma per operation); the options the rows   *)
(* are posted with stay uninterpreted throughout.                               *)
(*                                                                              *)
(* A saturation goes by the assets it finds, every other operation by the       *)
(* parameters of the lineage.  AttachedInv ties the two: a whole picture has    *)
(* the assets its parameters promise, a saturation those of what it was made    *)
(* from, and a picture's backdrop is that of the picture it rests on, under     *)
(* any run of saturations and lightings (RestsOn, Backed).  LayersMatch is      *)
(* that of every prefix of the lineage; a refusal for want of layers then       *)
(* comes down to an attach cut short (RefusedForLayers).                        *)
(*                                                                              *)
(* OneOrder says it of neighbours.  OrderedInv says it of the whole lineage:    *)
(* ranks grow, and no more redraws lie over a drawing than _load_source looks   *)
(* back.  With it a dof's setting is the last drawing or the only photo, and    *)
(* RowInv carries what a row read until it is reported.                         *)
(********************************************************************************)
EXTENDS Studio, SequenceTheorems, FiniteSetTheorems, WellFoundedInduction, TLAPS

FIELDS == {"kind", "method", "cut", "transparent", "light", "stroke", "photo", "framed",
           "view", "output", "overlay", "assets", "whole", "base"}
AllKinds == KINDS \cup DERIVED_KINDS \cup LEGACY_DELIVERED \cup {"generate"}

\* A picture an operation can look at: an overlay is on record.
IsPicture(p) ==
    DOMAIN p = FIELDS /\ p.kind \in AllKinds /\ (p.overlay => HasOverlay(p))

\* q is p but for its assets.
Same(q, p) ==
    /\ DOMAIN q = FIELDS
    /\ q.kind = p.kind /\ q.cut = p.cut /\ q.base = p.base
    /\ q.overlay = p.overlay /\ q.view = p.view /\ q.output = p.output

\* A lineage, in which an overlay is on record.
Lineage ==
    /\ chain \in Seq({chain[i] : i \in DOMAIN chain})
    /\ Len(chain) >= 1
    /\ \A i \in DOMAIN chain : IsPicture(chain[i])

\* A LayerDiffuse drawing has been repaired at most.
Diffuse == chain[1].base.made = "layerdiffuse"
DiffuseAlone ==
    Diffuse => \/ Len(chain) = 1 /\ chain[1].kind = "generate"
               \/ Len(chain) = 2 /\ chain[1].kind = "generate" /\ chain[2].kind \in LEGACY_REPAIRS

\* No lineage starts from what a delivery's layers were worked into.
RootFirst == Rank(chain[1]) \in {0, 5}

StudioInv == Lineage /\ RootFirst /\ DiffuseAlone /\ OneOrder /\ NoBentViewfinder

-----------------------------------------------------------------------------
(* Pictures.                                                               *)

\* A new picture has its fields, and no overlay.
LEMMA PictureHas ==
    ASSUME NEW kind
    PROVE  /\ DOMAIN Picture(kind) = FIELDS
           /\ Picture(kind).kind = kind /\ Picture(kind).overlay = FALSE
           /\ Picture(kind).cut = FALSE /\ Picture(kind).base = NoBase
BY DEF Picture, FIELDS

\* Attaching assets changes nothing else.
LEMMA AttachedIsSame ==
    ASSUME NEW p, DOMAIN p = FIELDS, NEW X, NEW b
    PROVE  Same([p EXCEPT !.assets = X], p) /\ Same([p EXCEPT !.assets = X, !.whole = b], p)
BY DEF FIELDS, Same

\* The picture is added to the lineage, with some of its assets.
Adds(p) == \E q : Same(q, p) /\ chain' = Append(chain, q)

LEMMA RecordAdds ==
    ASSUME NEW p, DOMAIN p = FIELDS, NEW assets, NEW done, Record(p, assets, done)
    PROVE  Adds(p)
<1>1. CASE chain' = Append(chain, [p EXCEPT !.assets = ToSet(assets)])
      BY <1>1, AttachedIsSame DEF Adds
<1>2. ASSUME NEW k, chain' = Append(chain, [p EXCEPT !.assets = ToSet(SubSeq(assets, 1, k)),
                                                     !.whole = FALSE])
      PROVE  Adds(p)
      BY <1>2, AttachedIsSame DEF Adds
<1> QED
    BY <1>1, <1>2 DEF Record

LEMMA KeepAdds ==
    ASSUME NEW p, DOMAIN p = FIELDS, NEW done, Keep(p, done)
    PROVE  Adds(p)
BY DEF Keep, Adds, Same

\* The source is the lineage's last picture.
LEMMA SourceIs ==
    ASSUME Lineage
    PROVE  IsPicture(Source) /\ Len(chain) \in Nat /\ Len(chain) \in DOMAIN chain
           /\ DOMAIN chain = 1..Len(chain)
<1>1. Len(chain) \in Nat /\ DOMAIN chain = 1..Len(chain)
      BY LenProperties DEF Lineage
<1>2. Len(chain) \in DOMAIN chain
      BY <1>1 DEF Lineage
<1> QED
    BY <1>1, <1>2 DEF Lineage, Source

-----------------------------------------------------------------------------
(* The operations.                                                         *)

\* What a picture that an operation adds to the lineage is to be.
Grown(p) == IsPicture(p) /\ Follows(Source, p) /\ ~Source.overlay /\ ~Diffuse
Added == \E p : Grown(p) /\ Adds(p)

\* A LayerDiffuse drawing is found under its repair, by a redraw and a deliver.
LEMMA DiffuseFound ==
    ASSUME Lineage, DiffuseAlone, Diffuse
    PROVE  /\ Source.kind \in {"generate"} \cup LEGACY_REPAIRS
           /\ DeliverBase(chain).made = "layerdiffuse"
           /\ Origin(chain) # 0 => BaseOf(Origin(chain)).made = "layerdiffuse"
<1> DEFINE found == {i \in DOMAIN chain : ~IsDerived(chain[i])
                         /\ \A j \in (i + 1)..Len(chain) : IsDerived(chain[j])}
<1>1. Source.kind \in {"generate"} \cup LEGACY_REPAIRS
      BY DEF DiffuseAlone, Source
<1>2. DeliverBase(chain).made = "layerdiffuse"
  <2>1. CASE Len(chain) = 1 /\ chain[1].kind = "generate"
        BY <2>1 DEF DeliverBase, LEGACY_REPAIRS, Diffuse
  <2>2. CASE Len(chain) = 2 /\ chain[2].kind \in LEGACY_REPAIRS
        BY <2>2 DEF DeliverBase, Diffuse
  <2> QED
      BY <2>1, <2>2 DEF DiffuseAlone
<1>3. found = {1}
  <2>1. DOMAIN chain = 1..Len(chain)
        BY SourceIs
  <2>2. ~IsDerived(chain[1])
        BY DEF DiffuseAlone, IsDerived, DERIVED_KINDS, LEGACY_REPAIRS
  <2>3. CASE Len(chain) = 1
        BY <2>1, <2>2, <2>3
  <2>4. CASE Len(chain) = 2 /\ chain[2].kind \in LEGACY_REPAIRS
    <3>1. IsDerived(chain[2]) /\ DOMAIN chain = {1, 2}
          BY <2>1, <2>4 DEF IsDerived, DERIVED_KINDS
    <3> QED
        BY <2>2, <2>4, <3>1
  <2> QED
      BY <2>3, <2>4 DEF DiffuseAlone
<1>4. Highest(found) = 1
      BY <1>3 DEF Highest
<1>5. Origin(chain) # 0 => Origin(chain) = 1
      BY <1>3, <1>4 DEF Origin
<1> QED
    BY <1>1, <1>2, <1>5 DEF BaseOf, Diffuse

\* A picture with an overlay is a dof.
LEMMA OverlaidIsDof ==
    ASSUME Lineage, Source.overlay
    PROVE  HasOverlay(Source) /\ Source.kind = "dof"
BY SourceIs DEF IsPicture, HasOverlay

\* The rank of each kind.
LEMMA Ranks ==
    ASSUME NEW p
    PROVE  /\ p.kind \in {"generate"} \cup DERIVED_KINDS => Rank(p) = 0
           /\ p.kind = "deliver" => Rank(p) = 1
           /\ p.kind = "saturation" => Rank(p) = 2
           /\ p.kind = "stage" => Rank(p) = 3
           /\ p.kind = "lighting" => Rank(p) = 4
           /\ p.kind \in {"dof", "photo"} \cup LEGACY_DELIVERED => Rank(p) = 5
           /\ p.kind = "lens" => Rank(p) = 6
BY DEF Rank, DERIVED_KINDS, LEGACY_REPAIRS, LEGACY_DELIVERED

\* Every picture of a lineage has one, and only what was delivered has any but 0.
LEMMA RankOf ==
    ASSUME NEW p, p.kind \in AllKinds
    PROVE  /\ Rank(p) \in 0..6
           /\ ~IsDelivered(p) => Rank(p) = 0 /\ p.kind \in {"generate"} \cup DERIVED_KINDS
           /\ IsDelivered(p) => Rank(p) > 0
<1>1. CASE p.kind \in {"generate"} \cup DERIVED_KINDS
  <2>1. ~IsDelivered(p)
        BY <1>1 DEF IsDelivered, DELIVERED_KINDS, LEGACY_DELIVERED, DERIVED_KINDS, LEGACY_REPAIRS
  <2> QED
      BY <1>1, <2>1, Ranks
<1>2. CASE p.kind \notin {"generate"} \cup DERIVED_KINDS
  <2>1. p.kind \in DELIVERED_KINDS
        BY <1>2 DEF AllKinds, KINDS, DELIVERED_KINDS, DERIVED_KINDS
  <2>2. Rank(p) \in 1..6
        BY <2>1, Ranks DEF DELIVERED_KINDS
  <2> QED
      BY <2>1, <2>2 DEF IsDelivered
<1> QED
    BY <1>1, <1>2

\* A picture that was not delivered is a drawing or redrawn.
LEMMA Undelivered ==
    ASSUME Lineage, ~IsDelivered(Source)
    PROVE  Rank(Source) = 0 /\ Source.kind \in {"generate"} \cup DERIVED_KINDS /\ ~Source.overlay
<1>1. Rank(Source) = 0 /\ Source.kind \in {"generate"} \cup DERIVED_KINDS
      BY SourceIs, RankOf DEF IsPicture
<1>2. Source.kind # "dof"
      BY <1>1 DEF DERIVED_KINDS, LEGACY_REPAIRS
<1> QED
    BY <1>1, <1>2, OverlaidIsDof

\* A redraw takes what was not delivered.
LEMMA RedrawStep ==
    ASSUME Lineage, DiffuseAlone, NEW v, Redraw(v)
    PROVE  chain' = chain \/ Added
<1> DEFINE a == ArgumentsOf.redraw[v]
           p == [Picture("redraw") EXCEPT !.method = a.method, !.cut = a.cut, !.light = a.light]
<1>1. CASE RedrawRefusal(v) # "none"
      BY <1>1 DEF Redraw, Refuse
<1>2. CASE RedrawRefusal(v) = "none"
  <2>1. /\ ~IsDelivered(Source) /\ Origin(chain) # 0
        /\ BaseOf(Origin(chain)).made # "layerdiffuse"
        BY <1>2, Zenon DEF RedrawRefusal
  <2>2. DOMAIN p = FIELDS /\ p.kind = "redraw" /\ p.overlay = FALSE
        BY DEF Picture, FIELDS
  <2>3. \E assets, done : Record(p, assets, done)
        BY <1>2, Zenon DEF Redraw
  <2> HIDE DEF p
  <2>4. Adds(p)
        BY <2>2, <2>3, RecordAdds
  <2>5. IsPicture(p) /\ Rank(p) = 0
        BY <2>2, Ranks DEF IsPicture, AllKinds, KINDS, DERIVED_KINDS
  <2>6. Follows(Source, p)
        BY <2>1, <2>5, Undelivered DEF Follows
  <2>7. Grown(p)
        BY <2>1, <2>5, <2>6, Undelivered, DiffuseFound DEF Grown
  <2> QED
      BY <2>4, <2>7 DEF Added
<1> QED
    BY <1>1, <1>2

\* So does a delivery.
LEMMA DeliverStep ==
    ASSUME Lineage, DiffuseAlone, NEW v, Deliver(v)
    PROVE  chain' = chain \/ Added
<1> DEFINE a == ArgumentsOf.deliver[v]
           p == [Picture("deliver") EXCEPT !.transparent = a.transparent,
                    !.light = LightDelivered(v), !.stroke = StrokeDelivered(v)]
<1>1. CASE DeliverRefusal(v) # "none"
      BY <1>1 DEF Deliver, Refuse
<1>2. CASE DeliverRefusal(v) = "none"
  <2>1. ~IsDelivered(Source) /\ DeliverBase(chain).made # "layerdiffuse"
        BY <1>2, Zenon DEF DeliverRefusal
  <2>2. DOMAIN p = FIELDS /\ p.kind = "deliver" /\ p.overlay = FALSE
        BY DEF Picture, FIELDS
  <2>3. \E assets, done : Record(p, assets, done)
        BY <1>2, Zenon DEF Deliver
  <2> HIDE DEF p
  <2>4. Adds(p)
        BY <2>2, <2>3, RecordAdds
  <2>5. IsPicture(p) /\ Rank(p) = 1
        BY <2>2, Ranks DEF IsPicture, AllKinds, KINDS
  <2>6. Follows(Source, p)
        BY <2>1, <2>5, Undelivered DEF Follows
  <2>7. Grown(p)
        BY <2>1, <2>5, <2>6, Undelivered, DiffuseFound DEF Grown
  <2> QED
      BY <2>4, <2>7 DEF Added
<1> QED
    BY <1>1, <1>2

\* What works on layers takes a delivery, what was made from one, or a cut
\* redraw; none of them is a LayerDiffuse drawing.
LEMMA Delivered ==
    ASSUME Lineage, DiffuseAlone, IsDelivered(Source) \/ IsCutRedraw(Source)
    PROVE  ~Diffuse /\ (IsCutRedraw(Source) => Source.kind = "redraw" /\ Rank(Source) = 0)
                    /\ (~IsCutRedraw(Source) => Rank(Source) > 0)
<1>1. IsCutRedraw(Source) => Source.kind = "redraw" /\ Rank(Source) = 0
      BY Ranks DEF IsCutRedraw, DERIVED_KINDS
<1>2. Diffuse => Source.kind \in {"generate"} \cup LEGACY_REPAIRS
      BY DiffuseFound
<1>3. ~Diffuse
      BY <1>2 DEF IsDelivered, IsCutRedraw, DELIVERED_KINDS, LEGACY_DELIVERED, LEGACY_REPAIRS
<1>4. IsDelivered(Source) => Rank(Source) > 0
      BY SourceIs, RankOf DEF IsPicture
<1> QED
    BY <1>1, <1>3, <1>4

\* It adds its picture where it comes later than the source.
LEMMA Later ==
    ASSUME Lineage, DiffuseAlone, IsDelivered(Source) \/ IsCutRedraw(Source), ~Source.overlay,
           NEW p, IsPicture(p), Adds(p), Rank(p) > 1,
           IsCutRedraw(Source) \/ Rank(Source) < Rank(p) \/ (Rank(Source) = 6 /\ Rank(p) = 6)
    PROVE  Added
<1>1. ~Diffuse
      BY Delivered
<1>2. CASE IsCutRedraw(Source)
  <2>1. Rank(Source) = 0 /\ Rank(p) \in 0..6
        BY <1>2, Delivered, RankOf DEF IsPicture
  <2>2. Follows(Source, p)
        BY <1>2, <2>1 DEF Follows
  <2> QED
      BY <1>1, <2>2 DEF Grown, Added
<1>3. CASE ~IsCutRedraw(Source)
  <2>1. Rank(Source) > 0
        BY <1>3, Delivered
  <2>2. Follows(Source, p)
        BY <1>3, <2>1 DEF Follows
  <2> QED
      BY <1>1, <2>2 DEF Grown, Added
<1> QED
    BY <1>2, <1>3

\* A lens takes all that was delivered, but nothing with an overlay.
LEMMA LensStep ==
    ASSUME Lineage, DiffuseAlone, NEW v, Lens(v)
    PROVE  chain' = chain \/ Added
<1>1. CASE LensRefusal(v) # "none"
      BY <1>1 DEF Lens, Refuse
<1>2. CASE LensRefusal(v) = "none"
  <2>1. ~NotADelivery /\ ~HasOverlay(Source)
        BY <1>2, Zenon DEF LensRefusal
  <2>2. IsDelivered(Source) \/ IsCutRedraw(Source)
        BY <2>1 DEF NotADelivery
  <2>3. ~Source.overlay
        BY <2>1, OverlaidIsDof
  <2>4. PICK done : Keep(Picture("lens"), done)
        BY <1>2, Zenon DEF Lens
  <2>5. Adds(Picture("lens")) /\ IsPicture(Picture("lens")) /\ Rank(Picture("lens")) = 6
        BY <2>4, PictureHas, KeepAdds, Ranks DEF IsPicture, AllKinds, KINDS
  <2>6. IsCutRedraw(Source) \/ Rank(Source) < 6 \/ Rank(Source) = 6
        BY SourceIs, RankOf DEF IsPicture
  <2> QED
      BY <2>2, <2>3, <2>5, <2>6, Later
<1> QED
    BY <1>1, <1>2

\* What takes a delivery, or what a step or two later stage made of it, takes
\* no picture with an overlay, and only what comes before its own rank.
LEMMA LayeredSource ==
    ASSUME Lineage, DiffuseAlone, NEW n \in 2..5,
           IsCutRedraw(Source) \/ Source.kind \in {"deliver", "saturation", "stage", "lighting"},
           Source.kind = "saturation" => n > 2,
           Source.kind = "stage" => n > 3,
           Source.kind = "lighting" => n > 4
    PROVE  /\ IsDelivered(Source) \/ IsCutRedraw(Source)
           /\ ~Source.overlay
           /\ IsCutRedraw(Source) \/ Rank(Source) < n
<1>1. IsDelivered(Source) \/ IsCutRedraw(Source)
      BY DEF IsDelivered, DELIVERED_KINDS
<1>2. Source.kind # "dof"
      BY DEF IsCutRedraw
<1>3. IsCutRedraw(Source) \/ Rank(Source) < n
      BY Ranks
<1> QED
    BY <1>1, <1>2, <1>3, OverlaidIsDof

\* A photo takes a delivery, saturated or not, or a cut redraw.
LEMMA PhotoStep ==
    ASSUME Lineage, DiffuseAlone, NEW v, Photo(v)
    PROVE  chain' = chain \/ Added
<1>1. CASE PhotoRefusal(v) # "none"
      BY <1>1 DEF Photo, Refuse
<1>2. CASE PhotoRefusal(v) = "none"
  <2>1. Source.kind \in {"deliver", "saturation"} \/ IsCutRedraw(Source)
        BY <1>2, Zenon DEF PhotoRefusal
  <2>2. PICK done : Keep(Picture("photo"), done)
        BY <1>2, Zenon DEF Photo
  <2>3. Adds(Picture("photo")) /\ IsPicture(Picture("photo")) /\ Rank(Picture("photo")) = 5
        BY <2>2, PictureHas, KeepAdds, Ranks DEF IsPicture, AllKinds, KINDS
  <2>4. /\ IsDelivered(Source) \/ IsCutRedraw(Source)
        /\ ~Source.overlay /\ (IsCutRedraw(Source) \/ Rank(Source) < 5)
        BY <2>1, LayeredSource
  <2> QED
      BY <2>3, <2>4, Later
<1> QED
    BY <1>1, <1>2

\* So does a saturation, but for a saturated one.
LEMMA SaturationStep ==
    ASSUME Lineage, DiffuseAlone, NEW v, Saturation(v)
    PROVE  chain' = chain \/ Added
<1>1. CASE SaturationRefusal(v) # "none"
      BY <1>1 DEF Saturation, Refuse
<1>2. CASE SaturationRefusal(v) = "none"
  <2>1. Source.kind = "deliver" \/ IsCutRedraw(Source)
        BY <1>2, Zenon DEF SaturationRefusal
  <2>2. PICK assets, done : Record(Picture("saturation"), assets, done)
        BY <1>2, Zenon DEF Saturation
  <2>3. /\ Adds(Picture("saturation")) /\ IsPicture(Picture("saturation"))
        /\ Rank(Picture("saturation")) = 2
        BY <2>2, PictureHas, RecordAdds, Ranks DEF IsPicture, AllKinds, KINDS
  <2>4. Source.kind \notin {"saturation", "stage", "lighting"}
        BY <2>1 DEF IsCutRedraw
  <2>5. /\ IsDelivered(Source) \/ IsCutRedraw(Source)
        /\ ~Source.overlay /\ (IsCutRedraw(Source) \/ Rank(Source) < 2)
        BY <2>1, <2>4, LayeredSource
  <2> QED
      BY <2>3, <2>5, Later
<1> QED
    BY <1>1, <1>2

\* A lighting also takes a stage, but no lighting.
LEMMA LightingStep ==
    ASSUME Lineage, DiffuseAlone, NEW v, Lighting(v)
    PROVE  chain' = chain \/ Added
<1>1. CASE LightingRefusal(v) # "none"
      BY <1>1 DEF Lighting, Refuse
<1>2. CASE LightingRefusal(v) = "none"
  <2>1. Source.kind \in {"stage", "deliver", "saturation"} \/ IsCutRedraw(Source)
        BY <1>2, Zenon DEF LightingRefusal
  <2>2. PICK assets, done : Record(Picture("lighting"), assets, done)
        BY <1>2, Zenon DEF Lighting
  <2>3. /\ Adds(Picture("lighting")) /\ IsPicture(Picture("lighting"))
        /\ Rank(Picture("lighting")) = 4
        BY <2>2, PictureHas, RecordAdds, Ranks DEF IsPicture, AllKinds, KINDS
  <2>4. Source.kind # "lighting"
        BY <2>1 DEF IsCutRedraw
  <2>5. /\ IsDelivered(Source) \/ IsCutRedraw(Source)
        /\ ~Source.overlay /\ (IsCutRedraw(Source) \/ Rank(Source) < 4)
        BY <2>1, <2>4, LayeredSource
  <2> QED
      BY <2>3, <2>5, Later
<1> QED
    BY <1>1, <1>2

\* A stage takes a delivery, saturated or not, or a cut redraw.
LEMMA StageStep ==
    ASSUME Lineage, DiffuseAlone, NEW v, Stage(v)
    PROVE  chain' = chain \/ Added
<1> DEFINE a == ArgumentsOf.stage[v]
           p == [Picture("stage") EXCEPT !.photo = a.photo # Null, !.framed = a.frame # Null]
<1>1. CASE StageRefusal(v) # "none"
      BY <1>1 DEF Stage, Refuse
<1>2. CASE StageRefusal(v) = "none"
  <2>1. Source.kind \in {"deliver", "saturation"} \/ IsCutRedraw(Source)
        BY <1>2, Zenon DEF StageRefusal
  <2>2. DOMAIN p = FIELDS /\ p.kind = "stage" /\ p.overlay = FALSE
        BY DEF Picture, FIELDS
  <2>3. chain' = chain \/ \E assets, done : Record(p, assets, done)
        BY <1>2, Zenon DEF Stage
  <2> HIDE DEF p
  <2>4. IsPicture(p) /\ Rank(p) = 3
        BY <2>2, Ranks DEF IsPicture, AllKinds, KINDS
  <2>5. Source.kind \notin {"stage", "lighting"}
        BY <2>1 DEF IsCutRedraw
  <2>6. /\ IsDelivered(Source) \/ IsCutRedraw(Source)
        /\ ~Source.overlay /\ (IsCutRedraw(Source) \/ Rank(Source) < 3)
        BY <2>1, <2>5, LayeredSource
  <2>7. chain' = chain \/ Adds(p)
        BY <2>2, <2>3, RecordAdds
  <2> QED
      BY <2>4, <2>6, <2>7, Later
<1> QED
    BY <1>1, <1>2

\* A blur takes all that has layers.  Its picture has an overlay if it is the
\* only one, with the viewfinder on, or the second of two.
LEMMA DofStep ==
    ASSUME Lineage, DiffuseAlone, NEW v, Dof(v)
    PROVE  chain' = chain \/ Added
<1> DEFINE a == ArgumentsOf.dof[v]
           pictures == DofPictures(a.viewfinder)
           p(i) == [Picture("dof") EXCEPT !.view = a.viewfinder, !.output = i - 1,
                       !.overlay = a.viewfinder = "on" \/ pictures[i] = "-viewfinder"]
<1>1. CASE DofRefusal(v) # "none"
      BY <1>1 DEF Dof, Refuse
<1>2. CASE DofRefusal(v) = "none"
  <2>1. Source.kind \in LAYERED_KINDS \/ IsCutRedraw(Source)
        BY <1>2, Zenon DEF DofRefusal
  <2>2. PICK i \in DOMAIN pictures : \E done : Keep(p(i), done)
        BY <1>2, Zenon DEF Dof
  <2>3. DOMAIN p(i) = FIELDS /\ p(i).kind = "dof" /\ p(i).view = a.viewfinder /\ p(i).output = i - 1
        BY DEF Picture, FIELDS
  <2>4. p(i).overlay => a.viewfinder = "on" \/ pictures[i] = "-viewfinder"
        BY DEF Picture
  <2>5. pictures[i] = "-viewfinder" => a.viewfinder = "both" /\ i = 2
        BY <2>2 DEF DofPictures
  <2>6. p(i).overlay => HasOverlay(p(i))
        BY <2>3, <2>4, <2>5 DEF HasOverlay
  <2>7. IsPicture(p(i)) /\ Adds(p(i)) /\ Rank(p(i)) = 5
        BY <2>2, <2>3, <2>6, KeepAdds, Ranks DEF IsPicture, AllKinds, KINDS
  <2>8. /\ IsDelivered(Source) \/ IsCutRedraw(Source)
        /\ ~Source.overlay /\ (IsCutRedraw(Source) \/ Rank(Source) < 5)
        BY <2>1, LayeredSource DEF LAYERED_KINDS
  <2> HIDE DEF p
  <2> QED
      BY <2>7, <2>8, Later
<1> QED
    BY <1>1, <1>2

-----------------------------------------------------------------------------
(* The lineage.                                                            *)

\* The last picture's assets are completed.
Completed == \E q : Same(q, Source) /\ chain' = [chain EXCEPT ![Len(chain)] = q]

\* A step adds a picture, completes the last one or leaves the lineage alone.
LEMMA LineageStep ==
    ASSUME Lineage, DiffuseAlone, [Next]_vars
    PROVE  chain' = chain \/ Added \/ Completed
<1>1. ASSUME Again
      PROVE  Completed
  <2> DEFINE n == Len(chain)
             X == AssetsOf(Source, chain)
             q == [chain[n] EXCEPT !.assets = X, !.whole = TRUE]
  <2>1. n \in DOMAIN chain /\ DOMAIN chain[n] = FIELDS
        BY SourceIs DEF Lineage, IsPicture
  <2>2. chain' = [chain EXCEPT ![n].assets = X, ![n].whole = TRUE]
        BY <1>1 DEF Again
  <2>3. chain' = [chain EXCEPT ![n] = q]
        BY <2>1, <2>2
  <2>4. Same(q, chain[n])
        BY <2>1, AttachedIsSame
  <2> QED
      BY <2>3, <2>4 DEF Completed, Source
<1>2. ASSUME Report \/ UNCHANGED vars
      PROVE  chain' = chain
      BY <1>2 DEF Report, vars
<1> QED
    BY <1>1, <1>2, RedrawStep, DeliverStep, DofStep, LensStep, PhotoStep, StageStep,
       LightingStep, SaturationStep
    DEF Next, DoRedraw, DoDeliver, DoDof, DoLens, DoPhoto, DoStage, DoLighting, DoSaturation

\* Its assets are nothing a picture's place in the lineage depends on.
LEMMA SamePlace ==
    ASSUME NEW p, NEW q, Same(q, p)
    PROVE  /\ IsPicture(p) => IsPicture(q)
           /\ \A r : Follows(r, p) => Follows(r, q)
           /\ \A r : Follows(p, r) => Follows(q, r)
<1>1. Rank(q) = Rank(p) /\ (IsCutRedraw(q) <=> IsCutRedraw(p))
      BY DEF Same, Rank, IsCutRedraw
<1>2. IsPicture(p) => IsPicture(q)
      BY DEF Same, IsPicture, HasOverlay
<1> QED
    BY <1>1, <1>2 DEF Follows

\* A picture added keeps the lineage in order.
LEMMA AddedKeeps ==
    ASSUME StudioInv, Added
    PROVE  StudioInv'
<1> USE DEF StudioInv
<1>1. PICK p, q : Grown(p) /\ Same(q, p) /\ chain' = Append(chain, q)
      BY DEF Added, Adds
<1>2. /\ IsPicture(q) /\ Follows(Source, q) /\ ~Source.overlay /\ ~Diffuse
      BY <1>1, SamePlace DEF Grown
<1> DEFINE n == Len(chain)
           S == {chain[i] : i \in DOMAIN chain} \cup {q}
<1>3. n \in Nat /\ n >= 1 /\ DOMAIN chain = 1..n /\ Source = chain[n]
      BY SourceIs DEF Lineage, Source
<1>4. chain \in Seq(S) /\ q \in S
      BY SeqMonotonic DEF Lineage
<1>5. /\ chain' \in Seq(S) /\ Len(chain') = n + 1
      /\ \A i \in 1..n : chain'[i] = chain[i]
      /\ chain'[n + 1] = q
      BY <1>1, <1>4, AppendProperties
<1>6. DOMAIN chain' = 1..(n + 1)
      BY <1>5, LenProperties
<1> HIDE DEF n, S
<1>7. Lineage'
  <2>1. chain' \in Seq({chain'[i] : i \in DOMAIN chain'})
        BY <1>5, SeqOfRange DEF Range
  <2>2. \A i \in 1..(n + 1) : IsPicture(chain'[i])
        BY <1>2, <1>3, <1>5 DEF Lineage
  <2> QED
      BY <1>3, <1>5, <1>6, <2>1, <2>2 DEF Lineage
<1>8. OneOrder'
  <2>1. \A i \in 1..(n - 1) : Follows(chain'[i], chain'[i + 1])
        BY <1>3, <1>5 DEF OneOrder, n
  <2>2. Follows(chain'[n], chain'[n + 1])
        BY <1>2, <1>3, <1>5
  <2>3. \A i \in 1..n : i \in 1..(n - 1) \/ i = n
        BY <1>3
  <2>4. \A i \in 1..n : Follows(chain'[i], chain'[i + 1])
        BY <2>1, <2>2, <2>3
  <2> QED
      BY <1>3, <1>5, <2>4 DEF OneOrder
<1>9. NoBentViewfinder'
  <2>1. \A i \in 1..n : ~chain'[i].overlay
        BY <1>2, <1>3, <1>5 DEF NoBentViewfinder, n
  <2> QED
      BY <1>3, <1>5, <2>1 DEF NoBentViewfinder
<1>10. DiffuseAlone'
  <2>1. chain'[1] = chain[1]
        BY <1>3, <1>5
  <2> QED
      BY <1>2, <2>1 DEF DiffuseAlone, Diffuse
<1>11. RootFirst'
  <2>1. chain'[1] = chain[1]
        BY <1>3, <1>5
  <2> QED
      BY <2>1 DEF RootFirst
<1> QED
    BY <1>7, <1>8, <1>9, <1>10, <1>11

\* So does a picture completed.
LEMMA CompletedKeeps ==
    ASSUME StudioInv, Completed
    PROVE  StudioInv'
<1> USE DEF StudioInv
<1> DEFINE n == Len(chain)
           S(q) == {chain[i] : i \in DOMAIN chain} \cup {q}
<1>1. PICK q : Same(q, Source) /\ chain' = [chain EXCEPT ![n] = q]
      BY DEF Completed
<1>2. n \in Nat /\ n >= 1 /\ DOMAIN chain = 1..n /\ Source = chain[n]
      BY SourceIs DEF Lineage, Source
<1>3. chain \in Seq(S(q)) /\ q \in S(q)
      BY SeqMonotonic DEF Lineage
<1>4. /\ chain' \in Seq(S(q)) /\ Len(chain') = n
      /\ DOMAIN chain' = 1..n
      /\ \A i \in 1..n : chain'[i] = IF i = n THEN q ELSE chain[i]
  <2>1. chain' \in Seq(S(q)) /\ Len(chain') = n
        BY <1>1, <1>2, <1>3, ExceptSeq
  <2> QED
      BY <1>1, <1>2, <2>1
<1>5. \A i \in 1..n : Same(chain'[i], chain[i])
      BY <1>1, <1>2, <1>4 DEF Same, Lineage, IsPicture
<1> HIDE DEF n, S
<1>6. Lineage'
  <2>1. chain' \in Seq({chain'[i] : i \in DOMAIN chain'})
        BY <1>4, SeqOfRange DEF Range
  <2>2. \A i \in 1..n : IsPicture(chain'[i])
        BY <1>2, <1>5, SamePlace DEF Lineage
  <2> QED
      BY <1>2, <1>4, <2>1, <2>2 DEF Lineage
<1>7. OneOrder'
  <2>1. ASSUME NEW i \in 1..(n - 1)
        PROVE  Follows(chain'[i], chain'[i + 1])
    <3>1. i \in 1..n /\ i + 1 \in 1..n
          BY <1>2
    <3>2. Follows(chain[i], chain[i + 1])
          BY DEF OneOrder, n
    <3> QED
        BY <1>5, <3>1, <3>2, SamePlace
  <2> QED
      BY <1>4, <2>1 DEF OneOrder
<1>8. NoBentViewfinder'
  <2>1. ASSUME NEW i \in 1..(n - 1)
        PROVE  ~chain'[i].overlay
    <3>1. i \in 1..n /\ i # n
          BY <1>2
    <3>2. chain'[i] = chain[i]
          BY <1>4, <3>1
    <3> QED
        BY <3>2 DEF NoBentViewfinder, n
  <2> QED
      BY <1>4, <2>1 DEF NoBentViewfinder
<1>9. DiffuseAlone'
  <2>1. chain'[1].base = chain[1].base /\ \A i \in 1..n : chain'[i].kind = chain[i].kind
        BY <1>2, <1>5 DEF Same
  <2>2. CASE n = 1
        BY <1>4, <2>1, <2>2 DEF DiffuseAlone, Diffuse, n
  <2>3. CASE n = 2
        BY <1>4, <2>1, <2>3 DEF DiffuseAlone, Diffuse, n
  <2>4. CASE n # 1 /\ n # 2
        BY <2>1, <2>4 DEF DiffuseAlone, Diffuse, n
  <2> QED
      BY <2>2, <2>3, <2>4
<1>10. RootFirst'
  <2>1. chain'[1].kind = chain[1].kind
        BY <1>2, <1>5 DEF Same
  <2> QED
      BY <2>1 DEF RootFirst, Rank
<1> QED
    BY <1>6, <1>7, <1>8, <1>9, <1>10

\* The lineages the rows go on from.
LEMMA RootsInOrder == Init => StudioInv
<1> SUFFICES ASSUME Init PROVE StudioInv
    OBVIOUS
<1>1. chain \in Roots
      BY StudioAssumption DEF Init
<1>2. ASSUME NEW base, chain = <<Drawing(base)>>
      PROVE  StudioInv
  <2>1. Len(chain) = 1 /\ DOMAIN chain = 1..1 /\ chain[1] = Drawing(base)
        BY <1>2
  <2>2. IsPicture(Drawing(base)) /\ Drawing(base).kind = "generate"
        BY DEF Drawing, Picture, IsPicture, FIELDS, AllKinds
  <2>3. Lineage
        BY <1>2, <2>1, <2>2 DEF Lineage
  <2>4. RootFirst
        BY <2>1, <2>2, Ranks DEF RootFirst
  <2> QED
      BY <2>1, <2>2, <2>3, <2>4 DEF StudioInv, DiffuseAlone, OneOrder, NoBentViewfinder
<1>3. ASSUME NEW base, NEW kind \in LEGACY_REPAIRS, chain = <<Drawing(base), Picture(kind)>>
      PROVE  StudioInv
  <2>1. /\ Len(chain) = 2 /\ DOMAIN chain = {1, 2}
        /\ chain[1] = Drawing(base) /\ chain[2] = Picture(kind)
        BY <1>3
  <2>2. /\ IsPicture(Drawing(base)) /\ Drawing(base).kind = "generate"
        /\ Drawing(base).overlay = FALSE
        BY DEF Drawing, Picture, IsPicture, FIELDS, AllKinds
  <2>3. IsPicture(Picture(kind)) /\ Picture(kind).kind = kind
        BY PictureHas DEF IsPicture, AllKinds, DERIVED_KINDS
  <2>4. Rank(Drawing(base)) = 0 /\ Rank(Picture(kind)) = 0
        BY <2>2, <2>3, Ranks DEF DERIVED_KINDS
  <2>5. Follows(Drawing(base), Picture(kind))
        BY <2>4 DEF Follows
  <2>6. Lineage
        BY <1>3, <2>1, <2>2, <2>3 DEF Lineage
  <2> QED
      BY <2>1, <2>2, <2>3, <2>4, <2>5, <2>6
      DEF StudioInv, RootFirst, DiffuseAlone, OneOrder, NoBentViewfinder
<1>4. ASSUME NEW kind \in LEGACY_REPAIRS \cup LEGACY_DELIVERED \cup {"photo"},
             chain = <<Picture(kind)>>
      PROVE  StudioInv
  <2>1. Len(chain) = 1 /\ DOMAIN chain = 1..1 /\ chain[1] = Picture(kind)
        BY <1>4
  <2>2. IsPicture(Picture(kind)) /\ Picture(kind).base.made = "none"
    <3>1. NoBase.made = "none"
          BY DEF NoBase, Base
    <3>2. kind \in AllKinds
          BY DEF AllKinds, DERIVED_KINDS, KINDS
    <3> QED
        BY <3>1, <3>2, PictureHas DEF IsPicture
  <2>3. Lineage
        BY <1>4, <2>1, <2>2 DEF Lineage
  <2>4. RootFirst
    <3>1. Picture(kind).kind = kind
          BY PictureHas
    <3> QED
        BY <2>1, <3>1, Ranks DEF RootFirst, DERIVED_KINDS
  <2> QED
      BY <2>1, <2>2, <2>3, <2>4 DEF StudioInv, DiffuseAlone, Diffuse, OneOrder, NoBentViewfinder
<1> QED
    BY <1>1, <1>2, <1>3, <1>4 DEF Roots

\* The invariant is inductive.
THEOREM LineageSafe == Spec => []StudioInv
<1>1. StudioInv /\ [Next]_vars => StudioInv'
  <2>1. StudioInv /\ chain' = chain => StudioInv'
        BY DEF StudioInv, Lineage, RootFirst, DiffuseAlone, Diffuse, OneOrder,
           NoBentViewfinder
  <2> QED
      BY <2>1, LineageStep, AddedKeeps, CompletedKeeps DEF StudioInv
<1> QED
    BY <1>1, RootsInOrder, PTL DEF Spec

\* Every lineage is in order, whatever rows are posted on it.
THEOREM OrderSafe == Spec => []OneOrder
BY LineageSafe, PTL DEF StudioInv

\* Nothing is ever made from a picture with a viewfinder over it.
THEOREM ViewfinderSafe == Spec => []NoBentViewfinder
BY LineageSafe, PTL DEF StudioInv

\* A LayerDiffuse drawing is never delivered nor redrawn, nor its repair.
THEOREM DiffuseSafe == Spec => []NoLayerDiffuse
<1>1. StudioInv => NoLayerDiffuse
      BY SourceIs DEF StudioInv, DiffuseAlone, Diffuse, NoLayerDiffuse
<1> QED
    BY <1>1, LineageSafe, PTL

-----------------------------------------------------------------------------
(* The setting of a blur.                                                  *)

\* A blur of what has layers finds where they stand: the delivery or the cut
\* redraw they come from or the photo they were put in, however the picture
\* was saturated, staged and lit in between, is in reach of SETTING_HOPS.
SettingFound ==
    IsCutRedraw(Source) \/ Source.kind \in LAYERED_KINDS => Setting(chain).source # 0

\* Where a setting ends, and where it is found.
Ends(p) == \/ p.kind = "stage" /\ p.photo
           \/ IsCutRedraw(p)
           \/ p.kind \notin {"saturation", "stage", "lighting"}
Stands(p) == (p.kind = "stage" /\ p.photo) \/ IsCutRedraw(p) \/ p.kind = "deliver"

\* Within `hops` pictures up to the m-th, the last end is where layers stand.
Anchored(m, hops) ==
    \E i \in 1..m : /\ i > m - hops /\ Stands(chain[i])
                    /\ \A j \in (i + 1)..m : ~Ends(chain[j])

LEMMA AnchoredHere ==
    ASSUME NEW m \in Nat \ {0}, Stands(chain[m]), NEW hops \in Nat \ {0}
    PROVE  Anchored(m, hops)
BY DEF Anchored

LEMMA AnchoredBefore ==
    ASSUME NEW m \in Nat, m > 1, NEW hops \in Nat, Anchored(m - 1, hops), ~Ends(chain[m])
    PROVE  Anchored(m, hops + 1)
<1>1. PICK i \in 1..(m - 1) : /\ i > (m - 1) - hops /\ Stands(chain[i])
                              /\ \A j \in (i + 1)..(m - 1) : ~Ends(chain[j])
      BY DEF Anchored
<1>2. \A j \in (i + 1)..m : ~Ends(chain[j])
      BY <1>1
<1>3. i \in 1..m /\ i > m - (hops + 1)
      BY <1>1
<1> QED
    BY <1>1, <1>2, <1>3 DEF Anchored

\* What a picture with layers was made from.
LEMMA MadeFrom ==
    ASSUME StudioInv, NEW m \in DOMAIN chain, Rank(chain[m]) \in 1..4
    PROVE  /\ m \in Nat /\ m > 1 /\ m - 1 \in DOMAIN chain
           /\ \/ IsCutRedraw(chain[m - 1])
              \/ Rank(chain[m - 1]) \in 1..3 /\ Rank(chain[m - 1]) < Rank(chain[m])
              \/ Rank(chain[m]) = 1
<1>1. DOMAIN chain = 1..Len(chain) /\ Len(chain) \in Nat
      BY SourceIs DEF StudioInv
<1>2. m # 1
      BY DEF StudioInv, RootFirst
<1>3. m \in Nat /\ m > 1 /\ m - 1 \in DOMAIN chain /\ m - 1 \in 1..(Len(chain) - 1)
      BY <1>1, <1>2
<1>4. Follows(chain[m - 1], chain[m])
  <2>1. (m - 1) + 1 = m
        BY <1>3
  <2> QED
      BY <1>3, <2>1 DEF StudioInv, OneOrder
<1>5. Rank(chain[m - 1]) \in 0..6
      BY <1>3, RankOf DEF StudioInv, Lineage, IsPicture
<1>6. CASE Rank(chain[m]) > 1
      BY <1>3, <1>4, <1>5, <1>6 DEF Follows
<1> QED
    BY <1>3, <1>6

\* The kinds of the ranks.
LEMMA KindOf ==
    ASSUME NEW p, p.kind \in AllKinds
    PROVE  /\ Rank(p) = 1 => p.kind = "deliver"
           /\ Rank(p) = 2 => p.kind = "saturation"
           /\ Rank(p) = 3 => p.kind = "stage"
           /\ Rank(p) = 4 => p.kind = "lighting"
BY Ranks DEF AllKinds, KINDS, DERIVED_KINDS

\* A saturation, a stage or a lighting is as many hops further as its rank.
LEMMA AnchoredByRank ==
    ASSUME StudioInv, NEW m \in DOMAIN chain
    PROVE  /\ Rank(chain[m]) = 2 => Anchored(m, 2)
           /\ Rank(chain[m]) = 3 => Anchored(m, 3)
           /\ Rank(chain[m]) = 4 => Anchored(m, 4)
<1>0. \A k \in DOMAIN chain : k \in Nat \ {0} /\ chain[k].kind \in AllKinds
  <2>1. DOMAIN chain = 1..Len(chain) /\ Len(chain) \in Nat
        BY SourceIs DEF StudioInv
  <2> QED
      BY <2>1 DEF StudioInv, Lineage, IsPicture
<1>1. ASSUME NEW k \in DOMAIN chain, NEW hops \in Nat \ {0},
             IsCutRedraw(chain[k]) \/ Rank(chain[k]) = 1
      PROVE  Anchored(k, hops)
      BY <1>0, <1>1, KindOf, AnchoredHere DEF Stands
<1>2. ASSUME NEW k \in DOMAIN chain, Rank(chain[k]) = 2, NEW hops \in Nat, hops > 1
      PROVE  Anchored(k, hops)
  <2>1. /\ k \in Nat /\ k > 1 /\ k - 1 \in DOMAIN chain
        /\ IsCutRedraw(chain[k - 1]) \/ Rank(chain[k - 1]) = 1
    <3>1. Rank(chain[k]) \in 1..4 /\ Rank(chain[k]) # 1
          BY <1>2
    <3> QED
        BY <1>2, <3>1, MadeFrom
  <2>2. hops - 1 \in Nat \ {0} /\ (hops - 1) + 1 = hops
        BY <1>2
  <2>3. Anchored(k - 1, hops - 1)
        BY <1>1, <2>1, <2>2
  <2>4. ~Ends(chain[k])
        BY <1>0, <1>2, KindOf DEF Ends, IsCutRedraw
  <2>5. Anchored(k, (hops - 1) + 1)
        BY <2>1, <2>2, <2>3, <2>4, AnchoredBefore
  <2> QED
      BY <2>2, <2>5
<1>3. ASSUME NEW k \in DOMAIN chain, Rank(chain[k]) = 3, NEW hops \in Nat, hops > 2
      PROVE  Anchored(k, hops)
  <2>1. CASE chain[k].photo
    <3>1. Stands(chain[k])
          BY <1>0, <1>3, <2>1, KindOf DEF Stands
    <3> QED
        BY <1>0, <1>3, <3>1, AnchoredHere
  <2>2. CASE ~chain[k].photo
    <3>1. /\ k \in Nat /\ k > 1 /\ k - 1 \in DOMAIN chain
          /\ IsCutRedraw(chain[k - 1]) \/ Rank(chain[k - 1]) = 1 \/ Rank(chain[k - 1]) = 2
      <4>1. Rank(chain[k]) \in 1..4 /\ Rank(chain[k]) # 1
            BY <1>3
      <4> QED
          BY <1>3, <4>1, MadeFrom
    <3>2. hops - 1 \in Nat /\ hops - 1 > 1 /\ (hops - 1) + 1 = hops
          BY <1>3
    <3>3. Anchored(k - 1, hops - 1)
          BY <1>1, <1>2, <3>1, <3>2
    <3>4. ~Ends(chain[k])
          BY <1>0, <1>3, <2>2, KindOf DEF Ends, IsCutRedraw
    <3>5. Anchored(k, (hops - 1) + 1)
          BY <3>1, <3>2, <3>3, <3>4, AnchoredBefore
    <3> QED
        BY <3>2, <3>5
  <2> QED
      BY <2>1, <2>2
<1>4. ASSUME Rank(chain[m]) = 4
      PROVE  Anchored(m, 4)
  <2>1. /\ m \in Nat /\ m > 1 /\ m - 1 \in DOMAIN chain
        /\ \/ IsCutRedraw(chain[m - 1]) \/ Rank(chain[m - 1]) = 1
           \/ Rank(chain[m - 1]) = 2 \/ Rank(chain[m - 1]) = 3
    <3>1. Rank(chain[m]) \in 1..4 /\ Rank(chain[m]) # 1
          BY <1>4
    <3> QED
        BY <3>1, MadeFrom
  <2>2. Anchored(m - 1, 3)
        BY <1>1, <1>2, <1>3, <2>1
  <2>3. ~Ends(chain[m])
        BY <1>0, <1>4, KindOf DEF Ends, IsCutRedraw
  <2>4. Anchored(m, 3 + 1)
        BY <2>1, <2>2, <2>3, AnchoredBefore
  <2> QED
      BY <2>4
<1> QED
    BY <1>2, <1>3, <1>4

\* The highest member of a set.
LEMMA HighestIs ==
    ASSUME NEW S, S \subseteq Int, NEW i \in S, \A j \in S : j <= i
    PROVE  Highest(S) = i
<1>1. Highest(S) \in S /\ \A m \in S : m <= Highest(S)
      BY Zenon DEF Highest
<1>2. i <= Highest(S) /\ Highest(S) <= i /\ Highest(S) \in Int /\ i \in Int
      BY <1>1
<1> QED
    BY <1>2

\* The setting is that of the last picture that ends the search.
LEMMA SettingAt ==
    ASSUME StudioInv, NEW i \in 1..Len(chain), i > Len(chain) - SETTING_HOPS, Stands(chain[i]),
           \A j \in (i + 1)..Len(chain) : ~Ends(chain[j])
    PROVE  LET s      == Setting(chain)
               framed == \E j \in i..Len(chain) : chain[j].framed
           IN  /\ chain[i].kind = "stage" => s.source = i /\ s.photo = TRUE
               /\ IsCutRedraw(chain[i]) => /\ s.source = i /\ s.photo = FALSE
                                           /\ s.framed = framed
               /\ chain[i].kind = "deliver" => /\ i # 1 /\ s.source = i - 1 /\ s.photo = FALSE
                                               /\ s.framed = framed
<1> DEFINE n == Len(chain)
           E == SettingEnds(chain)
           framed == \E j \in i..n : chain[j].framed
<1>1. DOMAIN chain = 1..n /\ n \in Nat
      BY SourceIs DEF StudioInv
<1>2. E = {j \in 1..n : j > n - SETTING_HOPS /\ Ends(chain[j])}
      BY <1>1 DEF SettingEnds, Ends
<1>3. i \in E
      BY <1>2 DEF Stands, Ends
<1>4. \A j \in E : j <= i
      BY <1>1, <1>2
<1>5. Highest(E) = i
  <2>1. E \subseteq Int
        BY <1>2
  <2> HIDE DEF E
  <2> QED
      BY <1>3, <1>4, <2>1, HighestIs
<1>6. chain[i].kind = "deliver" => i # 1
  <2>1. Rank(chain[1]) \in {0, 5}
        BY DEF StudioInv, RootFirst
  <2> QED
      BY <2>1, Ranks
<1>7. Setting(chain) =
          CASE chain[i].kind = "stage"    -> [source |-> i, photo |-> TRUE, framed |-> FALSE]
            [] IsCutRedraw(chain[i])      -> [source |-> i, photo |-> FALSE, framed |-> framed]
            [] chain[i].kind = "deliver"  -> [source |-> i - 1, photo |-> FALSE, framed |-> framed]
            [] OTHER                      -> NoSetting
      BY <1>3, <1>5, Zenon DEF Setting
<1>8. CASE chain[i].kind = "stage"
      BY <1>7, <1>8 DEF IsCutRedraw
<1>9. CASE IsCutRedraw(chain[i])
  <2>1. chain[i].kind = "redraw"
        BY <1>9 DEF IsCutRedraw
  <2>2. chain[i].kind # "stage" /\ chain[i].kind # "deliver"
        BY <2>1
  <2>3. Setting(chain) = [source |-> i, photo |-> FALSE, framed |-> framed]
        BY <1>7, <1>9, <2>2, Zenon
  <2> HIDE DEF framed
  <2>4. /\ Setting(chain).source = i /\ Setting(chain).photo = FALSE
        /\ Setting(chain).framed = framed
        BY <2>3
  <2> QED
      BY <2>2, <2>4 DEF framed
<1>10. CASE chain[i].kind = "deliver"
  <2>1. ~IsCutRedraw(chain[i]) /\ chain[i].kind # "stage"
        BY <1>10 DEF IsCutRedraw
  <2>3. Setting(chain) = [source |-> i - 1, photo |-> FALSE, framed |-> framed]
        BY <1>7, <1>10, <2>1, Zenon
  <2> HIDE DEF framed
  <2>4. /\ Setting(chain).source = i - 1 /\ Setting(chain).photo = FALSE
        /\ Setting(chain).framed = framed
        BY <2>3
  <2> QED
      BY <1>6, <2>1, <2>4 DEF framed
<1> QED
    BY <1>8, <1>9, <1>10 DEF Stands

\* An anchor in reach is the setting.
LEMMA AnchorIsSetting ==
    ASSUME StudioInv, Anchored(Len(chain), SETTING_HOPS)
    PROVE  Setting(chain).source # 0
<1>1. PICK i \in 1..Len(chain) : /\ i > Len(chain) - SETTING_HOPS /\ Stands(chain[i])
                                 /\ \A j \in (i + 1)..Len(chain) : ~Ends(chain[j])
      BY DEF Anchored
<1>2. Len(chain) \in Nat
      BY SourceIs DEF StudioInv
<1>3. /\ chain[i].kind = "stage" => Setting(chain).source = i
      /\ IsCutRedraw(chain[i]) => Setting(chain).source = i
      /\ chain[i].kind = "deliver" => i # 1 /\ Setting(chain).source = i - 1
      BY <1>1, SettingAt
<1> QED
    BY <1>1, <1>2, <1>3 DEF Stands

\* What has layers has them from a picture SETTING_HOPS reaches.
LEMMA SourceAnchored ==
    ASSUME StudioInv, IsCutRedraw(Source) \/ Source.kind \in LAYERED_KINDS
    PROVE  Anchored(Len(chain), SETTING_HOPS)
<1> DEFINE n == Len(chain)
<1>1. n \in DOMAIN chain /\ n \in Nat \ {0} /\ Source = chain[n]
      BY SourceIs DEF StudioInv, Lineage, Source
<1>2. CASE IsCutRedraw(Source) \/ Source.kind = "deliver"
      BY <1>1, <1>2, AnchoredHere DEF Stands, SETTING_HOPS
<1>3. CASE Source.kind = "saturation"
  <2>1. Anchored(n, 2)
        BY <1>1, <1>3, Ranks, AnchoredByRank
  <2> QED
      BY <1>1, <2>1 DEF Anchored, SETTING_HOPS
<1>4. CASE Source.kind = "stage"
  <2>1. Anchored(n, 3)
        BY <1>1, <1>4, Ranks, AnchoredByRank
  <2> QED
      BY <1>1, <2>1 DEF Anchored, SETTING_HOPS
<1>5. CASE Source.kind = "lighting"
      BY <1>1, <1>5, Ranks, AnchoredByRank DEF SETTING_HOPS
<1> QED
    BY <1>2, <1>3, <1>4, <1>5 DEF LAYERED_KINDS

LEMMA SettingIsFound ==
    ASSUME StudioInv
    PROVE  SettingFound
BY SourceAnchored, AnchorIsSetting DEF SettingFound

\* SETTING_HOPS reaches the setting of every lineage.
THEOREM SettingReached == Spec => []SettingFound
BY SettingIsFound, LineageSafe, PTL

-----------------------------------------------------------------------------
(* Pictures and rows.                                                      *)

ROW == {"kind", "posted", "how", "jobs", "read", "resolved", "setting", "light", "shadow"}

\* q is p but for its assets.
Alike(q, p) ==
    /\ DOMAIN q = FIELDS
    /\ q.kind = p.kind /\ q.method = p.method /\ q.cut = p.cut
    /\ q.transparent = p.transparent /\ q.light = p.light /\ q.stroke = p.stroke
    /\ q.photo = p.photo /\ q.framed = p.framed
    /\ q.view = p.view /\ q.output = p.output /\ q.overlay = p.overlay /\ q.base = p.base

\* The row comes out as `done`, but for an attach cut short.
Answered(done) ==
    /\ DOMAIN row' = ROW
    /\ row'.kind = done.kind /\ row'.posted = done.posted /\ row'.jobs = done.jobs
    /\ row'.read = done.read /\ row'.resolved = done.resolved /\ row'.setting = done.setting
    /\ row'.light = done.light /\ row'.shadow = done.shadow
    /\ row'.how \in {done.how, "torn"}

\* The picture p is added with some of its assets, all of them if it is whole.
Records(p, assets, done) ==
    /\ Answered(done)
    /\ \E q : /\ Alike(q, p) /\ chain' = Append(chain, q)
             /\ q.assets \subseteq assets /\ (q.whole => q.assets = assets)

\* The start of a sequence has no more in it.
LEMMA StartIsIn ==
    ASSUME NEW S, NEW seq \in Seq(S), NEW k \in 0..(Len(seq) - 1)
    PROVE  ToSet(SubSeq(seq, 1, k)) \subseteq ToSet(seq)
<1>1. Len(seq) \in Nat /\ DOMAIN seq = 1..Len(seq) /\ \A m \in 1..Len(seq) : seq[m] \in S
      BY LenProperties, ElementOfSeq
<1> DEFINE t == SubSeq(seq, 1, k)
<1>2. /\ t \in Seq(S) /\ Len(t) = IF 1 <= k THEN k - 1 + 1 ELSE 0
      /\ \A m \in 1..(k - 1 + 1) : t[m] = seq[1 + m - 1]
      BY <1>1, SubSeqProperties
<1>3. DOMAIN t = 1..k
      BY <1>1, <1>2, LenProperties
<1> HIDE DEF t
<1>4. \A m \in DOMAIN t : m \in DOMAIN seq /\ t[m] = seq[m]
      BY <1>1, <1>2, <1>3
<1>5. {t[m] : m \in DOMAIN t} \subseteq {seq[m] : m \in DOMAIN seq}
      BY <1>4
<1> QED
    BY <1>5 DEF ToSet, t

\* The assets that are recorded are roles, one after the other.
LEMMA RolesInTurn ==
    /\ CUT_RESULTS \in Seq(AllRoles) /\ <<>> \in Seq(AllRoles)
    /\ \A backdrop : LayerSeq(backdrop) \in Seq(AllRoles)
<1>1. CUT_RESULTS \in Seq({"alpha", "depth", "cut", "cutout"})
      BY DEF CUT_RESULTS
<1>2. {"alpha", "depth", "cut", "cutout"} \subseteq AllRoles
      BY DEF AllRoles, ToSet, CUT_RESULTS
<1>3. {"layer-figure", "layer-outline", "layer-backdrop"} \subseteq AllRoles
      BY DEF AllRoles, LAYERS, FIGURE_ROLES
<1>4. <<"layer-figure", "layer-outline">> \in Seq(AllRoles) /\ <<"layer-backdrop">> \in Seq(AllRoles)
      /\ <<>> \in Seq(AllRoles)
      BY <1>3
<1>5. \A backdrop : LayerSeq(backdrop) \in Seq(AllRoles)
      BY <1>4, ConcatProperties DEF LayerSeq
<1>6. CUT_RESULTS \in Seq(AllRoles)
      BY <1>1, <1>2
<1> QED
    BY <1>4, <1>5, <1>6

\* What Record adds is the picture asked for, short of assets only where it is
\* not whole.
LEMMA RecordRecords ==
    ASSUME NEW p, DOMAIN p = FIELDS, NEW seq \in Seq(AllRoles), NEW done, DOMAIN done = ROW,
           Record(p, seq, done)
    PROVE  Records(p, ToSet(seq), done)
<1>1. CASE chain' = Append(chain, [p EXCEPT !.assets = ToSet(seq)]) /\ row' = done
  <2> DEFINE q == [p EXCEPT !.assets = ToSet(seq)]
  <2>1. Alike(q, p) /\ q.assets = ToSet(seq)
        BY DEF Alike, FIELDS
  <2>2. Answered(done)
        BY <1>1 DEF Answered
  <2> QED
      BY <1>1, <2>1, <2>2 DEF Records
<1>2. ASSUME NEW k \in 0..(Len(seq) - 1), row' = [done EXCEPT !.how = "torn"],
             chain' = Append(chain, [p EXCEPT !.assets = ToSet(SubSeq(seq, 1, k)),
                                              !.whole = FALSE])
      PROVE  Records(p, ToSet(seq), done)
  <2> DEFINE q == [p EXCEPT !.assets = ToSet(SubSeq(seq, 1, k)), !.whole = FALSE]
  <2>1. Alike(q, p) /\ q.whole = FALSE /\ q.assets = ToSet(SubSeq(seq, 1, k))
        BY DEF Alike, FIELDS
  <2>2. ToSet(SubSeq(seq, 1, k)) \subseteq ToSet(seq)
        BY StartIsIn
  <2>3. Answered(done)
        BY <1>2 DEF Answered, ROW
  <2>4. chain' = Append(chain, q)
        BY <1>2
  <2> HIDE DEF q
  <2> QED
      BY <2>1, <2>2, <2>3, <2>4 DEF Records
<1> QED
    BY <1>1, <1>2 DEF Record

\* So is what Keep adds.
LEMMA KeepRecords ==
    ASSUME NEW p, DOMAIN p = FIELDS, NEW done, DOMAIN done = ROW, Keep(p, done)
    PROVE  Records(p, p.assets, done)
BY DEF Keep, Records, Answered, Alike

\* The fields of an answered row.
LEMMA RowHas ==
    ASSUME NEW kind, NEW posted, NEW how, NEW jobs, NEW read, NEW resolved
    PROVE  LET r == Row(kind, posted, how, jobs, read, resolved)
           IN  /\ DOMAIN r = ROW
               /\ r.kind = kind /\ r.posted = posted /\ r.how = how /\ r.jobs = jobs
               /\ r.read = read /\ r.resolved = resolved
               /\ r.setting = NoSetting /\ r.light = <<>> /\ r.shadow = Null
BY DEF Row, Idle, ROW

\* A new picture has nothing on record but its kind.
LEMMA PictureIs ==
    ASSUME NEW kind
    PROVE  LET p == Picture(kind)
           IN  /\ DOMAIN p = FIELDS /\ p.kind = kind /\ p.cut = FALSE /\ p.transparent = FALSE
               /\ p.light = <<>> /\ p.photo = FALSE /\ p.framed = FALSE /\ p.assets = {}
               /\ p.whole = TRUE /\ p.stroke = Null /\ p.method = "" /\ p.view = "off"
BY DEF Picture, FIELDS

\* The layers of a picture, in a backdrop or not.
Figured(backdrop) == IF backdrop THEN LAYERS ELSE FIGURE_ROLES

\* The assets of a sequence of layers.
LEMMA LayersOf ==
    /\ \A backdrop \in BOOLEAN : ToSet(LayerSeq(backdrop)) = Figured(backdrop)
    /\ ToSet(CUT_RESULTS) = {"alpha", "depth", "cut", "cutout"}
<1>1. ToSet(LayerSeq(TRUE)) = LAYERS
  <2> DEFINE s == <<"layer-figure", "layer-outline">>
             t == <<"layer-backdrop">>
             S == {"layer-figure", "layer-outline", "layer-backdrop"}
  <2>1. s \in Seq(S) /\ t \in Seq(S) /\ Len(s) = 2 /\ Len(t) = 1
        OBVIOUS
  <2>2. Len(s \o t) = 3 /\ s \o t \in Seq(S)
        BY <2>1, ConcatProperties
  <2>3. (s \o t)[1] = s[1] /\ (s \o t)[2] = s[2] /\ (s \o t)[3] = t[1]
        BY <2>1, ConcatProperties
  <2>4. DOMAIN (s \o t) = {1, 2, 3}
        BY <2>2
  <2> HIDE DEF s, t
  <2>5. ToSet(s \o t) = {s[1], s[2], t[1]}
        BY <2>3, <2>4 DEF ToSet
  <2>6. LayerSeq(TRUE) = s \o t
        BY DEF LayerSeq, s, t
  <2> QED
      BY <2>5, <2>6 DEF s, t, LAYERS, FIGURE_ROLES
<1>2. ToSet(LayerSeq(FALSE)) = FIGURE_ROLES
  <2> DEFINE s == <<"layer-figure", "layer-outline">>
  <2>1. s \in Seq({"layer-figure", "layer-outline"})
        OBVIOUS
  <2>2. s \o <<>> = s
        BY <2>1, ConcatEmptySeq
  <2>3. ToSet(s) = FIGURE_ROLES
        BY DEF ToSet, FIGURE_ROLES
  <2> QED
      BY <2>2, <2>3 DEF LayerSeq
<1>3. ToSet(CUT_RESULTS) = {"alpha", "depth", "cut", "cutout"}
      BY DEF ToSet, CUT_RESULTS
<1> QED
    BY <1>1, <1>2, <1>3 DEF Figured

-----------------------------------------------------------------------------
(* What an operation that is not refused records.                          *)

RedrawPicture(v) ==
    LET a == ArgumentsOf.redraw[v]
    IN  [Picture("redraw") EXCEPT !.method = a.method, !.cut = a.cut, !.light = a.light]
DeliverPicture(v) ==
    [Picture("deliver") EXCEPT !.transparent = ArgumentsOf.deliver[v].transparent,
        !.light = LightDelivered(v), !.stroke = StrokeDelivered(v)]
StagePicture(v) ==
    LET a == ArgumentsOf.stage[v]
    IN  [Picture("stage") EXCEPT !.photo = a.photo # Null, !.framed = a.frame # Null]
DofPicture(v, i) ==
    LET view == ArgumentsOf.dof[v].viewfinder
    IN  [Picture("dof") EXCEPT !.view = view, !.output = i - 1,
            !.overlay = view = "on" \/ DofPictures(view)[i] = "-viewfinder"]

\* The light and the shadow a stage draws.
StageLight(v) ==
    LET a == ArgumentsOf.stage[v]
    IN  IF a.photo # Null THEN <<>>
        ELSE IF a.inherit_light THEN InheritedLight(chain) ELSE a.light
StageShadow(v) ==
    LET a      == ArgumentsOf.stage[v]
        thrown == InheritedShadow(Delivery(chain))
    IN  IF ~a.inherit_shadow THEN a.shadow_from
        ELSE IF thrown # Null THEN thrown
        ELSE IF StageLight(v) # <<>> THEN Str(StageLight(v)[2]) ELSE Null

\* What a redraw records.
LEMMA RedrawRecords ==
    ASSUME NEW v, Redraw(v), RedrawRefusal(v) = "none"
    PROVE  \E jobs : Records(RedrawPicture(v),
                             ToSet(IF ArgumentsOf.redraw[v].cut THEN CUT_RESULTS ELSE <<>>),
                             Row("redraw", v, "done", jobs, {}, ResolvedOf.redraw[v]))
<1> DEFINE seq == IF ArgumentsOf.redraw[v].cut THEN CUT_RESULTS ELSE <<>>
           done(jobs) == Row("redraw", v, "done", jobs, {}, ResolvedOf.redraw[v])
<1>1. \E jobs : Record(RedrawPicture(v), seq, done(jobs))
      BY Zenon DEF Redraw, RedrawPicture
<1>2. DOMAIN RedrawPicture(v) = FIELDS
      BY DEF RedrawPicture, Picture, FIELDS
<1>3. \A jobs : DOMAIN done(jobs) = ROW
      BY RowHas
<1>4. seq \in Seq(AllRoles)
      BY RolesInTurn
<1> QED
    BY <1>1, <1>2, <1>3, <1>4, RecordRecords

\* What a delivery records.
LEMMA DeliverRecords ==
    ASSUME NEW v, Deliver(v), DeliverRefusal(v) = "none"
    PROVE  LET a == ArgumentsOf.deliver[v]
           IN  \E jobs : Records(DeliverPicture(v), ToSet(LayerSeq(a.keep_scene \/ ~a.transparent)),
                                 Row("deliver", v, "done", jobs, {}, ResolvedOf.deliver[v]))
<1> DEFINE a == ArgumentsOf.deliver[v]
           seq == LayerSeq(a.keep_scene \/ ~a.transparent)
           done(jobs) == Row("deliver", v, "done", jobs, {}, ResolvedOf.deliver[v])
<1>1. \E jobs : Record(DeliverPicture(v), seq, done(jobs))
      BY Zenon DEF Deliver, DeliverPicture
<1>2. DOMAIN DeliverPicture(v) = FIELDS
      BY DEF DeliverPicture, Picture, FIELDS
<1>3. \A jobs : DOMAIN done(jobs) = ROW
      BY RowHas
<1> QED
    BY <1>1, <1>2, <1>3, RolesInTurn, RecordRecords

\* A stage whose canvas comes out empty records nothing.
LEMMA StageRecords ==
    ASSUME NEW v, Stage(v), StageRefusal(v) = "none"
    PROVE  \/ /\ chain' = chain
              /\ \E jobs : row' = Row("stage", v, "render", jobs, FIGURE_ROLES, Null)
           \/ \E jobs, resolved :
                 Records(StagePicture(v), ToSet(LayerSeq(TRUE)),
                         [Row("stage", v, "done", jobs, FIGURE_ROLES, resolved)
                              EXCEPT !.light = StageLight(v), !.shadow = StageShadow(v)])
<1> DEFINE done(jobs, resolved) == [Row("stage", v, "done", jobs, FIGURE_ROLES, resolved)
                                        EXCEPT !.light = StageLight(v), !.shadow = StageShadow(v)]
<1>1. \/ /\ chain' = chain
         /\ \E jobs : row' = Row("stage", v, "render", jobs, FIGURE_ROLES, Null)
      \/ \E jobs, resolved : Record(StagePicture(v), LayerSeq(TRUE), done(jobs, resolved))
      BY Zenon DEF Stage, StagePicture, StageLight, StageShadow
<1>2. DOMAIN StagePicture(v) = FIELDS
      BY DEF StagePicture, Picture, FIELDS
<1>3. \A jobs, resolved : DOMAIN done(jobs, resolved) = ROW
      BY RowHas
<1> HIDE DEF done
<1>4. \/ /\ chain' = chain
         /\ \E jobs : row' = Row("stage", v, "render", jobs, FIGURE_ROLES, Null)
      \/ \E jobs, resolved : Records(StagePicture(v), ToSet(LayerSeq(TRUE)), done(jobs, resolved))
      BY <1>1, <1>2, <1>3, RolesInTurn, RecordRecords
<1> QED
    BY <1>4 DEF done

\* What a lighting records.
LEMMA LightingRecords ==
    ASSUME NEW v, Lighting(v), LightingRefusal(v) = "none"
    PROVE  \E jobs : Records(Picture("lighting"), ToSet(LayerSeq(HasBackdrop(chain))),
                             Row("lighting", v, "done", jobs, LayerRoles(chain),
                                 ResolvedOf.lighting[v]))
<1> DEFINE done(jobs) == Row("lighting", v, "done", jobs, LayerRoles(chain), ResolvedOf.lighting[v])
<1>1. \E jobs : Record(Picture("lighting"), LayerSeq(HasBackdrop(chain)), done(jobs))
      BY Zenon DEF Lighting
<1>2. \A jobs : DOMAIN done(jobs) = ROW
      BY RowHas
<1> QED
    BY <1>1, <1>2, PictureIs, RolesInTurn, RecordRecords

\* What a saturation records.
LEMMA SaturationRecords ==
    ASSUME NEW v, Saturation(v), SaturationRefusal(v) = "none"
    PROVE  LET backdrop == "layer-backdrop" \in LayerRolesPresent(Source)
           IN  \E jobs : Records(Picture("saturation"), ToSet(LayerSeq(backdrop)),
                                 Row("saturation", v, "done", jobs,
                                     FIGURE_ROLES \cup (IF backdrop THEN {"layer-backdrop"} ELSE {}),
                                     ResolvedOf.saturation[v]))
<1> DEFINE backdrop == "layer-backdrop" \in LayerRolesPresent(Source)
           read == FIGURE_ROLES \cup (IF backdrop THEN {"layer-backdrop"} ELSE {})
           done(jobs) == Row("saturation", v, "done", jobs, read, ResolvedOf.saturation[v])
<1>1. \E jobs : Record(Picture("saturation"), LayerSeq(backdrop), done(jobs))
      BY Zenon DEF Saturation
<1>2. \A jobs : DOMAIN done(jobs) = ROW
      BY RowHas
<1> QED
    BY <1>1, <1>2, PictureIs, RolesInTurn, RecordRecords

\* What a blur records, and that it found its layers and where they stand.
LEMMA DofRecords ==
    ASSUME NEW v, Dof(v), DofRefusal(v) = "none"
    PROVE  \E i \in DOMAIN DofPictures(ArgumentsOf.dof[v].viewfinder) : \E jobs :
              Records(DofPicture(v, i), {},
                      [Row("dof", v, "done", jobs, LayerRoles(chain), ResolvedOf.dof[v])
                           EXCEPT !.setting = Setting(chain)])
<1> DEFINE done(jobs) == [Row("dof", v, "done", jobs, LayerRoles(chain), ResolvedOf.dof[v])
                              EXCEPT !.setting = Setting(chain)]
<1>1. PICK i \in DOMAIN DofPictures(ArgumentsOf.dof[v].viewfinder) :
         \E jobs : Keep(DofPicture(v, i), done(jobs))
      BY Zenon DEF Dof, DofPicture
<1>2. DOMAIN DofPicture(v, i) = FIELDS /\ DofPicture(v, i).assets = {}
      BY DEF DofPicture, Picture, FIELDS
<1>3. \A jobs : DOMAIN done(jobs) = ROW
      BY RowHas
<1> HIDE DEF done
<1>4. \E jobs : Records(DofPicture(v, i), {}, done(jobs))
      BY <1>1, <1>2, <1>3, KeepRecords
<1> QED
    BY <1>4 DEF done

\* What a picture in a photo records.
LEMMA PhotoRecords ==
    ASSUME NEW v, Photo(v), PhotoRefusal(v) = "none"
    PROVE  \E jobs : Records(Picture("photo"), {},
                             Row("photo", v, "done", jobs, FIGURE_ROLES, ResolvedOf.photo[v]))
<1> DEFINE done(jobs) == Row("photo", v, "done", jobs, FIGURE_ROLES, ResolvedOf.photo[v])
<1>1. PICK jobs : Keep(Picture("photo"), done(jobs))
      BY Zenon DEF Photo
<1>2. DOMAIN done(jobs) = ROW
      BY RowHas
<1>3. DOMAIN Picture("photo") = FIELDS /\ Picture("photo").assets = {}
      BY PictureIs
<1>4. Records(Picture("photo"), Picture("photo").assets, done(jobs))
      BY <1>1, <1>2, <1>3, KeepRecords
<1> QED
    BY <1>3, <1>4

\* What a lens records.
LEMMA LensRecords ==
    ASSUME NEW v, Lens(v), LensRefusal(v) = "none"
    PROVE  \E jobs : Records(Picture("lens"), {},
                             Row("lens", v, "done", jobs, {}, ResolvedOf.lens[v]))
<1> DEFINE done(jobs) == Row("lens", v, "done", jobs, {}, ResolvedOf.lens[v])
<1>1. PICK jobs : Keep(Picture("lens"), done(jobs))
      BY Zenon DEF Lens
<1>2. DOMAIN done(jobs) = ROW
      BY RowHas
<1>3. DOMAIN Picture("lens") = FIELDS /\ Picture("lens").assets = {}
      BY PictureIs
<1>4. Records(Picture("lens"), Picture("lens").assets, done(jobs))
      BY <1>1, <1>2, <1>3, KeepRecords
<1> QED
    BY <1>3, <1>4

-----------------------------------------------------------------------------
(* Where a picture's layers come from.                                     *)

\* The m-th picture was worked from the layers of the i-th.
RestsOn(m, i) ==
    /\ i \in 1..m /\ chain[i].kind \notin {"saturation", "lighting"}
    /\ \A j \in (i + 1)..m : chain[j].kind \in {"saturation", "lighting"}

\* A picture with a backdrop behind its figure.
Backs(p) == ~IsCutRedraw(p) /\ ~(p.kind = "deliver" /\ p.transparent)
Backed(m) == \E i \in 1..m : RestsOn(m, i) /\ Backs(chain[i])

\* A lineage is counted from 1, its source the last.
LEMMA Numbered ==
    ASSUME StudioInv
    PROVE  /\ Len(chain) \in Nat /\ Len(chain) >= 1 /\ DOMAIN chain = 1..Len(chain)
           /\ Source = chain[Len(chain)]
           /\ \A m \in DOMAIN chain : /\ m \in Nat \ {0} /\ DOMAIN chain[m] = FIELDS
                                      /\ chain[m].kind \in AllKinds /\ Rank(chain[m]) \in 0..6
<1>1. Len(chain) \in Nat /\ Len(chain) >= 1 /\ DOMAIN chain = 1..Len(chain)
      BY SourceIs DEF StudioInv, Lineage
<1>2. \A m \in DOMAIN chain : /\ m \in Nat \ {0} /\ DOMAIN chain[m] = FIELDS
                              /\ chain[m].kind \in AllKinds /\ Rank(chain[m]) \in 0..6
      BY <1>1, RankOf DEF StudioInv, Lineage, IsPicture
<1> QED
    BY <1>1, <1>2 DEF Source

\* There is one such picture, at most two before.
LEMMA RestsSomewhere ==
    ASSUME StudioInv, NEW m \in DOMAIN chain
    PROVE  \E i \in 1..m : /\ RestsOn(m, i)
                           /\ chain[m].kind \notin {"saturation", "lighting"} => i = m
                           /\ chain[m].kind = "saturation" =>
                                 /\ i = m - 1 /\ m - 1 \in DOMAIN chain
                                 /\ IsCutRedraw(chain[i]) \/ chain[i].kind = "deliver"
<1> USE Numbered
<1>1. CASE chain[m].kind \notin {"saturation", "lighting"}
      BY <1>1 DEF RestsOn
<1>2. CASE chain[m].kind = "saturation"
  <2>1. Rank(chain[m]) = 2
        BY <1>2, Ranks
  <2>2. m > 1 /\ m - 1 \in DOMAIN chain /\ (IsCutRedraw(chain[m - 1]) \/ Rank(chain[m - 1]) = 1)
        BY <2>1, MadeFrom
  <2>3. IsCutRedraw(chain[m - 1]) \/ chain[m - 1].kind = "deliver"
        BY <2>2, KindOf
  <2>4. RestsOn(m, m - 1)
        BY <1>2, <2>2, <2>3 DEF RestsOn, IsCutRedraw
  <2> QED
      BY <1>2, <2>2, <2>3, <2>4
<1>3. CASE chain[m].kind = "lighting"
  <2>1. Rank(chain[m]) = 4
        BY <1>3, Ranks
  <2>2. /\ m > 1 /\ m - 1 \in DOMAIN chain
        /\ IsCutRedraw(chain[m - 1]) \/ Rank(chain[m - 1]) \in 1..3
        BY <2>1, MadeFrom
  <2>3. chain[m - 1].kind # "lighting"
        BY <2>2, Ranks DEF IsCutRedraw
  <2>4. CASE chain[m - 1].kind # "saturation"
    <3>1. RestsOn(m, m - 1)
          BY <1>3, <2>2, <2>3, <2>4 DEF RestsOn
    <3> QED
        BY <1>3, <2>2, <3>1
  <2>5. CASE chain[m - 1].kind = "saturation"
    <3>1. Rank(chain[m - 1]) = 2
          BY <2>5, Ranks
    <3>2. /\ m - 1 > 1 /\ (m - 1) - 1 \in DOMAIN chain
          /\ IsCutRedraw(chain[(m - 1) - 1]) \/ Rank(chain[(m - 1) - 1]) = 1
          BY <2>2, <3>1, MadeFrom
    <3>3. m - 2 \in 1..m /\ (m - 1) - 1 = m - 2
          BY <3>2
    <3>4. chain[m - 2].kind \notin {"saturation", "lighting"}
          BY <3>2, <3>3, Ranks DEF IsCutRedraw
    <3>5. \A j \in (m - 2 + 1)..m : j = m - 1 \/ j = m
          OBVIOUS
    <3>6. RestsOn(m, m - 2)
          BY <1>3, <2>5, <3>3, <3>4, <3>5 DEF RestsOn
    <3> QED
        BY <1>3, <3>3, <3>6
  <2> QED
      BY <2>4, <2>5
<1> QED
    BY <1>1, <1>2, <1>3

\* What a picture rests on is found at one place only.
LEMMA RestsOnce ==
    ASSUME NEW m \in Nat, NEW i, RestsOn(m, i), NEW k, RestsOn(m, k)
    PROVE  i = k
<1>1. ~(i < k)
      BY DEF RestsOn
<1>2. ~(k < i)
      BY DEF RestsOn
<1> QED
    BY <1>1, <1>2 DEF RestsOn

\* has_backdrop_layer finds it.
LEMMA UnderIs ==
    ASSUME StudioInv, NEW m \in DOMAIN chain, NEW c, Len(c) = m, DOMAIN c = 1..m,
           \A j \in 1..m : c[j] = chain[j]
    PROVE  /\ RestsOn(m, Under(c)) /\ Under(c) \in 1..m
           /\ HasBackdrop(c) <=> Backed(m)
<1> DEFINE Fits(i) == /\ c[i].kind \notin {"saturation", "lighting"}
                      /\ \A j \in (i + 1)..Len(c) : c[j].kind \in {"saturation", "lighting"}
<1>0. m \in Nat \ {0}
      BY Numbered
<1>1. ASSUME NEW i \in DOMAIN c
      PROVE  Fits(i) <=> RestsOn(m, i)
  <2>1. i \in 1..m /\ \A j \in (i + 1)..m : j \in 1..m
        BY <1>0
  <2> QED
      BY <2>1 DEF RestsOn
<1>2. PICK i \in 1..m : RestsOn(m, i)
      BY RestsSomewhere
<1>3. Under(c) = CHOOSE k \in DOMAIN c : Fits(k)
      BY DEF Under
<1>4. Under(c) \in DOMAIN c /\ Fits(Under(c))
      BY <1>1, <1>2, <1>3
<1>5. RestsOn(m, Under(c)) /\ Under(c) \in 1..m
      BY <1>1, <1>4
<1>6. HasBackdrop(c) <=> Backs(chain[Under(c)])
      BY <1>5 DEF HasBackdrop, Backs
<1>7. Backed(m) <=> Backs(chain[Under(c)])
      BY <1>0, <1>5, RestsOnce DEF Backed
<1> QED
    BY <1>5, <1>6, <1>7

\* has_backdrop_layer says what the picture rests on.
LEMMA BackdropIs ==
    ASSUME StudioInv
    PROVE  /\ HasBackdrop(chain) <=> Backed(Len(chain))
           /\ LayerRoles(chain) = Figured(Backed(Len(chain)))
<1>1. HasBackdrop(chain) <=> Backed(Len(chain))
      BY Numbered, UnderIs
<1> QED
    BY <1>1 DEF LayerRoles, Figured

-----------------------------------------------------------------------------
(* The assets of whole pictures.                                           *)

\* What the m-th picture has once all of its assets are attached.
AllThere(m) ==
    LET p == chain[m]
    IN  /\ IsCutRedraw(p) => p.assets = {"alpha", "depth", "cut", "cutout"}
        /\ p.kind = "stage" => p.assets = LAYERS
        /\ p.kind = "deliver" => p.assets = Figured(~p.transparent)
        /\ p.kind = "lighting" => p.assets = Figured(Backed(m))
        /\ p.kind = "saturation" =>
               p.assets = Figured("layer-backdrop" \in LayerRolesPresent(chain[m - 1]))

\* Only a stage has a photo or a frame, only a redraw and a delivery a light.
InItsPlace(p) ==
    /\ p.photo => p.kind = "stage"
    /\ p.framed => p.kind = "stage"
    /\ p.light # <<>> => p.kind \in {"redraw", "deliver"}

AttachedInv ==
    \A m \in DOMAIN chain : InItsPlace(chain[m]) /\ (chain[m].whole => AllThere(m))

\* What a picture added to the lineage has once all of its assets are attached.
Has(q) ==
    /\ IsCutRedraw(q) => q.assets = {"alpha", "depth", "cut", "cutout"}
    /\ q.kind = "stage" => q.assets = LAYERS
    /\ q.kind = "deliver" => q.assets = Figured(~q.transparent)
    /\ q.kind = "lighting" => q.assets = Figured(HasBackdrop(chain))
    /\ q.kind = "saturation" => q.assets = Figured("layer-backdrop" \in LayerRolesPresent(Source))
Grows == \E q : chain' = Append(chain, q) /\ InItsPlace(q) /\ (q.whole => Has(q))

\* Places that look alike are backed alike.
LEMMA AlikeIn ==
    ASSUME NEW p, NEW q, Alike(q, p), InItsPlace(p)
    PROVE  InItsPlace(q)
BY Zenon DEF Alike, InItsPlace

\* What an operation records is what it should.
LEMMA RedrawGrows ==
    ASSUME NEW v, Redraw(v), RedrawRefusal(v) = "none"
    PROVE  Grows
<1> DEFINE p == RedrawPicture(v)
           seq == IF ArgumentsOf.redraw[v].cut THEN CUT_RESULTS ELSE <<>>
<1>1. PICK q : Alike(q, p) /\ chain' = Append(chain, q) /\ (q.whole => q.assets = ToSet(seq))
      BY RedrawRecords DEF Records
<1>2. /\ p.kind = "redraw" /\ p.photo = FALSE /\ p.framed = FALSE
      /\ p.cut = ArgumentsOf.redraw[v].cut
      BY DEF RedrawPicture, Picture
<1> HIDE DEF p
<1>3. InItsPlace(q)
      BY <1>1, <1>2, AlikeIn DEF InItsPlace
<1>4. IsCutRedraw(q) => ToSet(seq) = {"alpha", "depth", "cut", "cutout"}
      BY <1>1, <1>2, LayersOf DEF Alike, IsCutRedraw
<1>5. q.kind = "redraw"
      BY <1>1, <1>2 DEF Alike
<1> QED
    BY <1>1, <1>3, <1>4, <1>5 DEF Grows, Has

\* A delivery that keeps its scene is not transparent.
LEMMA SceneIsKept ==
    ASSUME NEW v \in Taken.deliver
    PROVE  /\ ArgumentsOf.deliver[v].keep_scene => ~ArgumentsOf.deliver[v].transparent
           /\ ArgumentsOf.deliver[v] = DeliverArguments(v)
<1>1. ArgumentsOf.deliver[v] = DeliverArguments(v)
      BY DEF ArgumentsOf, KINDS, Arguments
<1>2. DeliverArguments(v).keep_scene => ~DeliverArguments(v).transparent
      BY Zenon DEF DeliverArguments
<1> QED
    BY <1>1, <1>2

\* A whole delivery has the assets of its kind.
LEMMA DeliverGrows ==
    ASSUME NEW v, Deliver(v), DeliverRefusal(v) = "none"
    PROVE  Grows
<1> DEFINE p == DeliverPicture(v)
           a == ArgumentsOf.deliver[v]
           backdrop == a.keep_scene \/ ~a.transparent
<1>1. PICK q : /\ Alike(q, p) /\ chain' = Append(chain, q)
               /\ q.whole => q.assets = ToSet(LayerSeq(backdrop))
      BY DeliverRecords DEF Records
<1>2. p.kind = "deliver" /\ p.photo = FALSE /\ p.framed = FALSE /\ p.transparent = a.transparent
      BY DEF DeliverPicture, Picture
<1>3. v \in Taken.deliver
      BY Zenon DEF DeliverRefusal
<1>4. backdrop <=> ~p.transparent
      BY <1>2, <1>3, SceneIsKept
<1>5. ToSet(LayerSeq(backdrop)) = Figured(backdrop)
      BY LayersOf
<1> HIDE DEF p, backdrop
<1>6. q.whole => q.assets = Figured(~q.transparent)
      BY <1>1, <1>4, <1>5 DEF Alike
<1>7. q.kind = "deliver"
      BY <1>1, <1>2 DEF Alike
<1>8. InItsPlace(q)
      BY <1>1, <1>2, AlikeIn DEF InItsPlace
<1> QED
    BY <1>1, <1>6, <1>7, <1>8 DEF Grows, Has, IsCutRedraw

\* So has a stage, in front of a photo or a pattern.
LEMMA StageGrows ==
    ASSUME NEW v, Stage(v), StageRefusal(v) = "none"
    PROVE  chain' = chain \/ Grows
<1> DEFINE p == StagePicture(v)
<1>1. CASE \E q : /\ Alike(q, p) /\ chain' = Append(chain, q)
                  /\ q.whole => q.assets = ToSet(LayerSeq(TRUE))
  <2>1. PICK q : /\ Alike(q, p) /\ chain' = Append(chain, q)
                 /\ q.whole => q.assets = ToSet(LayerSeq(TRUE))
        BY <1>1
  <2>2. p.kind = "stage" /\ p.light = <<>>
        BY DEF StagePicture, Picture
  <2> HIDE DEF p
  <2>3. InItsPlace(q)
        BY <2>1, <2>2, AlikeIn DEF InItsPlace
  <2>4. q.kind = "stage"
        BY <2>1, <2>2 DEF Alike
  <2>5. q.whole => q.assets = LAYERS
        BY <2>1, LayersOf DEF Figured
  <2> QED
      BY <2>1, <2>3, <2>4, <2>5 DEF Grows, Has, IsCutRedraw
<1> QED
    BY <1>1, StageRecords DEF Records

\* So has a lighting, by what its source rests on.
LEMMA LightingGrows ==
    ASSUME NEW v, Lighting(v), LightingRefusal(v) = "none"
    PROVE  Grows
<1> DEFINE p == Picture("lighting")
<1>1. PICK q : /\ Alike(q, p) /\ chain' = Append(chain, q)
               /\ q.whole => q.assets = ToSet(LayerSeq(HasBackdrop(chain)))
      BY LightingRecords DEF Records
<1>2. q.kind = "lighting" /\ InItsPlace(q)
      BY <1>1, PictureIs, AlikeIn DEF Alike, InItsPlace
<1>3. ToSet(LayerSeq(HasBackdrop(chain))) = Figured(HasBackdrop(chain))
      BY LayersOf DEF HasBackdrop
<1> QED
    BY <1>1, <1>2, <1>3 DEF Grows, Has, IsCutRedraw

\* So has a saturation, by the assets it finds.
LEMMA SaturationGrows ==
    ASSUME NEW v, Saturation(v), SaturationRefusal(v) = "none"
    PROVE  Grows
<1> DEFINE p == Picture("saturation")
           backdrop == "layer-backdrop" \in LayerRolesPresent(Source)
<1>1. PICK q : /\ Alike(q, p) /\ chain' = Append(chain, q)
               /\ q.whole => q.assets = ToSet(LayerSeq(backdrop))
      BY SaturationRecords DEF Records
<1>2. q.kind = "saturation" /\ InItsPlace(q)
      BY <1>1, PictureIs, AlikeIn DEF Alike, InItsPlace
<1>3. ToSet(LayerSeq(backdrop)) = Figured(backdrop)
  <2>1. backdrop \in BOOLEAN
        OBVIOUS
  <2> HIDE DEF backdrop
  <2> QED
      BY <2>1, LayersOf
<1> QED
    BY <1>1, <1>2, <1>3 DEF Grows, Has, IsCutRedraw

\* A blur, a photo and a lens record a picture only.
LEMMA OthersGrow ==
    ASSUME NEW p, p.kind \in {"dof", "photo", "lens"}, InItsPlace(p), NEW done,
           Records(p, {}, done)
    PROVE  Grows
<1>1. PICK q : Alike(q, p) /\ chain' = Append(chain, q)
      BY DEF Records
<1>2. q.kind \in {"dof", "photo", "lens"} /\ InItsPlace(q)
      BY <1>1, AlikeIn DEF Alike
<1> QED
    BY <1>1, <1>2 DEF Grows, Has, IsCutRedraw

\* An operation refuses, leaves the lineage alone or adds to it.
LEMMA GrowthStep ==
    ASSUME NEW v,
           Redraw(v) \/ Deliver(v) \/ Dof(v) \/ Lens(v) \/ Photo(v) \/ Stage(v) \/ Lighting(v)
               \/ Saturation(v)
    PROVE  chain' = chain \/ Grows
<1>1. CASE Redraw(v)
  <2>1. CASE RedrawRefusal(v) # "none"
        BY <1>1, <2>1 DEF Redraw, Refuse
  <2> QED
      BY <1>1, <2>1, RedrawGrows
<1>2. CASE Deliver(v)
  <2>1. CASE DeliverRefusal(v) # "none"
        BY <1>2, <2>1 DEF Deliver, Refuse
  <2> QED
      BY <1>2, <2>1, DeliverGrows
<1>3. CASE Dof(v)
  <2>1. CASE DofRefusal(v) # "none"
        BY <1>3, <2>1 DEF Dof, Refuse
  <2>2. CASE DofRefusal(v) = "none"
    <3>1. PICK i : \E done : Records(DofPicture(v, i), {}, done)
          BY <1>3, <2>2, DofRecords
    <3>2. /\ DofPicture(v, i).kind = "dof" /\ DofPicture(v, i).photo = FALSE
          /\ DofPicture(v, i).framed = FALSE /\ DofPicture(v, i).light = <<>>
          BY DEF DofPicture, Picture
    <3>3. InItsPlace(DofPicture(v, i))
          BY <3>2 DEF InItsPlace
    <3> QED
        BY <3>1, <3>2, <3>3, OthersGrow
  <2> QED
      BY <2>1, <2>2
<1>4. CASE Lens(v)
  <2>1. CASE LensRefusal(v) # "none"
        BY <1>4, <2>1 DEF Lens, Refuse
  <2>2. InItsPlace(Picture("lens")) /\ Picture("lens").kind = "lens"
        BY PictureIs DEF InItsPlace
  <2> QED
      BY <1>4, <2>1, <2>2, LensRecords, OthersGrow
<1>5. CASE Photo(v)
  <2>1. CASE PhotoRefusal(v) # "none"
        BY <1>5, <2>1 DEF Photo, Refuse
  <2>2. InItsPlace(Picture("photo")) /\ Picture("photo").kind = "photo"
        BY PictureIs DEF InItsPlace
  <2> QED
      BY <1>5, <2>1, <2>2, PhotoRecords, OthersGrow
<1>6. CASE Stage(v)
  <2>1. CASE StageRefusal(v) # "none"
        BY <1>6, <2>1 DEF Stage, Refuse
  <2> QED
      BY <1>6, <2>1, StageGrows
<1>7. CASE Lighting(v)
  <2>1. CASE LightingRefusal(v) # "none"
        BY <1>7, <2>1 DEF Lighting, Refuse
  <2> QED
      BY <1>7, <2>1, LightingGrows
<1>8. CASE Saturation(v)
  <2>1. CASE SaturationRefusal(v) # "none"
        BY <1>8, <2>1 DEF Saturation, Refuse
  <2> QED
      BY <1>8, <2>1, SaturationGrows
<1> QED
    BY <1>1, <1>2, <1>3, <1>4, <1>5, <1>6, <1>7, <1>8

\* What is appended is the last picture, the others stay.
LEMMA Appended ==
    ASSUME StudioInv, NEW q, chain' = Append(chain, q)
    PROVE  /\ Len(chain') = Len(chain) + 1 /\ DOMAIN chain' = 1..(Len(chain) + 1)
           /\ \A m \in 1..Len(chain) : chain'[m] = chain[m]
           /\ chain'[Len(chain) + 1] = q
<1> DEFINE S == {chain[i] : i \in DOMAIN chain} \cup {q}
<1>1. chain \in Seq(S) /\ q \in S
      BY SeqMonotonic DEF StudioInv, Lineage
<1> HIDE DEF S
<1>2. /\ chain' \in Seq(S) /\ Len(chain') = Len(chain) + 1
      /\ \A m \in 1..Len(chain) : chain'[m] = chain[m]
      /\ chain'[Len(chain) + 1] = q
      BY <1>1, AppendProperties
<1> QED
    BY <1>2, LenProperties

\* A row claimed again completes the last picture.
LEMMA Completes ==
    ASSUME StudioInv, Again
    PROVE  LET n == Len(chain)
           IN  /\ Len(chain') = n /\ DOMAIN chain' = 1..n
               /\ \A m \in 1..n : m # n => chain'[m] = chain[m]
               /\ Alike(chain'[n], chain[n])
               /\ chain'[n].assets = AssetsOf(Source, chain) /\ chain'[n].whole = TRUE
<1> DEFINE n == Len(chain)
           X == AssetsOf(Source, chain)
           q == [chain[n] EXCEPT !.assets = X, !.whole = TRUE]
           S == {chain[i] : i \in DOMAIN chain} \cup {q}
<1>1. n \in Nat /\ DOMAIN chain = 1..n /\ n \in 1..n /\ DOMAIN chain[n] = FIELDS
      BY Numbered
<1>2. chain' = [chain EXCEPT ![n].assets = X, ![n].whole = TRUE]
      BY DEF Again
<1>3. chain' = [chain EXCEPT ![n] = q]
      BY <1>1, <1>2
<1>4. Alike(q, chain[n]) /\ q.assets = X /\ q.whole = TRUE
      BY <1>1 DEF Alike, FIELDS
<1>5. chain \in Seq(S) /\ q \in S
      BY SeqMonotonic DEF StudioInv, Lineage
<1> HIDE DEF q, S, X
<1>6. chain' \in Seq(S) /\ Len(chain') = n
      BY <1>1, <1>3, <1>5, ExceptSeq
<1>7. DOMAIN chain' = 1..n /\ \A m \in 1..n : chain'[m] = IF m = n THEN q ELSE chain[m]
      BY <1>1, <1>3
<1> QED
    BY <1>1, <1>4, <1>6, <1>7 DEF X

\* Assets are nothing a backdrop depends on.
LEMMA BackedStays ==
    ASSUME NEW m \in Nat,
           \A j \in 1..m : /\ chain'[j].kind = chain[j].kind /\ chain'[j].cut = chain[j].cut
                           /\ chain'[j].transparent = chain[j].transparent
    PROVE  Backed(m)' <=> Backed(m)
<1>1. \A i \in 1..m : Backs(chain'[i]) <=> Backs(chain[i])
      BY DEF Backs, IsCutRedraw
<1>2. \A i \in 1..m : RestsOn(m, i)' <=> RestsOn(m, i)
      BY DEF RestsOn
<1> QED
    BY <1>1, <1>2 DEF Backed

\* A lighting rests on what the picture it lights rests on.
LEMMA BackedBefore ==
    ASSUME NEW m \in Nat \ {0, 1}, chain[m].kind = "lighting"
    PROVE  Backed(m) <=> Backed(m - 1)
<1>1. ASSUME NEW i, RestsOn(m, i)
      PROVE  RestsOn(m - 1, i)
      BY <1>1 DEF RestsOn
<1>2. ASSUME NEW i, RestsOn(m - 1, i)
      PROVE  RestsOn(m, i)
  <2>1. \A j \in (i + 1)..m : j \in (i + 1)..(m - 1) \/ j = m
        BY <1>2 DEF RestsOn
  <2> QED
      BY <1>2, <2>1 DEF RestsOn
<1> QED
    BY <1>1, <1>2 DEF Backed, RestsOn

\* A lighting is backed as what it was lit from, after a step as before it.
LEMMA BackedBeforeNext ==
    ASSUME NEW m \in Nat \ {0, 1}, chain'[m].kind = "lighting"
    PROVE  Backed(m)' <=> Backed(m - 1)'
<1>1. ASSUME NEW i, RestsOn(m, i)'
      PROVE  RestsOn(m - 1, i)'
      BY <1>1 DEF RestsOn
<1>2. ASSUME NEW i, RestsOn(m - 1, i)'
      PROVE  RestsOn(m, i)'
  <2>1. \A j \in (i + 1)..m : j \in (i + 1)..(m - 1) \/ j = m
        BY <1>2 DEF RestsOn
  <2> QED
      BY <1>2, <2>1 DEF RestsOn
<1> QED
    BY <1>1, <1>2 DEF Backed, RestsOn

\* A picture that is added keeps the lineage's pictures as they ought to be.
LEMMA AddedHas ==
    ASSUME StudioInv, AttachedInv, Grows, NEW n \in Nat, n = Len(chain)
    PROVE  AttachedInv'
<1>1. PICK q : chain' = Append(chain, q) /\ InItsPlace(q) /\ (q.whole => Has(q))
      BY DEF Grows
<1>2. /\ n \in Nat \ {0} /\ DOMAIN chain = 1..n /\ Source = chain[n]
      /\ DOMAIN chain' = 1..(n + 1)
      /\ \A m \in 1..n : chain'[m] = chain[m]
      /\ chain'[n + 1] = q
      BY <1>1, Appended, Numbered
<1>3. ASSUME NEW m \in 1..n
      PROVE  InItsPlace(chain'[m]) /\ (chain'[m].whole => AllThere(m)')
  <2>1. m \in Nat \ {0} /\ \A j \in 1..m : j \in 1..n
        BY <1>2
  <2>2. Backed(m)' <=> Backed(m)
        BY <1>2, <2>1, BackedStays
  <2>3. chain[m].kind = "saturation" => m - 1 \in 1..n
        BY <1>2, RestsSomewhere
  <2>4. InItsPlace(chain[m]) /\ (chain[m].whole => AllThere(m))
        BY <1>2 DEF AttachedInv
  <2> QED
      BY <1>2, <2>2, <2>3, <2>4 DEF AllThere, Figured
<1>4. InItsPlace(chain'[n + 1]) /\ (chain'[n + 1].whole => AllThere(n + 1)')
  <2>1. Backed(n)' <=> HasBackdrop(chain)
    <3>1. Backed(n)' <=> Backed(n)
          BY <1>2, BackedStays
    <3> QED
        BY <3>1, BackdropIs
  <2>2. q.kind = "lighting" => (Backed(n + 1)' <=> HasBackdrop(chain))
    <3>1. ASSUME q.kind = "lighting"
          PROVE  Backed(n + 1)' <=> Backed(n)'
      <4>1. n + 1 \in Nat \ {0, 1} /\ (n + 1) - 1 = n /\ chain'[n + 1].kind = "lighting"
            BY <1>2, <3>1
      <4>2. Backed(n + 1)' <=> Backed((n + 1) - 1)'
            BY <4>1, BackedBeforeNext
      <4> QED
          BY <4>1, <4>2
    <3> QED
        BY <2>1, <3>1
  <2>3. chain'[(n + 1) - 1] = Source
        BY <1>2
  <2> QED
      BY <1>1, <1>2, <2>2, <2>3 DEF AllThere, Has, Figured
<1> QED
    BY <1>2, <1>3, <1>4 DEF AttachedInv

\* So does one completed when its row is claimed again.
LEMMA CompletedHas ==
    ASSUME StudioInv, AttachedInv, Again, NEW n \in Nat, n = Len(chain)
    PROVE  AttachedInv'
<1>1. /\ n \in Nat \ {0} /\ DOMAIN chain = 1..n /\ Source = chain[n]
      /\ DOMAIN chain' = 1..n
      /\ \A m \in 1..n : m # n => chain'[m] = chain[m]
      /\ Alike(chain'[n], chain[n])
      /\ chain'[n].assets = AssetsOf(chain[n], chain)
      BY Completes, Numbered
<1>2. \A m \in 1..n : Backed(m)' <=> Backed(m)
  <2>1. \A j \in 1..n : /\ chain'[j].kind = chain[j].kind /\ chain'[j].cut = chain[j].cut
                        /\ chain'[j].transparent = chain[j].transparent
        BY <1>1 DEF Alike
  <2> QED
      BY <1>1, <2>1, BackedStays
<1>3. \A m \in 1..n : chain[m].kind = "saturation" => m - 1 \in 1..n
      BY <1>1, RestsSomewhere
<1>4. LayerRoles(chain) = Figured(Backed(n))
      BY BackdropIs
<1>5. ASSUME NEW m \in 1..n, m # n
      PROVE  InItsPlace(chain'[m]) /\ (chain'[m].whole => AllThere(m)')
  <2>1. InItsPlace(chain[m]) /\ (chain[m].whole => AllThere(m)) /\ chain'[m] = chain[m]
        BY <1>1, <1>5 DEF AttachedInv
  <2>2. chain[m].kind = "saturation" => m - 1 \in 1..n /\ m - 1 # n
        BY <1>1, <1>3
  <2>3. chain[m].kind = "saturation" => chain'[m - 1] = chain[m - 1]
        BY <1>1, <2>2
  <2> QED
      BY <1>1, <1>2, <2>1, <2>3 DEF AllThere, Figured
<1>6. InItsPlace(chain'[n]) /\ AllThere(n)'
  <2> DEFINE p == chain[n]
  <2>1. InItsPlace(chain'[n])
        BY <1>1, AlikeIn DEF AttachedInv
  <2>2. chain[n].kind = "saturation" => chain'[n - 1] = chain[n - 1]
        BY <1>1, <1>3
  <2>3. /\ IsCutRedraw(p) => AssetsOf(p, chain) = {"alpha", "depth", "cut", "cutout"}
        /\ p.kind = "stage" => AssetsOf(p, chain) = LAYERS
        /\ p.kind = "lighting" => AssetsOf(p, chain) = Figured(Backed(n))
        BY <1>4, LayersOf DEF AssetsOf, IsCutRedraw
  <2>4. p.kind = "deliver" => AssetsOf(p, chain) = Figured(~p.transparent)
    <3>1. ToSet(LayerSeq(~p.transparent)) = Figured(~p.transparent)
      <4> DEFINE b == ~p.transparent
      <4>1. b \in BOOLEAN
            OBVIOUS
      <4> HIDE DEF b
      <4>2. ToSet(LayerSeq(b)) = Figured(b)
            BY <4>1, LayersOf
      <4> QED
          BY <4>2 DEF b
    <3> QED
        BY <3>1 DEF AssetsOf
  <2>5. p.kind = "saturation" =>
            AssetsOf(p, chain) = Figured("layer-backdrop" \in LayerRolesPresent(chain[n - 1]))
        BY DEF AssetsOf, Figured
  <2> HIDE DEF p
  <2>6. /\ chain'[n].kind = p.kind /\ chain'[n].transparent = p.transparent
        /\ IsCutRedraw(chain'[n]) <=> IsCutRedraw(p)
        BY <1>1 DEF Alike, IsCutRedraw, p
  <2>7. Backed(n)' <=> Backed(n)
        BY <1>1, <1>2
  <2> QED
      BY <1>1, <2>1, <2>2, <2>3, <2>4, <2>5, <2>6, <2>7 DEF AllThere, Figured, p
<1> QED
    BY <1>1, <1>5, <1>6 DEF AttachedInv

\* A root has no assets to account for.
LEMMA RootsHave == Init => AttachedInv
<1> SUFFICES ASSUME Init
             PROVE  AttachedInv
    OBVIOUS
<1>1. chain \in Roots
      BY StudioAssumption DEF Init
<1>2. ASSUME NEW base
      PROVE  LET p == Drawing(base)
             IN  /\ p.kind = "generate" /\ p.photo = FALSE /\ p.framed = FALSE /\ p.light = <<>>
                 /\ p.cut = FALSE
      BY DEF Drawing, Picture
<1> DEFINE Plain(p) == /\ p.photo = FALSE /\ p.framed = FALSE /\ p.light = <<>> /\ p.cut = FALSE
                       /\ p.kind \in {"generate", "photo"} \cup LEGACY_REPAIRS \cup LEGACY_DELIVERED
<1>3. \A base : Plain(Drawing(base))
      BY <1>2
<1>4. \A kind \in {"photo"} \cup LEGACY_REPAIRS \cup LEGACY_DELIVERED : Plain(Picture(kind))
      BY PictureIs
<1> HIDE DEF Plain
<1>5. ASSUME NEW base, chain = <<Drawing(base)>>
      PROVE  \A m \in DOMAIN chain : Plain(chain[m])
      BY <1>3, <1>5
<1>6. ASSUME NEW base, NEW kind \in LEGACY_REPAIRS, chain = <<Drawing(base), Picture(kind)>>
      PROVE  \A m \in DOMAIN chain : Plain(chain[m])
  <2>1. Plain(Picture(kind)) /\ Plain(Drawing(base))
        BY <1>3, <1>4
  <2>2. DOMAIN chain = {1, 2} /\ chain[1] = Drawing(base) /\ chain[2] = Picture(kind)
        BY <1>6
  <2> QED
      BY <2>1, <2>2
<1>7. ASSUME NEW kind \in LEGACY_REPAIRS \cup LEGACY_DELIVERED \cup {"photo"},
             chain = <<Picture(kind)>>
      PROVE  \A m \in DOMAIN chain : Plain(chain[m])
  <2>1. Plain(Picture(kind))
        BY <1>4
  <2>2. DOMAIN chain = {1} /\ chain[1] = Picture(kind)
        BY <1>7
  <2> QED
      BY <2>1, <2>2
<1>8. \A m \in DOMAIN chain : Plain(chain[m])
      BY <1>1, <1>5, <1>6, <1>7 DEF Roots
<1> QED
    BY <1>8 DEF Plain, AttachedInv, InItsPlace, AllThere, IsCutRedraw, LEGACY_REPAIRS, LEGACY_DELIVERED

\* A step leaves the lineage, adds a picture or completes the last one.
LEMMA ChainSteps ==
    ASSUME [Next]_vars
    PROVE  chain' = chain \/ Grows \/ Again
<1>1. CASE Report \/ UNCHANGED vars
      BY <1>1 DEF Report, vars
<1> QED
    BY <1>1, GrowthStep
    DEF Next, DoRedraw, DoDeliver, DoDof, DoLens, DoPhoto, DoStage, DoLighting, DoSaturation

\* Whole pictures have what the next operations look for.
THEOREM AttachedSafe == Spec => [](StudioInv /\ AttachedInv)
<1>1. Init => AttachedInv
      BY RootsHave
<1>2. StudioInv /\ AttachedInv /\ [Next]_vars => AttachedInv'
  <2>1. ASSUME chain' = chain, AttachedInv
        PROVE  AttachedInv'
        BY <2>1 DEF AttachedInv, AllThere, Backed, RestsOn
  <2>2. ASSUME StudioInv
        PROVE  Len(chain) \in Nat
        BY <2>2, Numbered
  <2> QED
      BY <2>1, <2>2, ChainSteps, AddedHas, CompletedHas
<1> QED
    BY <1>1, <1>2, LineageSafe, PTL DEF Spec

-----------------------------------------------------------------------------
(* The layers of whole lineages.                                           *)

\* A picture has a backdrop if the one its layers come from has.
LEMMA BackedBy ==
    ASSUME NEW m \in Nat, NEW i, RestsOn(m, i)
    PROVE  Backed(m) <=> Backs(chain[i])
BY RestsOnce DEF Backed, RestsOn

\* The layers of a picture attached in full, as its parameters have it.
LEMMA WholeLayers ==
    ASSUME StudioInv, AttachedInv, NEW m \in DOMAIN chain, NEW i, RestsOn(m, i),
           chain[m].whole, chain[i].whole, chain[m].kind \in LAYERED_KINDS
    PROVE  chain[m].assets = IF Backed(m) THEN LAYERS ELSE FIGURE_ROLES
<1>0. m \in Nat \ {0} /\ i \in 1..m /\ i \in DOMAIN chain
      BY Numbered DEF RestsOn
<1>1. AllThere(m) /\ AllThere(i)
      BY <1>0 DEF AttachedInv
<1>2. Backed(m) <=> Backs(chain[i])
      BY <1>0, BackedBy
<1>3. CASE chain[m].kind = "lighting"
      BY <1>1, <1>3 DEF AllThere, Figured
<1>4. CASE chain[m].kind = "stage"
  <2>1. i = m
        BY <1>0, <1>4 DEF RestsOn
  <2>2. Backs(chain[m])
        BY <1>4 DEF Backs, IsCutRedraw
  <2> QED
      BY <1>1, <1>2, <1>4, <2>1, <2>2 DEF AllThere
<1>5. CASE chain[m].kind = "deliver"
  <2>1. i = m
        BY <1>0, <1>5 DEF RestsOn
  <2>2. Backs(chain[m]) <=> ~chain[m].transparent
        BY <1>5 DEF Backs, IsCutRedraw
  <2> QED
      BY <1>1, <1>2, <1>5, <2>1, <2>2 DEF AllThere, Figured
<1>6. CASE chain[m].kind = "saturation"
  <2>1. i = m - 1 /\ (IsCutRedraw(chain[i]) \/ chain[i].kind = "deliver")
        BY <1>0, <1>6, RestsSomewhere, RestsOnce
  <2>2. CASE IsCutRedraw(chain[i])
    <3>1. "layer-backdrop" \notin LayerRolesPresent(chain[i])
          BY <2>2 DEF LayerRolesPresent, FIGURE_ROLES
    <3>2. ~Backs(chain[i])
          BY <2>2 DEF Backs
    <3> QED
        BY <1>1, <1>2, <1>6, <2>1, <3>1, <3>2 DEF AllThere, Figured
  <2>3. CASE chain[i].kind = "deliver"
    <3>1. LayerRolesPresent(chain[i]) = chain[i].assets
          BY <2>3 DEF LayerRolesPresent, IsCutRedraw
    <3>2. chain[i].assets = IF Backs(chain[i]) THEN LAYERS ELSE FIGURE_ROLES
          BY <1>1, <2>3 DEF AllThere, Figured, Backs, IsCutRedraw
    <3>3. "layer-backdrop" \in LayerRolesPresent(chain[i]) <=> Backs(chain[i])
          BY <3>1, <3>2 DEF LAYERS, FIGURE_ROLES
    <3> QED
        BY <1>1, <1>2, <1>6, <2>1, <3>3 DEF AllThere, Figured
  <2> QED
      BY <2>1, <2>2, <2>3
<1> QED
    BY <1>3, <1>4, <1>5, <1>6 DEF LAYERED_KINDS

\* A lineage up to its m-th picture.
LEMMA UpTo ==
    ASSUME StudioInv, NEW m \in DOMAIN chain
    PROVE  LET c == SubSeq(chain, 1, m)
           IN  /\ Len(c) = m /\ DOMAIN c = 1..m /\ Last(c) = chain[m]
               /\ \A j \in 1..m : c[j] = chain[j]
<1> DEFINE S == {chain[i] : i \in DOMAIN chain}
           c == SubSeq(chain, 1, m)
<1>1. chain \in Seq(S) /\ m \in 1..Len(chain) /\ Len(chain) \in Nat
      BY Numbered DEF StudioInv, Lineage
<1> HIDE DEF S
<1>2. /\ c \in Seq(S) /\ Len(c) = m
      /\ \A j \in 1..m : c[j] = chain[j]
      BY <1>1, SubSeqProperties
<1>3. DOMAIN c = 1..m
      BY <1>2, LenProperties
<1>4. Last(c) = chain[m]
      BY <1>1, <1>2 DEF Last
<1> QED
    BY <1>2, <1>3, <1>4

\* The two answers to whether a picture has a backdrop layer agree: what the
\* parameters of its lineage say (has_backdrop_layer) and what its assets say.
THEOREM LayersSafe == Spec => []LayersMatch
<1>1. ASSUME StudioInv, AttachedInv
      PROVE  LayersMatch
  <2> SUFFICES ASSUME NEW m \in DOMAIN chain,
                      chain[m].kind \in LAYERED_KINDS, WholeFrom(SubSeq(chain, 1, m))
               PROVE  "layer-backdrop" \in chain[m].assets <=> HasBackdrop(SubSeq(chain, 1, m))
      BY <1>1, UpTo DEF LayersMatch
  <2> DEFINE c == SubSeq(chain, 1, m)
  <2>1. /\ Len(c) = m /\ DOMAIN c = 1..m /\ \A j \in 1..m : c[j] = chain[j]
        BY <1>1, UpTo
  <2>2. WholeFrom(c)
        OBVIOUS
  <2> HIDE DEF c
  <2>3. RestsOn(m, Under(c)) /\ Under(c) \in 1..m /\ (HasBackdrop(c) <=> Backed(m))
        BY <1>1, <2>1, UnderIs
  <2>4. m \in Nat \ {0}
        BY <1>1, Numbered
  <2>5. chain[m].whole /\ chain[Under(c)].whole
        BY <2>1, <2>2, <2>3, <2>4 DEF WholeFrom
  <2>6. chain[m].assets = IF Backed(m) THEN LAYERS ELSE FIGURE_ROLES
        BY <1>1, <2>3, <2>5, WholeLayers
  <2>7. "layer-backdrop" \in chain[m].assets <=> HasBackdrop(c)
        BY <2>3, <2>6 DEF LAYERS, FIGURE_ROLES
  <2> QED
      BY <2>7 DEF c
<1> QED
    BY <1>1, AttachedSafe, PTL

-----------------------------------------------------------------------------
(* Refusals for want of layers.                                            *)

\* With nothing torn every picture is whole.
LEMMA NoneTorn ==
    ASSUME StudioInv, ~(Torn(chain) > 0)
    PROVE  \A m \in DOMAIN chain : chain[m].whole
<1> DEFINE S == {m \in DOMAIN chain : ~chain[m].whole}
<1>1. DOMAIN chain = 1..Len(chain) /\ Len(chain) \in Nat
      BY Numbered
<1>2. IsFiniteSet(S)
  <2>1. IsFiniteSet(1..Len(chain)) /\ S \in SUBSET (1..Len(chain))
        BY <1>1, FS_Interval
  <2> QED
      BY <2>1, FS_Subset
<1>3. Cardinality(S) \in Nat /\ ~(Cardinality(S) > 0)
      BY <1>2, FS_CardinalityType DEF Torn
<1>4. S = {}
      BY <1>2, <1>3, FS_EmptySet
<1> QED
    BY <1>4

\* What has layers and is whole has those that are asked of it.
LEMMA WholeAnswers ==
    ASSUME StudioInv, AttachedInv, \A m \in DOMAIN chain : chain[m].whole,
           Source.kind \in LAYERED_KINDS \/ IsCutRedraw(Source)
    PROVE  /\ LayerRoles(chain) \subseteq LayerRolesPresent(Source)
           /\ FIGURE_ROLES \subseteq LayerRolesPresent(Source)
<1> DEFINE n == Len(chain)
<1>1. n \in DOMAIN chain /\ Source = chain[n] /\ n \in Nat \ {0}
      BY Numbered
<1>2. LayerRoles(chain) = Figured(Backed(n))
      BY BackdropIs
<1>3. PICK i \in 1..n : RestsOn(n, i)
      BY <1>1, RestsSomewhere
<1>4. i \in DOMAIN chain
      BY <1>3, Numbered
<1>5. CASE Source.kind \in LAYERED_KINDS
  <2>1. chain[n].assets = IF Backed(n) THEN LAYERS ELSE FIGURE_ROLES
        BY <1>1, <1>3, <1>4, <1>5, WholeLayers
  <2>2. LayerRolesPresent(Source) = Source.assets
        BY <1>5 DEF LayerRolesPresent, IsCutRedraw, LAYERED_KINDS
  <2> QED
      BY <1>1, <1>2, <2>1, <2>2 DEF Figured, LAYERS
<1>6. CASE IsCutRedraw(Source)
  <2>1. Source.assets = {"alpha", "depth", "cut", "cutout"}
        BY <1>1, <1>6 DEF AttachedInv, AllThere
  <2>2. LayerRolesPresent(Source) = FIGURE_ROLES
        BY <1>6, <2>1 DEF LayerRolesPresent
  <2>3. RestsOn(n, n)
        BY <1>1, <1>6 DEF RestsOn, IsCutRedraw
  <2>4. ~Backed(n)
        BY <1>1, <1>6, <2>3, BackedBy DEF Backs
  <2> QED
      BY <1>2, <2>2, <2>4 DEF Figured
<1> QED
    BY <1>5, <1>6

\* A row is refused for want of layers by a source that was not attached in
\* full, or by one it does not take.
LEMMA RefusedForLayers ==
    ASSUME StudioInv, AttachedInv, NEW v,
           Source.kind \in LAYERED_KINDS \/ IsCutRedraw(Source), ~(Torn(chain) > 0)
    PROVE  /\ RedrawRefusal(v) # "no layers" /\ DeliverRefusal(v) # "no layers"
           /\ LensRefusal(v) # "no layers" /\ DofRefusal(v) # "no layers"
           /\ StageRefusal(v) # "no layers" /\ LightingRefusal(v) # "no layers"
           /\ SaturationRefusal(v) # "no layers"
           /\ PhotoRefusal(v) = "no layers" => Source.kind \in {"stage", "lighting"}
<1>1. /\ LayerRoles(chain) \subseteq LayerRolesPresent(Source)
      /\ FIGURE_ROLES \subseteq LayerRolesPresent(Source)
      BY NoneTorn, WholeAnswers
<1>2. Setting(chain).source # 0
      BY SettingIsFound DEF SettingFound
<1>3. RedrawRefusal(v) # "no layers"
      BY Zenon DEF RedrawRefusal
<1>4. DeliverRefusal(v) # "no layers"
      BY DEF DeliverRefusal
<1>5. LensRefusal(v) # "no layers"
      BY DEF LensRefusal
<1>6. DofRefusal(v) # "no layers"
      BY <1>1, <1>2 DEF DofRefusal
<1>7. StageRefusal(v) # "no layers"
      BY <1>1 DEF StageRefusal
<1>8. LightingRefusal(v) # "no layers"
      BY <1>1 DEF LightingRefusal
<1>9. SaturationRefusal(v) # "no layers"
      BY <1>1 DEF SaturationRefusal
<1>10. PhotoRefusal(v) = "no layers" => Source.kind \in {"stage", "lighting"}
      BY <1>1 DEF PhotoRefusal, LAYERED_KINDS
<1> QED
    BY <1>3, <1>4, <1>5, <1>6, <1>7, <1>8, <1>9, <1>10

-----------------------------------------------------------------------------
(* The order of a whole lineage, and how long its redraws get.             *)

Sorted ==
    \A i, j \in DOMAIN chain :
        i < j => \/ Rank(chain[i]) < Rank(chain[j])
                 \/ Rank(chain[i]) = Rank(chain[j]) /\ Rank(chain[i]) \in {0, 6}

\* A drawing is the first picture, a repair the second at most, and a redraw
\* no further from the first than a redraw looks for it.
WithinHops ==
    \A m \in DOMAIN chain :
        /\ chain[m].kind = "generate" => m = 1
        /\ chain[m].kind \in LEGACY_REPAIRS => m <= 2
        /\ chain[m].kind = "redraw" => m > 1 /\ m <= LINEAGE_HOPS + 2

OrderedInv == Sorted /\ WithinHops

\* A redraw that is not refused has its drawing in reach.
LEMMA DrawingInReach ==
    ASSUME StudioInv, OrderedInv, NEW v, RedrawRefusal(v) = "none"
    PROVE  Len(chain) + 1 <= LINEAGE_HOPS + 2
<1> DEFINE n == Len(chain)
           found == {i \in DOMAIN chain : ~IsDerived(chain[i])
                         /\ \A j \in (i + 1)..Len(chain) : IsDerived(chain[j])}
           i == Highest(found)
<1>1. ~IsDelivered(Source) /\ Origin(chain) # 0
      BY Zenon DEF RedrawRefusal
<1>2. n \in DOMAIN chain /\ n \in Nat \ {0} /\ Source = chain[n] /\ DOMAIN chain = 1..n
      BY Numbered
<1>3. found # {} /\ n - i <= LINEAGE_HOPS
      BY <1>1 DEF Origin
<1>4. i \in found
  <2>1. PICK k \in found : TRUE
        BY <1>3
  <2>2. k \in 1..n /\ \A j \in (k + 1)..n : IsDerived(chain[j])
        BY <1>2, <2>1
  <2>3. \A j \in found : j <= k
        BY <1>2, <2>2
  <2>4. i = k
        BY <1>2, <2>1, <2>3, HighestIs
  <2> QED
      BY <2>1, <2>4
<1> HIDE DEF i
<1>5. i \in 1..n /\ ~IsDerived(chain[i])
      BY <1>2, <1>4
<1>6. Rank(Source) = 0
      BY <1>1, Undelivered DEF StudioInv
<1>7. Rank(chain[i]) = 0
      BY <1>2, <1>5, <1>6, Numbered DEF OrderedInv, Sorted
<1>8. chain[i].kind = "generate"
  <2>1. chain[i].kind \in AllKinds
        BY <1>2, <1>5, Numbered
  <2>2. chain[i].kind \in {"generate"} \cup DERIVED_KINDS
        BY <1>7, <2>1, RankOf
  <2> QED
      BY <1>5, <2>2 DEF IsDerived
<1>9. i = 1
      BY <1>2, <1>5, <1>8 DEF OrderedInv, WithinHops
<1> QED
    BY <1>2, <1>3, <1>9, StudioAssumption

\* An operation adds pictures of its own kind only.
LEMMA OwnKind ==
    ASSUME NEW v,
           Redraw(v) \/ Deliver(v) \/ Dof(v) \/ Lens(v) \/ Photo(v) \/ Stage(v) \/ Lighting(v)
               \/ Saturation(v)
    PROVE  \/ chain' = chain
           \/ \E q : /\ chain' = Append(chain, q) /\ q.kind \in KINDS
                     /\ q.kind = "redraw" => RedrawRefusal(v) = "none"
<1> DEFINE Own(p) == p.kind \in KINDS /\ p.kind # "redraw"
<1>0. ASSUME NEW p, Own(p), NEW X, NEW done, Records(p, X, done)
      PROVE  \E q : chain' = Append(chain, q) /\ q.kind \in KINDS /\ q.kind # "redraw"
      BY <1>0 DEF Records, Alike
<1>1. CASE Redraw(v)
  <2>1. CASE RedrawRefusal(v) # "none"
        BY <1>1, <2>1 DEF Redraw, Refuse
  <2>2. CASE RedrawRefusal(v) = "none"
    <3>1. PICK q : Alike(q, RedrawPicture(v)) /\ chain' = Append(chain, q)
          BY <1>1, <2>2, RedrawRecords DEF Records
    <3>2. q.kind = "redraw"
          BY <3>1 DEF Alike, RedrawPicture, Picture
    <3> QED
        BY <2>2, <3>1, <3>2 DEF KINDS
  <2> QED
      BY <2>1, <2>2
<1>2. CASE Deliver(v)
  <2>1. CASE DeliverRefusal(v) # "none"
        BY <1>2, <2>1 DEF Deliver, Refuse
  <2>2. Own(DeliverPicture(v))
        BY DEF DeliverPicture, Picture, KINDS
  <2> QED
      BY <1>0, <1>2, <2>1, <2>2, DeliverRecords
<1>3. CASE Dof(v)
  <2>1. CASE DofRefusal(v) # "none"
        BY <1>3, <2>1 DEF Dof, Refuse
  <2>2. \A i : Own(DofPicture(v, i))
        BY DEF DofPicture, Picture, KINDS
  <2> QED
      BY <1>0, <1>3, <2>1, <2>2, DofRecords
<1>4. CASE Lens(v)
  <2>1. CASE LensRefusal(v) # "none"
        BY <1>4, <2>1 DEF Lens, Refuse
  <2>2. Own(Picture("lens"))
        BY PictureIs DEF KINDS
  <2> QED
      BY <1>0, <1>4, <2>1, <2>2, LensRecords
<1>5. CASE Photo(v)
  <2>1. CASE PhotoRefusal(v) # "none"
        BY <1>5, <2>1 DEF Photo, Refuse
  <2>2. Own(Picture("photo"))
        BY PictureIs DEF KINDS
  <2> QED
      BY <1>0, <1>5, <2>1, <2>2, PhotoRecords
<1>6. CASE Stage(v)
  <2>1. CASE StageRefusal(v) # "none"
        BY <1>6, <2>1 DEF Stage, Refuse
  <2>2. Own(StagePicture(v))
        BY DEF StagePicture, Picture, KINDS
  <2> QED
      BY <1>0, <1>6, <2>1, <2>2, StageRecords
<1>7. CASE Lighting(v)
  <2>1. CASE LightingRefusal(v) # "none"
        BY <1>7, <2>1 DEF Lighting, Refuse
  <2>2. Own(Picture("lighting"))
        BY PictureIs DEF KINDS
  <2> QED
      BY <1>0, <1>7, <2>1, <2>2, LightingRecords
<1>8. CASE Saturation(v)
  <2>1. CASE SaturationRefusal(v) # "none"
        BY <1>8, <2>1 DEF Saturation, Refuse
  <2>2. Own(Picture("saturation"))
        BY PictureIs DEF KINDS
  <2> QED
      BY <1>0, <1>8, <2>1, <2>2, SaturationRecords
<1> QED
    BY <1>1, <1>2, <1>3, <1>4, <1>5, <1>6, <1>7, <1>8

\* A picture added after its source keeps the whole lineage in order.
LEMMA AddedInOrder ==
    ASSUME StudioInv, StudioInv', OrderedInv, NEW q, chain' = Append(chain, q), q.kind \in KINDS,
           q.kind = "redraw" => \E v : RedrawRefusal(v) = "none",
           NEW n \in Nat, n = Len(chain)
    PROVE  OrderedInv'
<1>1. /\ n \in Nat \ {0} /\ DOMAIN chain = 1..n /\ Len(chain') = n + 1
      /\ DOMAIN chain' = 1..(n + 1)
      /\ \A m \in 1..n : chain'[m] = chain[m]
      /\ chain'[n + 1] = q
      BY Appended, Numbered
<1>2. \A m \in 1..(n + 1) : Rank(chain'[m]) \in 0..6
  <2>1. chain'[n + 1].kind \in AllKinds
        BY <1>1 DEF AllKinds
  <2> QED
      BY <1>1, <2>1, Numbered, RankOf
<1>3. \/ Rank(chain'[n]) < Rank(chain'[n + 1])
      \/ Rank(chain'[n]) = Rank(chain'[n + 1]) /\ Rank(chain'[n]) \in {0, 6}
      BY <1>1 DEF StudioInv, OneOrder, Follows
<1>4. Sorted'
  <2> SUFFICES ASSUME NEW i \in 1..(n + 1), NEW j \in 1..(n + 1), i < j
               PROVE  \/ Rank(chain'[i]) < Rank(chain'[j])
                      \/ Rank(chain'[i]) = Rank(chain'[j]) /\ Rank(chain'[i]) \in {0, 6}
      BY <1>1 DEF Sorted
  <2>1. CASE j \in 1..n
        BY <1>1, <2>1 DEF OrderedInv, Sorted
  <2>2. CASE j = n + 1
    <3>1. i = n \/ (i \in 1..n /\ i < n)
          BY <1>1, <2>2
    <3>2. i = n \/ Rank(chain'[i]) < Rank(chain'[n])
                \/ (Rank(chain'[i]) = Rank(chain'[n]) /\ Rank(chain'[i]) \in {0, 6})
          BY <1>1, <3>1 DEF OrderedInv, Sorted
    <3> QED
        BY <1>1, <1>2, <1>3, <2>2, <3>2
  <2> QED
      BY <2>1, <2>2
<1>5. WithinHops'
  <2>1. q.kind \notin LEGACY_REPAIRS \cup {"generate"}
        BY DEF KINDS, LEGACY_REPAIRS
  <2>2. q.kind = "redraw" => n + 1 <= LINEAGE_HOPS + 2
        BY DrawingInReach
  <2> QED
      BY <1>1, <2>1, <2>2 DEF OrderedInv, WithinHops
<1> QED
    BY <1>4, <1>5 DEF OrderedInv

\* The roots are in order.
LEMMA RootsOrdered == Init => OrderedInv
<1> SUFFICES ASSUME Init
             PROVE  OrderedInv
    OBVIOUS
<1>1. chain \in Roots
      BY StudioAssumption DEF Init
<1>2. ASSUME NEW base
      PROVE  Drawing(base).kind = "generate"
      BY DEF Drawing, Picture
<1>3. ASSUME NEW p, chain = <<p>>, p.kind \notin {"redraw"}
      PROVE  OrderedInv
  <2>1. DOMAIN chain = {1} /\ chain[1] = p
        BY <1>3
  <2> QED
      BY <1>3, <2>1 DEF OrderedInv, Sorted, WithinHops
<1>4. ASSUME NEW base, NEW kind \in LEGACY_REPAIRS, chain = <<Drawing(base), Picture(kind)>>
      PROVE  OrderedInv
  <2>1. DOMAIN chain = {1, 2} /\ chain[1] = Drawing(base) /\ chain[2] = Picture(kind)
        BY <1>4
  <2>2. chain[1].kind = "generate" /\ chain[2].kind = kind
    <3>1. Drawing(base).kind = "generate" /\ Picture(kind).kind = kind
          BY <1>2, PictureIs
    <3> QED
        BY <2>1, <3>1
  <2>3. Rank(chain[1]) = 0 /\ Rank(chain[2]) = 0
        BY <2>2, Ranks DEF DERIVED_KINDS
  <2> QED
      BY <2>1, <2>2, <2>3 DEF OrderedInv, Sorted, WithinHops, LEGACY_REPAIRS
<1>5. ASSUME NEW kind \in LEGACY_REPAIRS \cup LEGACY_DELIVERED \cup {"photo"}
      PROVE  Picture(kind).kind \notin {"redraw"}
      BY PictureIs DEF LEGACY_REPAIRS, LEGACY_DELIVERED
<1> QED
    BY <1>1, <1>2, <1>3, <1>4, <1>5 DEF Roots

\* Every step keeps the order.
LEMMA OrderedStep ==
    ASSUME StudioInv, StudioInv', OrderedInv, [Next]_vars
    PROVE  OrderedInv'
<1>1. ASSUME chain' = chain
      PROVE  OrderedInv'
      BY <1>1 DEF OrderedInv, Sorted, WithinHops
<1>2. CASE Again
  <2>1. /\ DOMAIN chain' = DOMAIN chain
        /\ \A m \in DOMAIN chain : chain'[m].kind = chain[m].kind
        BY <1>2, Completes, Numbered DEF Alike
  <2>2. \A m \in DOMAIN chain : Rank(chain'[m]) = Rank(chain[m])
        BY <2>1 DEF Rank
  <2> QED
      BY <2>1, <2>2 DEF OrderedInv, Sorted, WithinHops
<1>3. ASSUME NEW v,
             Redraw(v) \/ Deliver(v) \/ Dof(v) \/ Lens(v) \/ Photo(v) \/ Stage(v) \/ Lighting(v)
                 \/ Saturation(v)
      PROVE  OrderedInv'
  <2>1. Len(chain) \in Nat
        BY Numbered
  <2> QED
      BY <1>1, <1>3, <2>1, OwnKind, AddedInOrder
<1>4. CASE Report \/ UNCHANGED vars
      BY <1>1, <1>4 DEF Report, vars
<1> QED
    BY <1>2, <1>3, <1>4
    DEF Next, DoRedraw, DoDeliver, DoDof, DoLens, DoPhoto, DoStage, DoLighting, DoSaturation

\* Pictures come in the order of the operations over the whole of a lineage,
\* and no redraw is further from its drawing than a redraw looks back.
THEOREM OrderedSafe == Spec => []OrderedInv
BY RootsOrdered, OrderedStep, LineageSafe, PTL DEF Spec

-----------------------------------------------------------------------------
(* What a row reads of its lineage.                                        *)

\* A setting is where the layers of a lineage stand.
Standing(c, s) ==
    LET drawn  == {i \in DOMAIN c : Rank(c[i]) = 0}
        photos == {i \in DOMAIN c : c[i].photo}
    IN  IF photos # {} THEN s.photo /\ s.source \in photos
        ELSE /\ ~s.photo
             /\ s.source = Highest(drawn)
             /\ s.framed <=> \E i \in DOMAIN c : c[i].framed

\* Only stages have a photo or a frame, none of them before what was drawn or
\* delivered last.
LEMMA StagesLater ==
    ASSUME StudioInv, AttachedInv, OrderedInv, NEW i \in DOMAIN chain,
           IsCutRedraw(chain[i]) \/ chain[i].kind = "deliver"
    PROVE  /\ Rank(chain[i]) = IF chain[i].kind = "deliver" THEN 1 ELSE 0
           /\ \A j \in 1..i : ~chain[j].photo /\ ~chain[j].framed
<1>1. Rank(chain[i]) = IF chain[i].kind = "deliver" THEN 1 ELSE 0
      BY Ranks DEF IsCutRedraw, DERIVED_KINDS
<1>2. DOMAIN chain = 1..Len(chain) /\ Len(chain) \in Nat
      BY Numbered
<1>3. ASSUME NEW j \in 1..i
      PROVE  chain[j].kind # "stage" /\ j \in DOMAIN chain
  <2>1. j \in DOMAIN chain
        BY <1>2
  <2>2. j = i \/ Rank(chain[j]) <= Rank(chain[i])
        BY <1>2, <2>1, Numbered DEF OrderedInv, Sorted
  <2> QED
      BY <1>1, <2>1, <2>2, Ranks
<1>4. \A j \in 1..i : ~chain[j].photo /\ ~chain[j].framed
      BY <1>3 DEF AttachedInv, InItsPlace
<1> QED
    BY <1>1, <1>4

\* The drawing under a delivery or a cut redraw is the last one drawn.
LEMMA LastDrawn ==
    ASSUME StudioInv, OrderedInv, NEW i \in DOMAIN chain,
           Rank(chain[i]) = 0, \A j \in (i + 1)..Len(chain) : Rank(chain[j]) > 0
    PROVE  Highest({j \in DOMAIN chain : Rank(chain[j]) = 0}) = i
<1> DEFINE D == {j \in DOMAIN chain : Rank(chain[j]) = 0}
<1>1. DOMAIN chain = 1..Len(chain) /\ Len(chain) \in Nat
      BY Numbered
<1>2. D \subseteq Int /\ i \in D /\ \A j \in D : j <= i
      BY <1>1
<1> HIDE DEF D
<1>3. Highest(D) = i
      BY <1>2, HighestIs
<1> QED
    BY <1>3 DEF D

\* A dof finds where its layers stand.
LEMMA SettingStands ==
    ASSUME StudioInv, AttachedInv, OrderedInv, IsCutRedraw(Source) \/ Source.kind \in LAYERED_KINDS
    PROVE  Standing(chain, Setting(chain))
<1> DEFINE n == Len(chain)
           s == Setting(chain)
           photos == {j \in DOMAIN chain : chain[j].photo}
           drawn == {j \in DOMAIN chain : Rank(chain[j]) = 0}
<1>1. PICK i \in 1..n : /\ i > n - SETTING_HOPS /\ Stands(chain[i])
                        /\ \A j \in (i + 1)..n : ~Ends(chain[j])
      BY SourceAnchored DEF Anchored
<1>2. n \in Nat \ {0} /\ DOMAIN chain = 1..n
      BY Numbered
<1>3. \A j \in (i + 1)..n : Rank(chain[j]) > 0 /\ ~chain[j].photo
  <2> SUFFICES ASSUME NEW j \in (i + 1)..n
               PROVE  Rank(chain[j]) > 0 /\ ~chain[j].photo
      OBVIOUS
  <2>1. j \in DOMAIN chain /\ chain[j].kind \in {"saturation", "stage", "lighting"}
        BY <1>1, <1>2 DEF Ends
  <2>2. chain[j].kind = "stage" => ~chain[j].photo
        BY <1>1 DEF Ends
  <2>3. ~chain[j].photo
        BY <2>1, <2>2 DEF AttachedInv, InItsPlace
  <2> QED
      BY <2>1, <2>3, Ranks
<1>4. CASE chain[i].kind = "stage" /\ chain[i].photo
  <2>1. s.source = i /\ s.photo = TRUE
        BY <1>1, <1>4, SettingAt
  <2>2. i \in photos
        BY <1>2, <1>4
  <2>3. photos # {} /\ s.photo /\ s.source \in photos
        BY <2>1, <2>2
  <2> QED
      BY <2>3 DEF Standing
<1>5. CASE IsCutRedraw(chain[i]) \/ chain[i].kind = "deliver"
  <2>1. /\ Rank(chain[i]) = IF chain[i].kind = "deliver" THEN 1 ELSE 0
        /\ \A j \in 1..i : ~chain[j].photo /\ ~chain[j].framed
        BY <1>2, <1>5, StagesLater
  <2>2. photos = {}
        BY <1>2, <1>3, <2>1
  <2>3. (\E j \in i..n : chain[j].framed) <=> (\E j \in DOMAIN chain : chain[j].framed)
        BY <1>2, <2>1
  <2>4. /\ IsCutRedraw(chain[i]) => s.source = i
        /\ chain[i].kind = "deliver" => i # 1 /\ s.source = i - 1
        /\ s.photo = FALSE /\ s.framed = \E j \in i..n : chain[j].framed
        BY <1>1, <1>5, SettingAt
  <2>5. s.source = Highest(drawn)
    <3>1. CASE IsCutRedraw(chain[i])
      <4>1. Rank(chain[i]) = 0
            BY <2>1, <3>1 DEF IsCutRedraw
      <4>2. Highest(drawn) = i
            BY <1>2, <1>3, <4>1, LastDrawn
      <4> QED
          BY <2>4, <3>1, <4>2
    <3>2. CASE chain[i].kind = "deliver"
      <4>1. Rank(chain[i]) = 1 /\ i - 1 \in DOMAIN chain /\ i - 1 \in Nat
            BY <1>2, <2>1, <2>4, <3>2
      <4>2. Rank(chain[i - 1]) = 0
            BY <1>2, <4>1, Numbered DEF OrderedInv, Sorted
      <4>3. \A j \in ((i - 1) + 1)..n : Rank(chain[j]) > 0
            BY <1>3, <4>1
      <4>4. Highest(drawn) = i - 1
            BY <1>2, <4>1, <4>2, <4>3, LastDrawn
      <4> QED
          BY <2>4, <3>2, <4>4
    <3> QED
        BY <1>5, <3>1, <3>2
  <2>6. ~s.photo /\ s.source = Highest(drawn)
        /\ (s.framed <=> \E j \in DOMAIN chain : chain[j].framed)
        BY <2>3, <2>4, <2>5
  <2> QED
      BY <2>2, <2>6 DEF Standing
<1> QED
    BY <1>1, <1>4, <1>5 DEF Stands

\* What a row reads is there, and a blur finds where the layers stand.
Reads(c, read) ==
    read # {} => IF IsCutRedraw(Last(c)) THEN {"cutout", "alpha"} \subseteq Last(c).assets
                 ELSE read \subseteq Last(c).assets
RowReads(c, r) ==
    /\ Reads(c, r.read)
    /\ r.setting.photo => "layer-backdrop" \in r.read
    /\ r.kind = "dof" => Standing(c, r.setting)

RowInv == DOMAIN row = ROW /\ NeverAtALoss /\ ReadsPresent /\ DepthFound

\* The roles that are present can be read.
LEMMA ReadsOf ==
    ASSUME StudioInv, NEW read, read \subseteq LayerRolesPresent(Source)
    PROVE  Reads(chain, read)
<1>1. Last(chain) = Source
      BY DEF Last, Source
<1> QED
    BY <1>1 DEF Reads, LayerRolesPresent

\* A blur in a photo finds a stage's backdrop.
LEMMA PhotoIsBacked ==
    ASSUME StudioInv, Setting(chain).photo
    PROVE  "layer-backdrop" \in LayerRoles(chain)
<1> DEFINE n == Len(chain)
           E == SettingEnds(chain)
<1>1. n \in Nat \ {0} /\ DOMAIN chain = 1..n /\ n \in DOMAIN chain
      BY Numbered
<1>2. PICK k \in 1..n : RestsOn(n, k)
      BY <1>1, RestsSomewhere
<1>3. CASE chain[k].kind = "stage"
  <2>1. Backs(chain[k])
        BY <1>3 DEF Backs, IsCutRedraw
  <2>2. Backed(n)
        BY <1>1, <1>2, <2>1, BackedBy
  <2> QED
      BY <2>2, BackdropIs DEF Figured, LAYERS
<1>4. CASE chain[k].kind # "stage"
  <2>1. E = {j \in 1..n : j > n - SETTING_HOPS /\ Ends(chain[j])}
        BY <1>1 DEF SettingEnds, Ends
  <2>2. Ends(chain[k])
        BY <1>2, <1>4 DEF RestsOn, Ends
  <2>3. \A j \in (k + 1)..n : chain[j].kind \in {"saturation", "lighting"} /\ ~Ends(chain[j])
        BY <1>2 DEF RestsOn, Ends, IsCutRedraw
  <2>4. \A j \in E : j <= k
        BY <1>1, <2>1, <2>3
  <2>5. CASE E = {}
        BY <2>5 DEF Setting, NoSetting
  <2>6. CASE E # {}
    <3>1. k \in E
          BY <1>1, <2>1, <2>2, <2>4, <2>6 DEF SETTING_HOPS
    <3>2. E \subseteq Int
          BY <2>1
    <3> HIDE DEF E
    <3>3. Highest(E) = k
          BY <2>4, <3>1, <3>2, HighestIs
    <3> USE DEF E
    <3> DEFINE framed == \E j \in k..n : chain[j].framed
    <3>4. Setting(chain) =
              CASE chain[k].kind = "stage"    -> [source |-> k, photo |-> TRUE, framed |-> FALSE]
                [] IsCutRedraw(chain[k])      -> [source |-> k, photo |-> FALSE, framed |-> framed]
                [] chain[k].kind = "deliver"  -> [source |-> k - 1, photo |-> FALSE, framed |-> framed]
                [] OTHER                      -> NoSetting
          BY <2>6, <3>3, Zenon DEF Setting
    <3> HIDE DEF framed
    <3>5. Setting(chain).photo = FALSE
      <4>1. CASE IsCutRedraw(chain[k]) /\ chain[k].kind # "deliver"
        <5>1. Setting(chain) = [source |-> k, photo |-> FALSE, framed |-> framed]
              BY <1>4, <3>4, <4>1, Zenon
        <5> QED
            BY <5>1
      <4>2. CASE chain[k].kind = "deliver"
        <5>1. ~IsCutRedraw(chain[k])
              BY <4>2 DEF IsCutRedraw
        <5>2. Setting(chain) = [source |-> k - 1, photo |-> FALSE, framed |-> framed]
              BY <1>4, <3>4, <4>2, <5>1, Zenon
        <5> QED
            BY <5>2
      <4>3. CASE ~IsCutRedraw(chain[k]) /\ chain[k].kind # "deliver"
        <5>1. Setting(chain) = NoSetting
              BY <1>4, <3>4, <4>3, Zenon
        <5> QED
            BY <5>1 DEF NoSetting
      <4> QED
          BY <4>1, <4>2, <4>3 DEF IsCutRedraw
    <3> QED
        BY <3>5
  <2> QED
      BY <2>5, <2>6
<1> QED
    BY <1>3, <1>4

\* The lineage an operation was executed on.
LEMMA BeforeAdded ==
    ASSUME StudioInv, NEW q, chain' = Append(chain, q), Made'
    PROVE  Before' = chain
<1> DEFINE n == Len(chain)
           S == {chain[i] : i \in DOMAIN chain} \cup {q}
<1>1. chain \in Seq(S) /\ q \in S /\ n \in Nat
      BY SeqMonotonic, Numbered DEF StudioInv, Lineage
<1> HIDE DEF S
<1>2. /\ Append(chain, q) \in Seq(S) /\ Len(Append(chain, q)) = n + 1
      /\ \A m \in 1..n : Append(chain, q)[m] = chain[m]
      BY <1>1, AppendProperties
<1> DEFINE b == SubSeq(Append(chain, q), 1, n)
<1>3. b \in Seq(S) /\ Len(b) = n /\ \A m \in 1..n : b[m] = chain[m]
  <2>1. \A m \in 1..n : Append(chain, q)[m] \in S
        BY <1>1, <1>2
  <2>2. /\ b \in Seq(S) /\ Len(b) = IF 1 <= n THEN n - 1 + 1 ELSE 0
        /\ \A m \in 1..(n - 1 + 1) : b[m] = Append(chain, q)[1 + m - 1]
        BY <1>1, <2>1, SubSeqProperties
  <2> QED
      BY <1>1, <1>2, <2>2
<1> HIDE DEF b
<1>4. b = chain
      BY <1>1, <1>3, SeqEqual
<1>5. Before' = SubSeq(chain', 1, Len(chain') - 1)
      BY DEF Before
<1> QED
    BY <1>1, <1>2, <1>4, <1>5 DEF b

\* Two sequences begin alike.
LEMMA SameStart ==
    ASSUME NEW s, NEW t, NEW k \in Nat, \A m \in 1..k : s[m] = t[m]
    PROVE  SubSeq(s, 1, k) = SubSeq(t, 1, k)
<1> DEFINE S == {s[m] : m \in 1..k}
           b == SubSeq(s, 1, k)
           c == SubSeq(t, 1, k)
<1>1. \A m \in 1..k : s[m] \in S /\ t[m] \in S
      OBVIOUS
<1> HIDE DEF S
<1>2. /\ b \in Seq(S) /\ Len(b) = IF 1 <= k THEN k - 1 + 1 ELSE 0
      /\ \A m \in 1..(k - 1 + 1) : b[m] = s[1 + m - 1]
      BY <1>1, SubSeqProperties
<1>3. /\ c \in Seq(S) /\ Len(c) = IF 1 <= k THEN k - 1 + 1 ELSE 0
      /\ \A m \in 1..(k - 1 + 1) : c[m] = t[1 + m - 1]
      BY <1>1, SubSeqProperties
<1> HIDE DEF b, c
<1>4. Len(b) = Len(c) /\ Len(b) = k
      BY <1>2, <1>3
<1>5. \A m \in 1..Len(b) : b[m] = c[m]
  <2> SUFFICES ASSUME NEW m \in 1..k
               PROVE  b[m] = c[m]
      BY <1>4
  <2>1. m \in 1..(k - 1 + 1) /\ 1 + m - 1 = m
        OBVIOUS
  <2> QED
      BY <1>2, <1>3, <2>1
<1>6. b = c
      BY <1>2, <1>3, <1>4, <1>5, SeqEqual
<1> QED
    BY <1>6 DEF b, c

\* Completing the last picture leaves the lineage before it.
LEMMA BeforeAgain ==
    ASSUME StudioInv, Again, Made'
    PROVE  Before' = SubSeq(chain, 1, Len(chain) - 1)
<1>1. Len(chain) \in Nat \ {0} /\ Len(chain) - 1 \in Nat
      BY Numbered
<1>2. Len(chain') = Len(chain) /\ \A m \in 1..(Len(chain) - 1) : chain'[m] = chain[m]
  <2>1. Len(chain') = Len(chain) /\ \A m \in 1..Len(chain) : m # Len(chain) => chain'[m] = chain[m]
        BY Completes
  <2>2. \A m \in 1..(Len(chain) - 1) : m \in 1..Len(chain) /\ m # Len(chain)
        BY <1>1
  <2> QED
      BY <2>1, <2>2
<1>3. SubSeq(chain', 1, Len(chain) - 1) = SubSeq(chain, 1, Len(chain) - 1)
      BY <1>1, <1>2, SameStart
<1> QED
    BY <1>2, <1>3 DEF Before

\* Where there is no setting there is no photo.
LEMMA NoPhoto == NoSetting.photo = FALSE
BY DEF NoSetting

\* A refused row has read nothing.
LEMMA RefusedKeeps ==
    ASSUME StudioInv, NEW kind, NEW why, Refuse(kind, why), why \notin {"done", "torn"},
           why = "no layers" /\ (Source.kind \in LAYERED_KINDS \/ IsCutRedraw(Source)) =>
               Torn(chain) > 0 \/ (kind = "photo" /\ Source.kind \in {"stage", "lighting"})
    PROVE  RowInv'
<1>1. /\ chain' = chain /\ DOMAIN row' = ROW /\ row'.kind = kind /\ row'.how = why
      /\ row'.read = {} /\ row'.setting = NoSetting
      BY DEF Refuse, Idle, ROW
<1>2. Last(chain') = Source
      BY <1>1 DEF Last, Source
<1>3. NeverAtALoss'
  <2>1. Torn(chain') = Torn(chain)
        BY <1>1
  <2> QED
      BY <1>1, <1>2, <2>1 DEF NeverAtALoss
<1>4. ReadsPresent'
      BY <1>1, NoPhoto DEF ReadsPresent
<1>5. DepthFound'
      BY <1>1 DEF DepthFound, Made
<1> QED
    BY <1>1, <1>3, <1>4, <1>5 DEF RowInv

\* A row that comes out has read what was there.
LEMMA MadeKeeps ==
    ASSUME StudioInv, NEW p, NEW X, NEW done, done.how = "done", Records(p, X, done),
           RowReads(chain, done)
    PROVE  RowInv'
<1>1. /\ DOMAIN row' = ROW /\ row'.kind = done.kind /\ row'.read = done.read
      /\ row'.setting = done.setting /\ row'.how \in {"done", "torn"}
      BY DEF Records, Answered
<1>2. PICK q : chain' = Append(chain, q)
      BY DEF Records
<1>3. Made'
      BY <1>1 DEF Made
<1>4. Before' = chain
      BY <1>2, <1>3, BeforeAdded
<1>5. NeverAtALoss'
      BY <1>1 DEF NeverAtALoss
<1>6. ReadsPresent'
      BY <1>1, <1>4 DEF ReadsPresent, RowReads, Reads
<1>7. DepthFound'
      BY <1>1, <1>4 DEF DepthFound, RowReads, Standing
<1> QED
    BY <1>1, <1>5, <1>6, <1>7 DEF RowInv

\* A row that is claimed again has read what it read before.
LEMMA AgainKeeps ==
    ASSUME StudioInv, RowInv, Again
    PROVE  RowInv'
<1>1. /\ row.how = "torn" /\ DOMAIN row' = ROW /\ row'.how = "done" /\ row'.kind = row.kind
      /\ row'.read = row.read /\ row'.setting = row.setting
      BY DEF Again, RowInv, ROW
<1>2. Made /\ Made'
      BY <1>1 DEF Made
<1>3. Before' = Before
      BY <1>2, BeforeAgain DEF Before
<1>4. NeverAtALoss'
      BY <1>1 DEF NeverAtALoss
<1>5. ReadsPresent'
      BY <1>1, <1>3 DEF RowInv, ReadsPresent
<1>6. DepthFound'
      BY <1>1, <1>2, <1>3 DEF RowInv, DepthFound
<1> QED
    BY <1>1, <1>4, <1>5, <1>6 DEF RowInv

\* No refusal reads as an answer.
LEMMA RefusalsRefuse ==
    ASSUME NEW v
    PROVE  /\ RedrawRefusal(v) \notin {"done", "torn"}
           /\ DeliverRefusal(v) \notin {"done", "torn"}
           /\ DofRefusal(v) \notin {"done", "torn"}
           /\ LensRefusal(v) \notin {"done", "torn"}
           /\ PhotoRefusal(v) \notin {"done", "torn"}
           /\ StageRefusal(v) \notin {"done", "torn"}
           /\ LightingRefusal(v) \notin {"done", "torn"}
           /\ SaturationRefusal(v) \notin {"done", "torn"}
<1>1. RedrawRefusal(v) \notin {"done", "torn"}
      BY DEF RedrawRefusal
<1>2. DeliverRefusal(v) \notin {"done", "torn"}
      BY DEF DeliverRefusal
<1>3. DofRefusal(v) \notin {"done", "torn"}
      BY DEF DofRefusal
<1>4. LensRefusal(v) \notin {"done", "torn"}
      BY DEF LensRefusal
<1>5. PhotoRefusal(v) \notin {"done", "torn"}
      BY DEF PhotoRefusal
<1>6. StageRefusal(v) \notin {"done", "torn"}
      BY DEF StageRefusal
<1>7. LightingRefusal(v) \notin {"done", "torn"}
      BY DEF LightingRefusal
<1>8. SaturationRefusal(v) \notin {"done", "torn"}
      BY DEF SaturationRefusal
<1> QED
    BY <1>1, <1>2, <1>3, <1>4, <1>5, <1>6, <1>7, <1>8

\* An operation that reads no layer reads none amiss.
LEMMA ReadsNone ==
    ASSUME NEW kind, kind # "dof", NEW v, NEW how, NEW jobs, NEW resolved
    PROVE  RowReads(chain, Row(kind, v, how, jobs, {}, resolved))
BY RowHas DEF RowReads, Reads, NoSetting

\* One that asks for its layers first finds them.
LEMMA ReadsAsked ==
    ASSUME StudioInv, NEW kind, kind # "dof", NEW v, NEW how, NEW jobs, NEW resolved,
           NEW read, read \subseteq LayerRolesPresent(Source)
    PROVE  RowReads(chain, Row(kind, v, how, jobs, read, resolved))
<1>1. Reads(chain, read)
      BY ReadsOf
<1> QED
    BY <1>1, RowHas DEF RowReads, NoSetting

\* Every operation answers its row by what its refusals let through.
LEMMA RowStep ==
    ASSUME StudioInv, AttachedInv, OrderedInv, NEW v,
           Redraw(v) \/ Deliver(v) \/ Dof(v) \/ Lens(v) \/ Photo(v) \/ Stage(v) \/ Lighting(v)
               \/ Saturation(v)
    PROVE  RowInv'
<1> DEFINE Layered == Source.kind \in LAYERED_KINDS \/ IsCutRedraw(Source)
           Loss(kind, why) == why = "no layers" /\ Layered =>
                Torn(chain) > 0 \/ (kind = "photo" /\ Source.kind \in {"stage", "lighting"})
<1>0. /\ Loss("redraw", RedrawRefusal(v)) /\ Loss("deliver", DeliverRefusal(v))
      /\ Loss("dof", DofRefusal(v)) /\ Loss("lens", LensRefusal(v))
      /\ Loss("photo", PhotoRefusal(v)) /\ Loss("stage", StageRefusal(v))
      /\ Loss("lighting", LightingRefusal(v)) /\ Loss("saturation", SaturationRefusal(v))
      BY RefusedForLayers
<1>a. FIGURE_ROLES # {}
      BY DEF FIGURE_ROLES
<1>1. CASE Redraw(v)
  <2>1. CASE RedrawRefusal(v) # "none"
    <3>1. Refuse("redraw", RedrawRefusal(v))
          BY <1>1, <2>1 DEF Redraw
    <3> QED
        BY <1>0, <3>1, RefusalsRefuse, RefusedKeeps
  <2>2. CASE RedrawRefusal(v) = "none"
        BY <1>1, <2>2, RedrawRecords, RowHas, ReadsNone, MadeKeeps
  <2> QED
      BY <2>1, <2>2
<1>2. CASE Deliver(v)
  <2>1. CASE DeliverRefusal(v) # "none"
    <3>1. Refuse("deliver", DeliverRefusal(v))
          BY <1>2, <2>1 DEF Deliver
    <3> QED
        BY <1>0, <3>1, RefusalsRefuse, RefusedKeeps
  <2>2. CASE DeliverRefusal(v) = "none"
        BY <1>2, <2>2, DeliverRecords, RowHas, ReadsNone, MadeKeeps
  <2> QED
      BY <2>1, <2>2
<1>3. CASE Dof(v)
  <2>1. CASE DofRefusal(v) # "none"
    <3>1. Refuse("dof", DofRefusal(v))
          BY <1>3, <2>1 DEF Dof
    <3> QED
        BY <1>0, <3>1, RefusalsRefuse, RefusedKeeps
  <2>2. CASE DofRefusal(v) = "none"
    <3>1. LayerRoles(chain) \subseteq LayerRolesPresent(Source) /\ Layered
          BY <2>2 DEF DofRefusal
    <3>2. PICK i, jobs : Records(DofPicture(v, i), {},
                      [Row("dof", v, "done", jobs, LayerRoles(chain), ResolvedOf.dof[v])
                           EXCEPT !.setting = Setting(chain)])
          BY <1>3, <2>2, DofRecords
    <3> DEFINE done == [Row("dof", v, "done", jobs, LayerRoles(chain), ResolvedOf.dof[v])
                           EXCEPT !.setting = Setting(chain)]
    <3>3. done.how = "done" /\ done.read = LayerRoles(chain) /\ done.setting = Setting(chain)
          BY RowHas DEF ROW
    <3> HIDE DEF done
    <3>4. Reads(chain, done.read)
          BY <3>1, <3>3, ReadsOf
    <3>5. Standing(chain, done.setting)
          BY <3>1, <3>3, SettingStands
    <3>6. done.setting.photo => "layer-backdrop" \in done.read
          BY <3>3, PhotoIsBacked
    <3>7. RowReads(chain, done)
          BY <3>4, <3>5, <3>6 DEF RowReads
    <3>8. Records(DofPicture(v, i), {}, done)
          BY <3>2 DEF done
    <3> QED
        BY <3>3, <3>7, <3>8, MadeKeeps
  <2> QED
      BY <2>1, <2>2
<1>4. CASE Lens(v)
  <2>1. CASE LensRefusal(v) # "none"
    <3>1. Refuse("lens", LensRefusal(v))
          BY <1>4, <2>1 DEF Lens
    <3> QED
        BY <1>0, <3>1, RefusalsRefuse, RefusedKeeps
  <2>2. CASE LensRefusal(v) = "none"
        BY <1>4, <2>2, LensRecords, RowHas, ReadsNone, MadeKeeps
  <2> QED
      BY <2>1, <2>2
<1>5. CASE Photo(v)
  <2>1. CASE PhotoRefusal(v) # "none"
    <3>1. Refuse("photo", PhotoRefusal(v))
          BY <1>5, <2>1 DEF Photo
    <3> QED
        BY <1>0, <3>1, RefusalsRefuse, RefusedKeeps
  <2>2. CASE PhotoRefusal(v) = "none"
    <3>1. FIGURE_ROLES \subseteq LayerRolesPresent(Source)
          BY <2>2 DEF PhotoRefusal
    <3> QED
        BY <1>5, <2>2, <3>1, PhotoRecords, RowHas, ReadsAsked, MadeKeeps
  <2> QED
      BY <2>1, <2>2
<1>6. CASE Stage(v)
  <2>1. CASE StageRefusal(v) # "none"
    <3>1. Refuse("stage", StageRefusal(v))
          BY <1>6, <2>1 DEF Stage
    <3> QED
        BY <1>0, <3>1, RefusalsRefuse, RefusedKeeps
  <2>2. CASE StageRefusal(v) = "none"
    <3>1. FIGURE_ROLES \subseteq LayerRolesPresent(Source)
          BY <2>2 DEF StageRefusal
    <3>2. CASE chain' = chain /\ \E jobs : row' = Row("stage", v, "render", jobs, FIGURE_ROLES, Null)
      <4>1. /\ chain' = chain /\ DOMAIN row' = ROW /\ row'.kind = "stage" /\ row'.how = "render"
            /\ row'.read = FIGURE_ROLES /\ row'.setting = NoSetting
            BY <3>2, RowHas
      <4>2. ~Made' /\ Before' = chain
            BY <4>1 DEF Made, Before
      <4>3. Reads(chain, FIGURE_ROLES)
            BY <3>1, ReadsOf
      <4>4. NeverAtALoss' /\ DepthFound'
            BY <4>1 DEF NeverAtALoss, DepthFound
      <4>5. ReadsPresent'
            BY <4>1, <4>2, <4>3 DEF ReadsPresent, Reads, NoSetting
      <4> QED
          BY <4>1, <4>4, <4>5 DEF RowInv
    <3>3. ASSUME NEW jobs, NEW resolved,
                 Records(StagePicture(v), ToSet(LayerSeq(TRUE)),
                         [Row("stage", v, "done", jobs, FIGURE_ROLES, resolved)
                              EXCEPT !.light = StageLight(v), !.shadow = StageShadow(v)])
          PROVE  RowInv'
      <4> DEFINE done == [Row("stage", v, "done", jobs, FIGURE_ROLES, resolved)
                              EXCEPT !.light = StageLight(v), !.shadow = StageShadow(v)]
      <4>1. /\ done.how = "done" /\ done.read = FIGURE_ROLES /\ done.setting = NoSetting
            /\ done.kind = "stage"
            BY RowHas
      <4>2. Records(StagePicture(v), ToSet(LayerSeq(TRUE)), done)
            BY <3>3
      <4> HIDE DEF done
      <4>3. Reads(chain, FIGURE_ROLES)
            BY <3>1, ReadsOf
      <4>4. RowReads(chain, done)
            BY <4>1, <4>3 DEF RowReads, NoSetting
      <4> QED
          BY <4>1, <4>2, <4>4, MadeKeeps
    <3> QED
        BY <1>6, <2>2, <3>2, <3>3, StageRecords
  <2> QED
      BY <2>1, <2>2
<1>7. CASE Lighting(v)
  <2>1. CASE LightingRefusal(v) # "none"
    <3>1. Refuse("lighting", LightingRefusal(v))
          BY <1>7, <2>1 DEF Lighting
    <3> QED
        BY <1>0, <3>1, RefusalsRefuse, RefusedKeeps
  <2>2. CASE LightingRefusal(v) = "none"
    <3>1. LayerRoles(chain) \subseteq LayerRolesPresent(Source)
          BY <2>2 DEF LightingRefusal
    <3> QED
        BY <1>7, <2>2, <3>1, LightingRecords, RowHas, ReadsAsked, MadeKeeps
  <2> QED
      BY <2>1, <2>2
<1>8. CASE Saturation(v)
  <2>1. CASE SaturationRefusal(v) # "none"
    <3>1. Refuse("saturation", SaturationRefusal(v))
          BY <1>8, <2>1 DEF Saturation
    <3> QED
        BY <1>0, <3>1, RefusalsRefuse, RefusedKeeps
  <2>2. CASE SaturationRefusal(v) = "none"
    <3> DEFINE backdrop == "layer-backdrop" \in LayerRolesPresent(Source)
               read == FIGURE_ROLES \cup (IF backdrop THEN {"layer-backdrop"} ELSE {})
    <3>1. FIGURE_ROLES \subseteq LayerRolesPresent(Source)
          BY <2>2 DEF SaturationRefusal
    <3>2. read \subseteq LayerRolesPresent(Source)
          BY <3>1
    <3>3. \E X, jobs : Records(Picture("saturation"), X,
                               Row("saturation", v, "done", jobs, read, ResolvedOf.saturation[v]))
          BY <1>8, <2>2, SaturationRecords
    <3> HIDE DEF read
    <3> QED
        BY <3>2, <3>3, RowHas, ReadsAsked, MadeKeeps
  <2> QED
      BY <2>1, <2>2
<1> QED
    BY <1>1, <1>2, <1>3, <1>4, <1>5, <1>6, <1>7, <1>8

\* Every step keeps what is known of the row.
LEMMA RowKept ==
    ASSUME StudioInv, AttachedInv, OrderedInv, RowInv, [Next]_vars
    PROVE  RowInv'
<1>1. CASE UNCHANGED vars
  <2>1. chain' = chain /\ row' = row
        BY <1>1 DEF vars
  <2> QED
      BY <2>1 DEF RowInv, NeverAtALoss, ReadsPresent, DepthFound, Before, Made
<1>2. CASE Report
  <2>1. /\ DOMAIN row' = ROW /\ row'.how = "" /\ row'.read = {} /\ row'.setting = NoSetting
        BY <1>2 DEF Report, Idle, ROW
  <2>2. NeverAtALoss' /\ DepthFound'
        BY <2>1 DEF NeverAtALoss, DepthFound, Made
  <2>3. ReadsPresent'
        BY <2>1, NoPhoto DEF ReadsPresent
  <2> QED
      BY <2>1, <2>2, <2>3 DEF RowInv
<1> QED
    BY <1>1, <1>2, AgainKeeps, RowStep
    DEF Next, DoRedraw, DoDeliver, DoDof, DoLens, DoPhoto, DoStage, DoLighting, DoSaturation

\* Every row was refused for a reason the lineage shows, or has read layers its
\* source has and found where they stand.
THEOREM RowsSafe == Spec => []RowInv
<1>1. ASSUME Init
      PROVE  RowInv
  <2>1. /\ DOMAIN row = ROW /\ row.how = "" /\ row.read = {} /\ row.setting = NoSetting
        BY <1>1 DEF Init, Idle, ROW
  <2>2. NeverAtALoss /\ DepthFound
        BY <2>1 DEF NeverAtALoss, DepthFound, Made
  <2>3. ReadsPresent
        BY <2>1, NoPhoto DEF ReadsPresent
  <2> QED
      BY <2>1, <2>2, <2>3 DEF RowInv
<1> QED
    BY <1>1, RowKept, AttachedSafe, OrderedSafe, PTL DEF Spec

\* A picture whose lineage was attached in full has the layers asked of it.
THEOREM NeverAtALossSafe == Spec => []NeverAtALoss
BY RowsSafe, PTL DEF RowInv

\* Every layer an operation loads is an asset of the picture it loads it from.
THEOREM ReadsSafe == Spec => []ReadsPresent
BY RowsSafe, PTL DEF RowInv

\* A blur is by the depth of the drawing whose layers it blurs, or of the photo
\* they stand in.
THEOREM DepthSafe == Spec => []DepthFound
BY RowsSafe, PTL DEF RowInv
==================================================================================
