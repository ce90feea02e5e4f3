-------------------------------- MODULE Studio --------------------------------
(***************************************************************************)
(* One picture after another: the operations that make a picture from an    *)
(* earlier one (application/redraw, deliver, saturation and stage and       *)
(* lighting in stage.py, dof, photo, lens), as rows the worker executes     *)
(* (work.py) on the last picture of a lineage.                              *)
(*                                                                          *)
(* Derived models how one operation runs and is killed; here a run is one   *)
(* step, and the question is which operations a picture takes after the     *)
(* ones it has been through: what each of them accepts, what it reads back  *)
(* of the lineage (the light, the setting, the layers), which graph it      *)
(* submits and what it records.                                             *)
(*                                                                          *)
(* `chain` is a lineage: chain[i + 1] was made from chain[i].  `row` is the *)
(* request being executed on its last picture.                              *)
(***************************************************************************)
EXTENDS Options, NodePack

CONSTANTS
    Starts,         \* the lineages the rows go on from
    RowOptions,     \* the `options` rows of each kind are posted with
    LINEAGE_HOPS,   \* how far a redraw looks for its drawing (10 in the code)
    MaxChain(_),    \* bound: pictures of a lineage by its first one, a redraw counted twice
    MaxTorn         \* bound: pictures of a lineage left without all their assets

KINDS == {"redraw", "deliver", "dof", "lens", "photo", "stage", "lighting", "saturation"}

VARIABLES chain, row
vars == <<chain, row>>

\* Mutant: a stage and a lighting over a saturation are not counted on.
SETTING_HOPS_SHORT == 3

SETTING_HOPS == 4

(* ------------------------------- pictures ------------------------------ *)
\* What chimera keeps of a picture, as far as an operation looks at it: the
\* parameters of its request (`kind` to `view`), its index among the outputs
\* of its job, its assets, and for a drawing the graph it was made by.  What is
\* to be seen but is not recorded: a viewfinder's `overlay`, and whether the
\* assets are all there.
NoBase == Base("none", FALSE, FALSE, FALSE)
Picture(kind) ==
    [kind |-> kind, method |-> "", cut |-> FALSE, transparent |-> FALSE, light |-> <<>>,
     stroke |-> Null, photo |-> FALSE, framed |-> FALSE, view |-> "off", output |-> 0,
     overlay |-> FALSE,
     assets |-> {}, whole |-> TRUE, base |-> NoBase]

\* Kinds stored by requests that are no longer served: pictures repaired from
\* a drawing, and ones delivered without layers, a "repair" with `deliver_only`
\* being one of these.
LEGACY_REPAIRS   == {"repair", "masked_redraw"}
LEGACY_DELIVERED == {"finalize", "hires-chain", "repair deliver_only"}
DERIVED_KINDS    == LEGACY_REPAIRS \cup {"redraw"}
DELIVERED_KINDS  == {"deliver", "saturation", "dof", "lens", "photo", "stage", "lighting"}
                        \cup LEGACY_DELIVERED
LAYERED_KINDS    == {"deliver", "saturation", "stage", "lighting"}

FIGURE_ROLES == {"layer-figure", "layer-outline"}
LAYERS       == FIGURE_ROLES \cup {"layer-backdrop"}
CUT_RESULTS  == <<"alpha", "depth", "cut", "cutout">>
LayerSeq(backdrop) == <<"layer-figure", "layer-outline">>
                          \o IF backdrop THEN <<"layer-backdrop">> ELSE <<>>

Drawing(base) == [Picture("generate") EXCEPT !.base = base]
\* A lineage starts from a drawing, one imported without its graph, one
\* repaired from it, a repair whose drawing is not recorded, a photo uploaded
\* for a backdrop, or a picture delivered long ago.
Roots ==
    {<<Drawing(base)>> : base \in ANIMA \cup FOREIGN \cup {NoBase}}
    \cup {<<Drawing(base), Picture(kind)>> : base \in ANIMA \cup FOREIGN, kind \in LEGACY_REPAIRS}
    \cup {<<Picture(kind)>> : kind \in LEGACY_REPAIRS \cup LEGACY_DELIVERED \cup {"photo"}}

ASSUME StudioAssumption ==
    /\ Starts \subseteq Roots
    /\ DOMAIN RowOptions = KINDS
    /\ LINEAGE_HOPS \in Nat /\ MaxTorn \in Nat

(* ------------------------ picture_source.py ----------------------------- *)
IsDelivered(p)  == p.kind \in DELIVERED_KINDS
IsCutRedraw(p)  == p.kind = "redraw" /\ p.cut
IsDerived(p)    == p.kind \in DERIVED_KINDS

\* Mutant: a cut redraw has its layers whether its cut was attached or not.
LayerRolesPromised(p) == IF IsCutRedraw(p) THEN FIGURE_ROLES ELSE p.assets

LayerRolesPresent(p) ==
    IF IsCutRedraw(p) THEN IF {"cutout", "alpha"} \subseteq p.assets THEN FIGURE_ROLES ELSE {}
    ELSE p.assets

\* Mutant: lightings are taken for what they are lit from.
UnderSaturations(c) == CHOOSE i \in DOMAIN c :
                          /\ c[i].kind # "saturation"
                          /\ \A j \in (i + 1)..Len(c) : c[j].kind = "saturation"
\* has_backdrop_layer: the picture under the saturations and lightings.
Under(c) == CHOOSE i \in DOMAIN c :
                /\ c[i].kind \notin {"saturation", "lighting"}
                /\ \A j \in (i + 1)..Len(c) : c[j].kind \in {"saturation", "lighting"}
HasBackdrop(c) ==
    LET p == c[Under(c)]
    IN  ~IsCutRedraw(p) /\ ~(p.kind = "deliver" /\ p.transparent)
LayerRoles(c) == IF HasBackdrop(c) THEN LAYERS ELSE FIGURE_ROLES

\* delivery_parameters: the delivery under a saturation, a cut redraw being a
\* transparent one without a light or a stroke.
Delivery(c) == LET n == Len(c) IN IF c[n].kind = "saturation" THEN c[n - 1] ELSE c[n]

\* inherited_light: the nearest `light` redraw among the last records.
LightsWithin(c, hops) ==
    {i \in DOMAIN c : i >= Len(c) - hops /\ c[i].kind = "redraw" /\ c[i].method = "light"}
\* Mutant: the records are counted one short.
InheritedLightShort(c) ==
    LET found == LightsWithin(c, LINEAGE_HOPS - 1)
    IN  IF found = {} THEN <<>> ELSE c[Highest(found)].light

InheritedLight(c) ==
    LET found == LightsWithin(c, LINEAGE_HOPS)
    IN  IF found = {} THEN <<>> ELSE c[Highest(found)].light

\* inherited_shadow: where a transparent delivery would be lit from.
InheritedShadow(p) ==
    IF IsCutRedraw(p) \/ ~p.transparent THEN Null
    ELSE IF p.light # <<>> THEN Str(p.light[2])
    ELSE IF OneOf(p.stroke, DIRECTIONS) THEN p.stroke ELSE Null

\* dof's _setting: the nearest record that says where the layers stand.
SettingEnds(c) ==
    {i \in DOMAIN c :
        /\ i > Len(c) - SETTING_HOPS
        /\ \/ c[i].kind = "stage" /\ c[i].photo
           \/ IsCutRedraw(c[i])
           \/ c[i].kind \notin {"saturation", "stage", "lighting"}}
NoSetting == [source |-> 0, photo |-> FALSE, framed |-> FALSE]
\* Mutant: a delivery is taken for the drawing it was made from.
SettingAtDelivery(c) ==
    IF SettingEnds(c) = {} THEN NoSetting
    ELSE LET i == Highest(SettingEnds(c))
             framed == \E j \in i..Len(c) : c[j].framed
         IN  CASE c[i].kind = "stage" -> [source |-> i, photo |-> TRUE, framed |-> FALSE]
               [] c[i].kind = "deliver" \/ IsCutRedraw(c[i]) ->
                      [source |-> i, photo |-> FALSE, framed |-> framed]
               [] OTHER               -> NoSetting

Setting(c) ==
    IF SettingEnds(c) = {} THEN NoSetting
    ELSE LET i == Highest(SettingEnds(c))
             framed == \E j \in i..Len(c) : c[j].framed
         IN  CASE c[i].kind = "stage"    -> [source |-> i, photo |-> TRUE, framed |-> FALSE]
               [] IsCutRedraw(c[i])      -> [source |-> i, photo |-> FALSE, framed |-> framed]
               [] c[i].kind = "deliver"  -> [source |-> i - 1, photo |-> FALSE, framed |-> framed]
               [] OTHER                  -> NoSetting

(* --------------------------- redraw's source ---------------------------- *)
\* _load_source: the drawing a redraw of the last picture goes back to; 0
\* where the lineage is not recorded or too long.
Origin(c) ==
    LET found == {i \in DOMAIN c : ~IsDerived(c[i]) /\ \A j \in (i + 1)..Len(c) : IsDerived(c[j])}
    IN  IF found = {} THEN 0
        ELSE LET i == Highest(found) IN IF Len(c) - i <= LINEAGE_HOPS THEN i ELSE 0
\* Mutant: only the picture's own graph is looked at.
DeliverBaseOwn(c) == c[Len(c)].base

\* The base a deliver looks for LayerDiffuse in: its own, or a repair's.
DeliverBase(c) == LET n == Len(c) IN IF c[n].kind \in LEGACY_REPAIRS THEN c[n - 1].base
                                     ELSE c[n].base

\* hires_graph on the recipe's canvas: the area asked for leaves less than a
\* latent cell on a side.
WIDTH  == 1024
HEIGHT == 1640
HiresPixels(hires) == (hires * hires * WIDTH + HEIGHT \div 2) \div HEIGHT
HiresTooSmall(hires) == LET pixels == HiresPixels(hires)
                        IN  WIDTH * pixels <= 16 * HEIGHT \/ HEIGHT * pixels <= 16 * WIDTH

(* ------------------------------ frames ---------------------------------- *)
\* frame_canvas: a side the frame leaves open goes out to its box and what is
\* seen of the figure, with a margin, within the range the frame expands to.
\* The border's own width is left out.
FRAME_MARGIN == 4
At(v, i) == v[2][i][2]
Expands(expand, side) == IF IsBool(expand) THEN expand[2] ELSE expand[2][side][2]
FrameCanvas(frame, seen) ==
    LET box    == frame[2].box
        given  == frame[2].canvas
        open(i) == given = Null \/ given[2][i] = Null
        low(side)  == IF Expands(frame[2].expand, side) THEN -100 ELSE 0
        high(side) == IF Expands(frame[2].expand, side) THEN 200 ELSE 100
        least(a, b) == IF a < b THEN a ELSE b
        most(a, b)  == IF a > b THEN a ELSE b
        first(i, side) == most(IF seen THEN least(At(box, i), 0) - FRAME_MARGIN
                               ELSE At(box, i) - FRAME_MARGIN, low(side))
        last(i, side)  == least(IF seen THEN most(At(box, i), 100) + FRAME_MARGIN
                                ELSE At(box, i) + FRAME_MARGIN, high(side))
        auto == <<first(1, "left"), first(2, "top"), last(3, "right"), last(4, "bottom")>>
    IN  List([i \in 1..4 |-> IF open(i) THEN Float(auto[i]) ELSE given[2][i]])
Filled(frame, seen) == Obj([frame[2] EXCEPT !.canvas = FrameCanvas(frame, seen)])
\* in_frame raises on such a canvas, and the render with it.
EmptyCanvas(frame) == LET c == frame[2].canvas IN At(c, 3) <= At(c, 1) \/ At(c, 4) <= At(c, 2)

(* ---------------------------- rows of each kind -------------------------- *)
\* work.py's execute: each kind has its parser of options; what it takes of the
\* rows, what it makes of them, and what it reports (a stage by its frame).
Accepts(kind, v) ==
    CASE kind = "redraw"  -> RedrawAccepts(v, "yukari")
      [] kind = "deliver" -> DeliverAccepts(v)
      [] kind = "dof"     -> DofAccepts(v)
      [] kind = "lens"    -> LensAccepts(v)
      [] kind = "photo"   -> PhotoAccepts(v)
      [] kind = "stage"   -> StageAccepts(v)
      [] kind = "lighting"   -> LightingAccepts(v)
      [] kind = "saturation" -> SaturationAccepts(v)
Arguments(kind, v) ==
    CASE kind = "redraw"  -> RedrawArguments(v, "yukari")
      [] kind = "deliver" -> DeliverArguments(v)
      [] kind = "dof"     -> DofArguments(v)
      [] kind = "lens"    -> LensArguments(v)
      [] kind = "photo"   -> PhotoArguments(v)
      [] kind = "stage"   -> StageArguments(v)
      [] kind = "lighting"   -> LightingArguments(v)
      [] kind = "saturation" -> SaturationArguments(v)
Resolved(kind, v) ==
    CASE kind = "redraw"  -> RedrawResolved(v, "yukari")
      [] kind = "deliver" -> DeliverResolved(v)
      [] kind = "dof"     -> DofResolved(v)
      [] kind = "lens"    -> LensResolved(v)
      [] kind = "photo"   -> PhotoResolved(v)
      [] kind = "lighting"   -> LightingResolved(v)
      [] kind = "saturation" -> SaturationResolved(v)
Taken        == [kind \in KINDS |-> {v \in RowOptions[kind] : Accepts(kind, v)}]
ArgumentsOf  == [kind \in KINDS |-> [v \in Taken[kind] |-> Arguments(kind, v)]]
ResolvedOf   == [kind \in KINDS \ {"stage"} |-> [v \in Taken[kind] |-> Resolved(kind, v)]]
\* A stage's frame comes out by what is seen of the figure.
FramesOf ==
    [v \in Taken.stage |-> [seen \in BOOLEAN |->
        LET frame == ArgumentsOf.stage[v].frame IN IF frame = Null THEN Null ELSE Filled(frame, seen)]]
StagedOf ==
    [v \in Taken.stage |-> [seen \in BOOLEAN |-> StageResolved(v, FramesOf[v][seen])]]

(* ------------------------------- refusals ------------------------------- *)
\* Why an operation fails a row before it submits anything, in the order the
\* code asks; "none" where it goes on.  "broken" is an error of its own.
Source == chain[Len(chain)]
BaseOf(origin) == chain[origin].base

RedrawRefusal(v) ==
    LET origin   == Origin(chain)
        base     == BaseOf(origin)
        stitched == base.made = "stitched"
        method   == ArgumentsOf.redraw[v].method
    IN  IF v \notin Taken.redraw THEN "options"
        ELSE IF IsDelivered(Source) THEN "delivered"
        ELSE IF origin = 0 THEN "lineage"
        ELSE IF base.made = "layerdiffuse" THEN "layerdiffuse"
        ELSE IF base = NoBase THEN "no graph"
        ELSE IF method = "canvas" THEN IF ~Anima(BaseGraphs[base]) THEN "not anima" ELSE "none"
        ELSE IF stitched \/ (method = "hires" /\ IsDerived(Source)) THEN "repaired"
        ELSE IF ~Anima(BaseGraphs[base]) THEN "not anima"
        ELSE IF method = "hires" /\ (~HiresAble(BaseGraphs[base], RolesOf[base]) \/ HiresTooSmall(v[2].hires[2] \div 100))
             THEN "hires"
        ELSE "none"

\* The light and the stroke a delivery comes out with.
LightDelivered(v)  == LET a == ArgumentsOf.deliver[v]
                      IN  IF a.light # <<>> THEN a.light ELSE InheritedLight(chain)
\* Mutant: the stroke of a delivery that names none is left to the recipe.
StrokeUnresolved(v) == ArgumentsOf.deliver[v].stroke_light

StrokeDelivered(v) ==
    LET a == ArgumentsOf.deliver[v]
        light == LightDelivered(v)
    IN  IF a.stroke_light # <<"recipe default">> THEN a.stroke_light
        ELSE Str(IF light # <<>> THEN light[2] ELSE DELIVER_DEFAULTS.stroke_light)
DeliverRefusal(v) ==
    IF v \notin Taken.deliver THEN "options"
    ELSE IF IsDelivered(Source) THEN "delivered"
    ELSE IF Source.kind \in LEGACY_REPAIRS /\ Len(chain) = 1 THEN "broken"
    ELSE IF DeliverBase(chain).made = "layerdiffuse" THEN "layerdiffuse"
    ELSE LET a == ArgumentsOf.deliver[v]
             light == LightDelivered(v)
         IN  IF a.light = <<>> /\ light # <<>> /\ OneOf(a.stroke_light, DIRECTIONS)
                /\ a.stroke_light[2] # light[2]
             THEN "stroke" ELSE "none"

NotADelivery == ~IsDelivered(Source) /\ ~IsCutRedraw(Source)
DofRefusal(v) ==
    IF v \notin Taken.dof THEN "options"
    ELSE IF Source.kind \in {"dof", "lens"} THEN Source.kind
    ELSE IF NotADelivery THEN "not delivered"
    ELSE IF \/ Source.kind \notin LAYERED_KINDS /\ ~IsCutRedraw(Source)
            \/ ~(LayerRoles(chain) \subseteq LayerRolesPresent(Source))
            \/ Setting(chain).source = 0
         THEN "no layers"
    ELSE IF ~Setting(chain).photo /\ ArgumentsOf.dof[v].photo_blur # <<>> THEN "photo only"
    ELSE "none"

\* Mutant: the second picture of a viewfinder beside the blur is overlooked.
HasOverlayAlone(p) == p.view = "on"

\* _output_index tells the two pictures of `viewfinder: both` apart.
HasOverlay(p) == p.kind = "dof" /\ (p.view = "on" \/ (p.view = "both" /\ p.output = 1))
LensRefusal(v) ==
    IF v \notin Taken.lens THEN "options"
    ELSE IF NotADelivery THEN "not delivered"
    ELSE IF HasOverlay(Source) THEN "viewfinder"
    ELSE "none"

\* A place of null is accepted and read as a list of two numbers.
PhotoRefusal(v) ==
    IF v \notin Taken.photo THEN "options"
    ELSE IF NotADelivery THEN "not delivered"
    ELSE IF \/ Source.kind \notin {"deliver", "saturation"} /\ ~IsCutRedraw(Source)
            \/ ~(FIGURE_ROLES \subseteq LayerRolesPresent(Source))
         THEN "no layers"
    ELSE IF ArgumentsOf.photo[v].place = Null THEN "broken"
    ELSE "none"

StageRefusal(v) ==
    IF v \notin Taken.stage THEN "options"
    ELSE IF Source.kind \notin {"deliver", "saturation"} /\ ~IsCutRedraw(Source) THEN "source"
    ELSE IF ~(FIGURE_ROLES \subseteq LayerRolesPresent(Source)) THEN "no layers"
    ELSE IF ArgumentsOf.stage[v].photo # Null /\ ArgumentsOf.stage[v].place = Null THEN "broken"
    ELSE "none"

LightingRefusal(v) ==
    LET a == ArgumentsOf.lighting[v]
    IN  IF v \notin Taken.lighting THEN "options"
        ELSE IF Source.kind = "lighting" THEN "twice"
        ELSE IF Source.kind \notin {"stage", "deliver", "saturation"} /\ ~IsCutRedraw(Source)
             THEN "source"
        ELSE IF ~HasBackdrop(chain) /\ a.direction = Null /\ a.scene = Null THEN "nothing"
        ELSE IF ~(LayerRoles(chain) \subseteq LayerRolesPresent(Source)) THEN "no layers"
        ELSE "none"

\* Mutant: a saturation is saturated again.
SaturationTwice(v) ==
    IF v \notin Taken.saturation THEN "options"
    ELSE IF Source.kind \notin {"deliver", "saturation"} /\ ~IsCutRedraw(Source) THEN "source"
    ELSE IF ~(FIGURE_ROLES \subseteq LayerRolesPresent(Source)) THEN "no layers"
    ELSE "none"

SaturationRefusal(v) ==
    IF v \notin Taken.saturation THEN "options"
    ELSE IF Source.kind # "deliver" /\ ~IsCutRedraw(Source) THEN "source"
    ELSE IF ~(FIGURE_ROLES \subseteq LayerRolesPresent(Source)) THEN "no layers"
    ELSE "none"

(* ----------------------------- the operations --------------------------- *)
\* The request being executed: what it was posted with, how it came out ("",
\* "done", a refusal, "render", "torn"), the graphs it submitted, the roles it
\* read of its source, the options it reports back, where a dof found the layers
\* stand, and the light and the direction of the shadow a stage draws.
Idle == [kind |-> "", posted |-> Null, how |-> "", jobs |-> {}, read |-> {},
         resolved |-> Null, setting |-> NoSetting, light |-> <<>>, shadow |-> Null]
Row(kind, posted, how, jobs, read, resolved) ==
    [Idle EXCEPT !.kind = kind, !.posted = posted, !.how = how, !.jobs = jobs,
                 !.read = read, !.resolved = resolved]
Refuse(kind, why) == chain' = chain /\ row' = [Idle EXCEPT !.kind = kind, !.how = why]

\* A picture is recorded, then its assets one by one: all of them, or those
\* of the run's end (`torn`, the row fails or waits to be claimed again).
Torn(c) == Cardinality({i \in DOMAIN c : ~c[i].whole})
Record(p, assets, done) ==
    \/ /\ chain' = Append(chain, [p EXCEPT !.assets = ToSet(assets)])
       /\ row' = done
    \/ /\ Torn(chain) < MaxTorn
       /\ \E k \in 0..(Len(assets) - 1) :
             chain' = Append(chain, [p EXCEPT !.assets = ToSet(SubSeq(assets, 1, k)),
                                              !.whole = FALSE])
       /\ row' = [done EXCEPT !.how = "torn"]

\* A picture without assets of its own.
Keep(p, done) == chain' = Append(chain, p) /\ row' = done

Suffix(wanted, suffix) == IF wanted THEN {suffix} ELSE {}
LAYER_SUFFIXES == {"-layer-figure", "-layer-outline"}
LayerSuffixes(backdrop) == LAYER_SUFFIXES \cup Suffix(backdrop, "-layer-backdrop")
\* A dof's pictures are recorded in this order.
DofPictures(view) == IF view = "both" THEN <<"-dof", "-viewfinder">> ELSE <<"-dof">>

\* The suffixes an operation looks for among the outputs of the graph it
\* submitted; an alpha or a depth only where it did not load a stored one.
LooksFor(job) ==
    CASE job[1] = "cut"        -> {"-alpha", "-depth", "-foreground"}
      [] job[1] = "light"      -> {""} \cup Suffix(~job[3], "-alpha") \cup Suffix(~job[4], "-depth")
      [] job[1] = "deliver"    -> {"-delivered"} \cup LayerSuffixes(job[3] \/ ~job[4])
                                      \cup Suffix(~job[2], "-alpha")
      [] job[1] = "dof"        -> ToSet(DofPictures(job[4])) \cup Suffix(~job[3], "-depth")
      [] job[1] = "photo_dof"  -> ToSet(DofPictures(job[3])) \cup Suffix(~job[2], "-depth")
      [] job[1] = "lens"       -> {"-lens"}
      [] job[1] = "photo"      -> {"-staged"} \cup Suffix(~job[2], "-depth")
      [] job[1] = "stage"      -> {"-set"} \cup LayerSuffixes(TRUE)
      [] job[1] = "lighting"   -> {"-lit"} \cup LayerSuffixes(job[2])
      [] job[1] = "saturation" -> {"-delivered"} \cup LayerSuffixes(job[2])
      [] OTHER                 -> {""}

\* Whether the stored alpha or depth is current is Derived's to say: either
\* answer is taken here.
Redraw(v) ==
    LET a      == ArgumentsOf.redraw[v]
        base   == BaseOf(Origin(chain))
        latent == a.latent_route /\ base.made # "stitched"
        p      == [Picture("redraw") EXCEPT !.method = a.method, !.cut = a.cut, !.light = a.light]
        cut    == IF a.cut THEN {<<"cut">>} ELSE {}
        keep   == a.keep_regions # List(<<>>)
    IN  IF RedrawRefusal(v) # "none" THEN Refuse("redraw", RedrawRefusal(v))
        ELSE \E alpha, depth \in BOOLEAN, loader \in LOADERS :
               /\ a.method # "light" => ~alpha /\ ~depth
               /\ loader = IF a.finalizer = Str("sdxl.safetensors") THEN "CheckpointLoaderSimple"
                           ELSE "DiffusersLoader"
               /\ LET job == CASE a.method = "canvas" ->
                                     <<"canvas", base, latent, IsDerived(Source), keep, loader>>
                               [] a.method = "hires"  -> <<"hires", base>>
                               [] a.method = "light"  -> <<"light", base, alpha, depth>>
                  IN  Record(p, IF a.cut THEN CUT_RESULTS ELSE <<>>,
                             Row("redraw", v, "done", {job} \cup cut, {}, ResolvedOf.redraw[v]))

Deliver(v) ==
    LET a        == ArgumentsOf.deliver[v]
        backdrop == a.keep_scene \/ ~a.transparent
        p        == [Picture("deliver") EXCEPT !.transparent = a.transparent,
                        !.light = LightDelivered(v), !.stroke = StrokeDelivered(v)]
    IN  IF DeliverRefusal(v) # "none" THEN Refuse("deliver", DeliverRefusal(v))
        ELSE \E alpha \in BOOLEAN :
               Record(p, LayerSeq(backdrop),
                      Row("deliver", v, "done",
                          {<<"deliver", alpha, a.keep_scene, a.transparent, a.see_through[2] > 100>>},
                          {}, ResolvedOf.deliver[v]))

\* The lineage goes on from any of the pictures.
Dof(v) ==
    LET a       == ArgumentsOf.dof[v]
        setting == Setting(chain)
        pictures == DofPictures(a.viewfinder)
        overlaid(i) == a.viewfinder = "on" \/ pictures[i] = "-viewfinder"
    IN  IF DofRefusal(v) # "none" THEN Refuse("dof", DofRefusal(v))
        ELSE \E depth \in BOOLEAN, i \in DOMAIN pictures :
               Keep([Picture("dof") EXCEPT !.view = a.viewfinder, !.output = i - 1,
                                           !.overlay = overlaid(i)],
                    [Row("dof", v, "done",
                         {IF setting.photo THEN <<"photo_dof", depth, a.viewfinder>>
                          ELSE <<"dof", HasBackdrop(chain), depth, a.viewfinder>>},
                         LayerRoles(chain), ResolvedOf.dof[v]) EXCEPT !.setting = setting])

Lens(v) ==
    IF LensRefusal(v) # "none" THEN Refuse("lens", LensRefusal(v))
    ELSE Keep(Picture("lens"),
              Row("lens", v, "done", {<<"lens">>}, {}, ResolvedOf.lens[v]))

Photo(v) ==
    IF PhotoRefusal(v) # "none" THEN Refuse("photo", PhotoRefusal(v))
    ELSE \E depth \in BOOLEAN :
           Keep(Picture("photo"),
                Row("photo", v, "done", {<<"photo", depth>>}, FIGURE_ROLES, ResolvedOf.photo[v]))

\* A framed stage whose canvas comes out empty fails in the render.
Stage(v) ==
    LET a        == ArgumentsOf.stage[v]
        on_photo == a.photo # Null
        light    == IF on_photo THEN <<>>
                    ELSE IF a.inherit_light THEN InheritedLight(chain) ELSE a.light
        thrown   == InheritedShadow(Delivery(chain))
        shadow   == IF ~a.inherit_shadow THEN a.shadow_from
                    ELSE IF thrown # Null THEN thrown
                    ELSE IF light # <<>> THEN Str(light[2]) ELSE Null
        p        == [Picture("stage") EXCEPT !.photo = on_photo, !.framed = a.frame # Null]
        jobs     == {<<"stage", on_photo>>}
    IN  IF StageRefusal(v) # "none" THEN Refuse("stage", StageRefusal(v))
        ELSE \E seen \in BOOLEAN :
               /\ a.frame = Null => ~seen
               /\ IF a.frame # Null /\ EmptyCanvas(FramesOf[v][seen])
                  THEN chain' = chain /\ row' = Row("stage", v, "render", jobs, FIGURE_ROLES, Null)
                  ELSE Record(p, LayerSeq(TRUE),
                              [Row("stage", v, "done", jobs, FIGURE_ROLES, StagedOf[v][seen])
                                  EXCEPT !.light = light, !.shadow = shadow])

Lighting(v) ==
    IF LightingRefusal(v) # "none" THEN Refuse("lighting", LightingRefusal(v))
    ELSE LET backdrop == HasBackdrop(chain)
         IN  Record(Picture("lighting"), LayerSeq(backdrop),
                    Row("lighting", v, "done",
                        {<<"lighting", backdrop>>}, LayerRoles(chain), ResolvedOf.lighting[v]))

\* A saturation goes by the assets it finds, not by the parameters.
Saturation(v) ==
    IF SaturationRefusal(v) # "none" THEN Refuse("saturation", SaturationRefusal(v))
    ELSE LET backdrop == "layer-backdrop" \in LayerRolesPresent(Source)
         IN  Record(Picture("saturation"), LayerSeq(backdrop),
                    Row("saturation", v, "done",
                        {<<"saturation", backdrop>>},
                        FIGURE_ROLES \cup (IF backdrop THEN {"layer-backdrop"} ELSE {}),
                        ResolvedOf.saturation[v]))

(* ------------------------------- the worker ----------------------------- *)
Redraws(c) == Cardinality({i \in DOMAIN c : c[i].kind = "redraw"})
Free(kind) == row = Idle /\ Len(chain) + Redraws(chain) < MaxChain(chain[1]) /\ kind \in KINDS

DoRedraw     == Free("redraw")     /\ \E v \in RowOptions.redraw : Redraw(v)
DoDeliver    == Free("deliver")    /\ \E v \in RowOptions.deliver : Deliver(v)
DoDof        == Free("dof")        /\ \E v \in RowOptions.dof : Dof(v)
DoLens       == Free("lens")       /\ \E v \in RowOptions.lens : Lens(v)
DoPhoto      == Free("photo")      /\ \E v \in RowOptions.photo : Photo(v)
DoStage      == Free("stage")      /\ \E v \in RowOptions.stage : Stage(v)
DoLighting   == Free("lighting")   /\ \E v \in RowOptions.lighting : Lighting(v)
DoSaturation == Free("saturation") /\ \E v \in RowOptions.saturation : Saturation(v)

\* A row that was killed while it attached is claimed again, finds its prompt
\* and its picture by their keys, and attaches what was missing.
AssetsOf(p, c) ==
    CASE p.kind = "redraw"     -> IF p.cut THEN ToSet(CUT_RESULTS) ELSE {}
      [] p.kind = "stage"      -> LAYERS
      [] p.kind = "deliver"    -> ToSet(LayerSeq(~p.transparent))
      [] p.kind = "saturation" -> IF "layer-backdrop" \in LayerRolesPresent(c[Len(c) - 1])
                                  THEN LAYERS ELSE FIGURE_ROLES
      [] p.kind = "lighting"   -> LayerRoles(c)
      [] OTHER                 -> {}
Again ==
    /\ row.how = "torn"
    /\ chain' = [chain EXCEPT ![Len(chain)].assets = AssetsOf(Source, chain),
                              ![Len(chain)].whole = TRUE]
    /\ row' = [row EXCEPT !.how = "done"]

\* work_once reports the row, as done with its result or as failed.
Report == row # Idle /\ row' = Idle /\ chain' = chain

Init == chain \in Starts /\ row = Idle
Next ==
    \/ DoRedraw \/ DoDeliver \/ DoDof \/ DoLens \/ DoPhoto
    \/ DoStage \/ DoLighting \/ DoSaturation
    \/ Again \/ Report
Spec == Init /\ [][Next]_vars

(* ------------------------------- properties ----------------------------- *)
Outcomes == {"", "done", "torn", "render", "broken", "options", "delivered", "lineage",
             "layerdiffuse", "no graph", "not anima", "repaired", "hires", "stroke", "dof",
             "lens", "not delivered", "no layers", "photo only", "viewfinder", "source",
             "twice", "nothing"}
Lights   == {<<>>} \cup (SCENES \X DIRECTIONS)
IsStroke(v) == v = Null \/ OneOf(v, STROKE_CHOICES)
AllRoles == LAYERS \cup ToSet(CUT_RESULTS)
TypeOK ==
    /\ Len(chain) >= 1
    /\ \A i \in DOMAIN chain :
          LET p == chain[i]
          IN  /\ DOMAIN p = DOMAIN Picture("")
              /\ p.kind \in KINDS \cup DERIVED_KINDS \cup LEGACY_DELIVERED \cup {"generate"}
              /\ p.method \in {"", "canvas", "hires", "light"}
              /\ p.light \in Lights /\ IsStroke(p.stroke)
              /\ p.view \in VIEWFINDERS /\ p.output \in 0..1 /\ p.overlay \in BOOLEAN
              /\ p.assets \subseteq AllRoles
              /\ p.base \in ANIMA \cup FOREIGN \cup {NoBase}
    /\ DOMAIN row = DOMAIN Idle
    /\ row.how \in Outcomes
    /\ row.how \in {"done", "torn", "render"} => row.posted \in RowOptions[row.kind]
    /\ row.jobs \subseteq Jobs
    /\ row.read \subseteq LAYERS

\* What a lineage's pictures are made whole by: the source of the row, and
\* its pictures up to there.
Made     == row.how \in {"done", "torn"}
Before   == IF Made THEN SubSeq(chain, 1, Len(chain) - 1) ELSE chain

\* A picture is drawn, then delivered, then saturated, staged, lit, blurred
\* and bent, in this order and, but for redraws and lenses, each at most once;
\* what works on layers takes a delivery or a cut redraw, never a plain drawing.
Rank(p) ==
    CASE p.kind \in {"generate"} \cup DERIVED_KINDS -> 0
      [] p.kind = "deliver"    -> 1
      [] p.kind = "saturation" -> 2
      [] p.kind = "stage"      -> 3
      [] p.kind = "lighting"   -> 4
      [] p.kind \in {"dof", "photo"} \cup LEGACY_DELIVERED -> 5
      [] p.kind = "lens"       -> 6
Follows(p, q) ==
    /\ Rank(p) < Rank(q) \/ (Rank(p) = Rank(q) /\ Rank(p) \in {0, 6})
    /\ Rank(p) = 0 /\ Rank(q) > 1 => IsCutRedraw(p)
OneOrder == \A i \in 1..(Len(chain) - 1) : Follows(chain[i], chain[i + 1])

\* A viewfinder drawn over a picture is never bent by a lens, nor blurred or
\* drawn over: nothing is made from a picture that carries one (lens.py).
NoBentViewfinder == \A i \in 1..(Len(chain) - 1) : ~chain[i].overlay

\* The two answers to whether a picture has a backdrop layer agree: what the
\* parameters of its lineage say (has_backdrop_layer) and what its assets say
\* (saturation), for every picture whose delivery and later layers were all
\* attached, through saturations and lightings of transparent deliveries and
\* cut redraws.
WholeFrom(c) == \A i \in Under(c)..Len(c) : c[i].whole
LayersMatch ==
    \A n \in DOMAIN chain :
        LET c == SubSeq(chain, 1, n)
        IN  Last(c).kind \in LAYERED_KINDS /\ WholeFrom(c) =>
                ("layer-backdrop" \in Last(c).assets <=> HasBackdrop(c))

\* A picture that should have layers is refused for want of them only where an
\* attach was cut short: the setting of the longest lineage is in reach of
\* SETTING_HOPS, and each operation leaves the layers the next ones ask for.
NeverAtALoss ==
    row.how = "no layers" /\ (Last(chain).kind \in LAYERED_KINDS \/ IsCutRedraw(Last(chain))) =>
        \/ Torn(chain) > 0
        \/ row.kind = "photo" /\ Last(chain).kind \in {"stage", "lighting"}

\* Every layer an operation loads is an asset of the picture it loads it from
\* (of a cut redraw its cutout stands for them), and a blur in a photo, which
\* loads the backdrop without asking, finds it.
ReadsPresent ==
    /\ LET p == Last(Before)
       IN  row.read # {} => IF IsCutRedraw(p) THEN {"cutout", "alpha"} \subseteq p.assets
                            ELSE row.read \subseteq p.assets
    /\ row.setting.photo => "layer-backdrop" \in row.read

\* The depth a dof blurs by is the depth of the very drawing whose layers it
\* blurs (the last one of the lineage), or of the photo they stand in; and a
\* frame anywhere between moves it.
DepthFound ==
    row.kind = "dof" /\ Made =>
        LET drawn  == {i \in DOMAIN Before : Rank(Before[i]) = 0}
            photos == {i \in DOMAIN Before : Before[i].photo}
        IN  IF photos # {} THEN row.setting.photo /\ row.setting.source \in photos
            ELSE /\ ~row.setting.photo
                 /\ row.setting.source = Highest(drawn)
                 /\ row.setting.framed <=> \E i \in DOMAIN Before : Before[i].framed

\* A delivery is lit by its options' light or by the nearest `light` redraw of
\* its lineage however many redraws lie between (inherited_light looks at as
\* many records as a redraw may have); a stage in the same light, unless LINEAGE_HOPS
\* redraws, or one fewer and a saturation, lie over it.  Light and shadow agree:
\* a stroke that has a direction has its light's, and a stage's shadow falls as
\* the transparent delivery under it was lit, saturated since or not, else as
\* its own light.
NearestLight(c) ==
    LET found == LightsWithin(c, Len(c))
    IN  IF found = {} THEN <<>> ELSE c[Highest(found)].light
LightIsInherited ==
    /\ row.kind = "deliver" /\ Made =>
          LET given == ArgumentsOf.deliver[row.posted].light
          IN  Last(chain).light = IF given # <<>> THEN given ELSE NearestLight(Before)
    /\ row.kind = "stage" /\ Made /\ ArgumentsOf.stage[row.posted].inherit_light =>
          \/ row.light = NearestLight(Before)
          \/ /\ row.light = <<>>
             /\ LET lit == Highest(LightsWithin(Before, Len(Before)))
                    saturated == IF Last(Before).kind = "saturation" THEN 1 ELSE 0
                IN  Redraws(SubSeq(Before, lit + 1, Len(Before))) >= LINEAGE_HOPS - saturated
    /\ row.kind = "stage" /\ Made /\ ArgumentsOf.stage[row.posted].inherit_shadow =>
          LET falls(p) == IF p.light # <<>> THEN Str(p.light[2]) ELSE p.stroke
              thrown   == {falls(chain[i]) : i \in {j \in DOMAIN chain :
                              chain[j].kind = "deliver" /\ chain[j].transparent}}
              own      == IF row.light # <<>> THEN {Str(row.light[2])} ELSE {Null}
          IN  {row.shadow} = IF \E f \in thrown : OneOf(f, DIRECTIONS) THEN thrown ELSE own
    /\ \A i \in DOMAIN chain :
          LET p == chain[i]
          IN  p.light # <<>> /\ OneOf(p.stroke, DIRECTIONS) => p.stroke[2] = p.light[2]

\* What LayerDiffuse drew is never delivered nor redrawn, by way of no repair.
NoLayerDiffuse ==
    chain[1].base.made = "layerdiffuse" =>
        \A i \in DOMAIN chain : chain[i].kind \in {"generate"} \cup LEGACY_REPAIRS

\* resolved_options, posted again as a row's options, are accepted and make the
\* same picture: every kind takes back what it reports, defaults filled in.
SameArguments(again) ==
    LET first == ArgumentsOf[row.kind][row.posted]
    IN  IF row.kind = "stage"
        THEN /\ [again EXCEPT !.frame = Null] = [first EXCEPT !.frame = Null]
             /\ \E seen \in BOOLEAN : FramesOf[row.posted][seen] = again.frame
        ELSE again = first
ResolvedRunsAgain ==
    row.how = "done" =>
        /\ Accepts(row.kind, row.resolved)
        /\ SameArguments(Arguments(row.kind, row.resolved))

\* ComfyUI takes every graph an operation submits (each link goes from a node
\* that is there and gives what the input takes, and nothing waits on itself),
\* and it saves exactly the outputs the operation then looks for, each once; so
\* it does every graph the worker can build, whether a row asked for it or not.
SOUND == {job \in Jobs : LET g == Built[job]
                         IN  Accepted(g) /\ SavedOnce(g) /\ Saved(g) = LooksFor(job)}
SubmittedRuns == row.jobs \subseteq SOUND /\ SOUND = Jobs

\* A redraw of a redrawn or repaired picture, and every light redraw, starts
\* from that picture's own pixels, never from the base graph's sampler, which
\* would draw the unrepaired picture again; any other goes on from the sampler.
PictureSave(g) == CHOOSE n \in Of(g, "SaveImage") : g[n].what = ""
OnPixels(job) == job[1] = "light" \/ (job[1] = "canvas" /\ job[4])
REDRAWS == {job \in Jobs : job[1] \in {"canvas", "hires", "light"}}
OWN ==
    {job \in REDRAWS :
        LET g == Built[job]
            up == Upstream(g, PictureSave(g))
            pixels  == \E n \in up : g[n].class = "LoadImage" /\ g[n].what = "source"
            sampler == RolesOf[job[2]].sampler \in up
        IN  IF OnPixels(job) THEN pixels /\ ~sampler ELSE sampler /\ ~pixels}
OwnPixels ==
    /\ OWN = REDRAWS
    /\ row.kind = "redraw" /\ Made =>
          \A job \in row.jobs \ {<<"cut">>} :
              job \in OWN /\ (OnPixels(job) <=> IsDerived(Last(Before)) \/ job[1] = "light")

\* A number the worker accepts is one the node takes: ComfyUI refuses a prompt
\* with a number outside the node's range, long after the row was accepted.
Point(point) == IF point[1] # "list" THEN {}
                ELSE {<<"fraction", At(point, 1)>>, <<"fraction", At(point, 2)>>}
Placed(a) == {<<"fraction", At(a.place, 1)>>, <<"place_y", At(a.place, 2)>>,
              <<"height", a.height[2]>>}
Blurred(a) == {<<"nearer", a.nearer[2]>>, <<"tilt", a.tilt[2]>>, <<"bokeh", a.bokeh[2]>>}
                  \cup Point(a.stand_at)
Numbers(kind, a) ==
    CASE kind = "deliver" -> {<<"gain", a.see_through[2]>>}
      [] kind = "dof"     -> Point(a.focus) \cup {<<"f_number", a.f_number[2]>>}
                                \cup (IF a.photo_blur # <<>> THEN Blurred(a.photo_blur) ELSE {})
                                \cup (IF a.viewfinder # "off"
                                      THEN {<<"viewfinder_f", a.f_number[2]>>} ELSE {})
      [] kind = "lens"    -> Point(a.center) \cup {<<"lens", a.strength[2]>>}
                                \cup (IF a.radius # Null THEN {<<"radius", a.radius[2]>>} ELSE {})
      [] kind = "photo"   -> Placed(a) \cup Blurred(a) \cup Point(a.focus)
                                \cup {<<"f_number", a.f_number[2]>>}
      [] kind = "stage"   -> IF a.photo # Null THEN Placed(a) ELSE {}
      [] kind = "lighting"   -> {<<"lighting", a.strength[2]>>}
      [] kind = "saturation" -> {<<"saturation", a.strength[2]>>}
      [] OTHER            -> {}
NumbersFit ==
    Made => \A n \in Numbers(row.kind, ArgumentsOf[row.kind][row.posted]) :
                NodeRanges[n[1]][1] <= n[2] /\ n[2] <= NodeRanges[n[1]][2]

\* Progress and timings name the nodes of a submitted graph by their labels: no
\* two nodes carry the same one, and of samplers on one chain the later is the
\* later stage, whatever ids the nodes were given (label_roles).
InStages(g) ==
    \A n \in SamplersOf(g) : \A m \in SamplersOf(g) \cap Upstream(g, n) :
        SamplerGroup(g, m) = SamplerGroup(g, n) => SamplerStage(g, m) < SamplerStage(g, n)
Distinct(titles) == \A a, b \in titles : a[2] = b[2] /\ a[3] = b[3] => a[1] = b[1]
LABELLED == {job \in Jobs : Distinct(Titles(Built[job])) /\ InStages(Built[job])}
LabelsInOrder == row.jobs \subseteq LABELLED /\ LABELLED = Jobs
===============================================================================
