------------------------------- MODULE Options -------------------------------
(***************************************************************************)
(* What the worker takes as a row's `options` (request_options.py) and what *)
(* it reports back as `resolved_options` (work.py).                         *)
(*                                                                          *)
(* A JSON value is a pair of its type and its content, a number counted in  *)
(* hundredths; an object is a function from its keys, so an absent key and  *)
(* one that is null stay different.  Each kind has an acceptance predicate  *)
(* (FALSE where the code raises), the arguments its use case is called      *)
(* with, and the options those arguments are reported as.                   *)
(***************************************************************************)
EXTENDS Integers, Sequences, FiniteSets, SequencesExt

CONSTANTS OUTLINES_MAX,             \* bands of a delivery at most (6 in the code)
          FRAME_STROKES_MAX,        \* strokes of a frame (200)
          FRAME_STROKE_POINTS_MAX,  \* points of one stroke (2000)
          FRAME_POINTS_MAX          \* points of a frame's strokes together (20000)

ASSUME LimitsAssumption ==
    /\ OUTLINES_MAX \in Nat /\ OUTLINES_MAX >= 2    \* the default has two bands
    /\ FRAME_STROKES_MAX \in Nat
    /\ FRAME_STROKE_POINTS_MAX \in Nat
    /\ FRAME_POINTS_MAX \in Nat

(* ------------------------------ JSON values ---------------------------- *)
Null     == <<"null">>
Bool(b)  == <<"bool", b>>
Whole(n) == <<"int", 100 * n>>
Float(h) == <<"float", h>>
Str(s)   == <<"str", s>>
List(s)  == <<"list", s>>
Obj(f)   == <<"obj", f>>

Is(v, type)  == v[1] = type
IsNumber(v)  == v[1] \in {"int", "float"} /\ v[2] \in Int
IsBool(v)    == Is(v, "bool") /\ v[2] \in BOOLEAN
IsObj(v)     == Is(v, "obj")
IsList(v)    == Is(v, "list") /\ v[2] \in Seq({v[2][i] : i \in DOMAIN v[2]})
OneOf(v, S)  == Is(v, "str") /\ v[2] \in S
AsFloat(v)   == Float(v[2])                         \* float(value)
Within(v, low, high) == IsNumber(v) /\ low <= v[2] /\ v[2] <= high
ListOf(v, n) == IsList(v) /\ Len(v[2]) = n

Get(o, key, default) == IF key \in DOMAIN o THEN o[key] ELSE default
Merge(over, under) ==                               \* {**under, **over}
    [k \in DOMAIN over \cup DOMAIN under |-> IF k \in DOMAIN over THEN over[k] ELSE under[k]]
Without(o, keys) == [k \in DOMAIN o \ keys |-> o[k]]

\* `payload.get("options") or {}`: every kind but redraw takes a falsy value
\* for no options at all.
Falsy(v) == v \in {Null, Bool(FALSE), Whole(0), Float(0), Str(""), List(<<>>), Obj(<<>>)}
Body(v)  == IF Falsy(v) THEN <<>> ELSE v[2]
IsBody(v) == Falsy(v) \/ IsObj(v)

(* ------------------------------ the catalog ---------------------------- *)
DIRECTIONS     == {"n", "ne", "e", "se", "s", "sw", "w", "nw"}   \* STROKE_LIGHTS
STROKE_CHOICES == DIRECTIONS \cup {"even"}
SCENES         == {"sunset", "moon"}                             \* LIGHT_SCENES
LIGHT_FROM_DEFAULT == "nw"
SIDES          == {"top", "right", "bottom", "left"}             \* FRAME_SIDES

\* Colours are hex words; upper case is folded by _hex_colour.
LowerOf    == [c \in {"#FFFFFF", "#885B80"} |-> IF c = "#FFFFFF" THEN "#ffffff" ELSE "#885b80"]
LowerHex   == {"#ffffff", "#885b80", "#4a3152", "#2e2236"}
IsHex(v)   == OneOf(v, LowerHex \cup DOMAIN LowerOf)
AsHex(v)   == IF v[2] \in DOMAIN LowerOf THEN Str(LowerOf[v[2]]) ELSE v
PATTERNS   == {"dots", "stripes"}
IsBackdrop(v) == OneOf(v, PATTERNS \cup LowerHex \cup DOMAIN LowerOf)

Band(colour, width) == Obj([color |-> Str(colour), width |-> Float(width)])
DELIVER_DEFAULTS == [stroke_light |-> "n", backdrop |-> "dots",
                     outlines |-> List(<<Band("#ffffff", 80), Band("#885b80", 104)>>)]
FRAME_LINE == [color |-> Str("#4a3152"), width |-> Float(60), pattern |-> Str("solid")]
FRAME_RIM  == [color |-> Str("#2e2236"), width |-> Float(25)]
FRAME_SIDE_DEFAULTS == [s \in SIDES |-> Str(IF s = "top" THEN "out" ELSE "cut")]

\* The ranges of the catalog: least, greatest and default, in hundredths.
RANGES ==
    [f_number |-> <<140, 2200, 280>>, height |-> <<5, 150, 70>>, nearer |-> <<0, 100, 0>>,
     tilt |-> <<-100, 100, 0>>, bokeh |-> <<0, 100, 0>>, lighting |-> <<0, 100, 70>>,
     saturation |-> <<0, 100, 100>>, lens |-> <<-100, 100, 70>>, radius |-> <<5, 100, 30>>]

(* --------------------------- values of options ------------------------- *)
Ranged(o, key, range)   == AsFloat(Get(o, key, Float(RANGES[range][3])))
\* Mutant: numbers are only bounded above.
RangedBelow(o, key, range) == Within(Get(o, key, Float(RANGES[range][3])),
                                     -1000, RANGES[range][2])

RangedOk(o, key, range) == Within(Get(o, key, Float(RANGES[range][3])),
                                  RANGES[range][1], RANGES[range][2])

IsPoint(v, max_y) == ListOf(v, 2) /\ Within(v[2][1], 0, 100) /\ Within(v[2][2], 0, max_y)
AsPoint(v) == IF v = Null THEN Null ELSE List(<<AsFloat(v[2][1]), AsFloat(v[2][2])>>)
PointOk(o, key, default, max_y) ==
    LET v == Get(o, key, default) IN v = Null \/ IsPoint(v, max_y)

FocalOk(o) == OneOf(Get(o, "focal_length", Str("85mm")), {"85mm"})

\* A light is the empty tuple or its scene and direction.
LightOk(v) ==
    \/ v = Null
    \/ /\ IsObj(v)
       /\ DOMAIN v[2] \subseteq {"scene", "from"}
       /\ OneOf(Get(v[2], "scene", Null), SCENES)
       /\ OneOf(Get(v[2], "from", Str(LIGHT_FROM_DEFAULT)), DIRECTIONS)
LightOf(v) ==
    IF v = Null THEN <<>>
    ELSE <<v[2].scene[2], Get(v[2], "from", Str(LIGHT_FROM_DEFAULT))[2]>>
LightJson(light) ==
    IF light = <<>> THEN Null ELSE Obj([scene |-> Str(light[1]), from |-> Str(light[2])])

OutlineOk(v) ==
    /\ IsObj(v) /\ DOMAIN v[2] = {"color", "width"}
    /\ Within(v[2].width, 1, 500)                   \* > 0 and <= OUTLINE_WIDTH_MAX_PCT
    /\ IsHex(v[2].color)
OutlinesOk(v) ==
    \/ v = Null
    \/ /\ IsList(v) /\ Len(v[2]) <= OUTLINES_MAX
       /\ \A i \in DOMAIN v[2] : OutlineOk(v[2][i])
OutlinesOf(v) ==
    IF v = Null THEN DELIVER_DEFAULTS.outlines
    ELSE List([i \in DOMAIN v[2] |-> Obj([color |-> AsHex(v[2][i][2].color),
                                          width |-> AsFloat(v[2][i][2].width)])])

(* -------------------------------- redraw ------------------------------- *)
REDRAW_OPTIONS ==
    [canvas |-> {"denoise", "size", "route", "finalizer", "upscale", "keep_regions",
                 "keep_strength"},
     hires  |-> {"hires", "denoise"},
     light  |-> {"scene", "from"}]

\* dials_scope / resolve_dial: words are published for yukari's pictures only.
DIALS == [yukari |-> [keep |-> Float(40)]]
DialOk(v, recipe) == Is(v, "str") => recipe \in DOMAIN DIALS /\ v[2] \in DOMAIN DIALS[recipe]
Dialled(v, recipe) == IF Is(v, "str") THEN DIALS[recipe][v[2]] ELSE v

DenoiseOk(v) == Within(v, 1, 100)                   \* > 0 and <= 1
KeepStrengthOk(v) == Within(v, 1, 99)               \* > 0 and < 1
RegionsOk(v) ==
    /\ IsList(v)
    /\ \A i \in DOMAIN v[2] : /\ ListOf(v[2][i], 4)
                              /\ \A j \in 1..4 : Within(v[2][i][2][j], 0, 100)
NullOrInt(v) == v = Null \/ Is(v, "int")

CanvasOk(o, recipe) ==
    LET denoise == Get(o, "denoise", Null)
    IN  /\ DialOk(denoise, recipe)
        /\ LET d == Dialled(denoise, recipe) IN d = Null \/ DenoiseOk(d)
        /\ Get(o, "route", Null) \in {Null, Str("latent"), Str("pixel")}
        /\ Get(o, "finalizer", Null)[1] \in {"null", "str"}
        /\ NullOrInt(Get(o, "size", Null))
        /\ \/ Get(o, "upscale", Null) = Null
           \/ OneOf(o.upscale, {"bicubic", "nearest-exact", "bilinear", "lanczos"})
        /\ RegionsOk(Get(o, "keep_regions", List(<<>>)))
        /\ KeepStrengthOk(Get(o, "keep_strength", Float(25)))

RedrawAccepts(v, recipe) ==
    /\ IsObj(v)
    /\ LET o == v[2]
           method == Get(o, "method", Null)
       IN  /\ OneOf(method, DOMAIN REDRAW_OPTIONS)
           /\ DOMAIN o \subseteq REDRAW_OPTIONS[method[2]] \cup {"method", "cut"}
           /\ IsBool(Get(o, "cut", Bool(FALSE)))
           /\ CASE method[2] = "light"  -> LightOk(Obj(Without(Merge(o, [scene |-> Null]),
                                                               {"method", "cut"})))
                [] method[2] = "hires"  -> /\ Is(Get(o, "hires", Null), "int")
                                           /\ o.hires[2] > 0
                                           /\ DenoiseOk(Get(o, "denoise", Float(45)))
                [] method[2] = "canvas" -> CanvasOk(o, recipe)

RedrawArguments(v, recipe) ==
    LET o == v[2]
        method == o.method[2]
        denoise == Dialled(Get(o, "denoise", IF method = "hires" THEN Float(45) ELSE Null), recipe)
        route == Get(o, "route", Null)
    IN  [method |-> method,
         cut |-> Get(o, "cut", Bool(FALSE))[2],
         light |-> IF method = "light" THEN LightOf(Obj(Without(o, {"method", "cut"}))) ELSE <<>>,
         denoise |-> IF denoise = Null THEN Null ELSE AsFloat(denoise),
         latent_route |-> route = Str("latent"),
         finalizer |-> Get(o, "finalizer", Null),
         upscale |-> Get(o, "upscale", Null),
         size |-> Get(o, "size", Null),
         hires |-> Get(o, "hires", Null),
         keep_regions |-> Get(o, "keep_regions", List(<<>>)),
         keep_strength |-> AsFloat(Get(o, "keep_strength", Float(25)))]

\* _resolved_options: the row's own options, a dialled key by what it became.
RedrawResolved(v, recipe) ==
    Obj([k \in DOMAIN v[2] |-> IF k = "denoise" THEN RedrawArguments(v, recipe).denoise
                               ELSE v[2][k]])

(* -------------------------------- deliver ------------------------------ *)
DELIVER_OPTIONS == {"keep_scene", "transparent", "backdrop", "stroke_light", "outlines",
                    "light", "see_through"}

\* Absent, the stroke follows an explicit light and is left to deliver()
\* ("recipe default") without one.
DeliverStroke(o) ==
    LET light == LightOf(Get(o, "light", Null))
    IN  IF "stroke_light" \in DOMAIN o THEN o.stroke_light
        ELSE IF light # <<>> THEN Str(light[2]) ELSE <<"recipe default">>

DeliverAccepts(v) ==
    /\ IsBody(v)
    /\ LET o == Body(v)
           transparent == Get(o, "transparent", Null)
           see_through == Get(o, "see_through", Null)
       IN  /\ DOMAIN o \subseteq DELIVER_OPTIONS
           /\ transparent = Null \/ IsBool(transparent)
           /\ IsBool(Get(o, "keep_scene", Bool(FALSE)))
           /\ LET backdrop == Get(o, "backdrop", Null) IN backdrop = Null \/ IsBackdrop(backdrop)
           /\ LightOk(Get(o, "light", Null))
           /\ LET stroke == Get(o, "stroke_light", Null)
              IN  stroke = Null \/ OneOf(stroke, STROKE_CHOICES)
           /\ LET light == LightOf(Get(o, "light", Null))
                  stroke == DeliverStroke(o)
              IN  light # <<>> /\ OneOf(stroke, DIRECTIONS) => stroke[2] = light[2]
           /\ OutlinesOk(Get(o, "outlines", Null))
           /\ see_through = Null \/ Within(see_through, 100, 500)

DeliverArguments(v) ==
    LET o == Body(v)
        given == Get(o, "transparent", Null)
        keep_scene == Get(o, "keep_scene", Bool(FALSE))[2]
        asked == IF given = Null THEN "backdrop" \in DOMAIN o /\ o.backdrop = Null ELSE given[2]
        transparent == asked /\ ~keep_scene
        see_through == Get(o, "see_through", Null)
    IN  [keep_scene |-> keep_scene,
         transparent |-> transparent,
         backdrop |-> IF "backdrop" \in DOMAIN o THEN o.backdrop
                      ELSE IF transparent THEN Null ELSE Str(DELIVER_DEFAULTS.backdrop),
         stroke_light |-> DeliverStroke(o),
         outlines |-> OutlinesOf(Get(o, "outlines", Null)),
         light |-> LightOf(Get(o, "light", Null)),
         see_through |-> IF see_through = Null THEN Float(100) ELSE AsFloat(see_through)]

DeliverResolved(v) ==
    Obj(Merge([outlines |-> DeliverArguments(v).outlines], Body(v)))

(* ---------------------------------- dof -------------------------------- *)
DOF_PHOTO_OPTIONS == {"stand_at", "nearer", "tilt", "bokeh", "focal_length"}
DOF_OPTIONS == {"focus", "f_number", "scope", "viewfinder"} \cup DOF_PHOTO_OPTIONS
DOF_SCOPE   == [figure |-> Bool(TRUE), outline |-> Bool(TRUE), backdrop |-> Bool(TRUE)]
VIEWFINDERS == {"off", "on", "both"}

ScopeOf(v) == Merge(IF v = Null THEN <<>> ELSE v[2], DOF_SCOPE)
DofAccepts(v) ==
    /\ IsBody(v)
    /\ LET o == Body(v)
           scope == Get(o, "scope", Null)
       IN  /\ DOMAIN o \subseteq DOF_OPTIONS
           /\ IsPoint(Get(o, "focus", Null), 100)
           /\ RangedOk(o, "f_number", "f_number")
           /\ scope = Null \/ IsObj(scope)
           /\ scope # Null => /\ DOMAIN scope[2] \subseteq DOMAIN DOF_SCOPE
                              /\ \A k \in DOMAIN scope[2] : IsBool(scope[2][k])
           /\ \E k \in DOMAIN DOF_SCOPE : ScopeOf(scope)[k][2]
           /\ OneOf(Get(o, "viewfinder", Str("off")), VIEWFINDERS)
           /\ DOMAIN o \cap DOF_PHOTO_OPTIONS # {} =>
                  /\ PointOk(o, "stand_at", Null, 100)
                  /\ \A k \in {"nearer", "tilt", "bokeh"} : RangedOk(o, k, k)
                  /\ FocalOk(o)

DofArguments(v) ==
    LET o == Body(v)
    IN  [focus |-> AsPoint(o.focus),
         f_number |-> Ranged(o, "f_number", "f_number"),
         scope |-> ScopeOf(Get(o, "scope", Null)),
         viewfinder |-> Get(o, "viewfinder", Str("off"))[2],
         photo_blur |-> IF DOMAIN o \cap DOF_PHOTO_OPTIONS = {} THEN <<>>
                        ELSE [stand_at |-> AsPoint(Get(o, "stand_at", Null)),
                              nearer |-> Ranged(o, "nearer", "nearer"),
                              tilt |-> Ranged(o, "tilt", "tilt"),
                              bokeh |-> Ranged(o, "bokeh", "bokeh"),
                              focal_length |-> Get(o, "focal_length", Str("85mm"))]]

DofResolved(v) ==
    LET a == DofArguments(v)
    IN  Obj(Merge(a.photo_blur, [focus |-> a.focus, f_number |-> a.f_number,
                                 scope |-> Obj(a.scope), viewfinder |-> Str(a.viewfinder)]))

(* --------------------------------- lens -------------------------------- *)
LENS_OPTIONS == {"center", "strength", "shape", "radius"}
LensAccepts(v) ==
    /\ IsBody(v)
    /\ LET o == Body(v)
           shape == Get(o, "shape", Str("fisheye"))
       IN  /\ DOMAIN o \subseteq LENS_OPTIONS
           /\ IsPoint(Get(o, "center", List(<<Float(50), Float(50)>>)), 100)
           /\ RangedOk(o, "strength", "lens")
           /\ Ranged(o, "strength", "lens") # Float(0)
           /\ OneOf(shape, {"fisheye", "sphere"})
           /\ IF shape[2] = "sphere" THEN RangedOk(o, "radius", "radius")
              ELSE "radius" \notin DOMAIN o

LensArguments(v) ==
    LET o == Body(v)
        shape == Get(o, "shape", Str("fisheye"))
    IN  [center |-> AsPoint(Get(o, "center", List(<<Float(50), Float(50)>>))),
         strength |-> Ranged(o, "strength", "lens"),
         shape |-> shape,
         radius |-> IF shape[2] = "sphere" THEN Ranged(o, "radius", "radius") ELSE Null]

\* Mutant: a radius that the shape does not have is reported back.
LensResolvedAll(v) == Obj(LensArguments(v))

LensResolved(v) ==
    LET a == LensArguments(v)
    IN  Obj(IF a.radius = Null THEN Without(a, {"radius"}) ELSE a)

(* --------------------------------- photo ------------------------------- *)
PHOTO_OPTIONS == {"photo", "place", "height", "stand_at", "nearer", "focus", "f_number",
                  "tilt", "bokeh", "focal_length"}
PLACE_DEFAULT == List(<<Float(50), Float(95)>>)
PLACE_MAX_Y   == 150
PhotoIdOk(v)  == Is(v, "str") /\ v[2] # ""

PhotoAccepts(v) ==
    /\ IsBody(v)
    /\ LET o == Body(v)
           focus == Get(o, "focus", Str("subject"))
       IN  /\ DOMAIN o \subseteq PHOTO_OPTIONS
           /\ PhotoIdOk(Get(o, "photo", Null))
           /\ focus = Str("subject") \/ IsPoint(focus, 100)
           /\ PointOk(o, "place", PLACE_DEFAULT, PLACE_MAX_Y)
           /\ PointOk(o, "stand_at", Null, 100)
           /\ \A k \in {"height", "nearer", "f_number", "tilt", "bokeh"} : RangedOk(o, k, k)
           /\ FocalOk(o)

PhotoArguments(v) ==
    LET o == Body(v)
        focus == Get(o, "focus", Str("subject"))
    IN  [photo |-> o.photo,
         place |-> AsPoint(Get(o, "place", PLACE_DEFAULT)),
         stand_at |-> AsPoint(Get(o, "stand_at", Null)),
         focus |-> IF focus = Str("subject") THEN focus ELSE AsPoint(focus),
         height |-> Ranged(o, "height", "height"), nearer |-> Ranged(o, "nearer", "nearer"),
         f_number |-> Ranged(o, "f_number", "f_number"), tilt |-> Ranged(o, "tilt", "tilt"),
         bokeh |-> Ranged(o, "bokeh", "bokeh"),
         focal_length |-> Get(o, "focal_length", Str("85mm"))]

PhotoResolved(v) == Obj(PhotoArguments(v))

(* --------------------------------- frame ------------------------------- *)
FRAME_KEYS == {"box", "sides", "line", "rim", "paper", "canvas", "expand", "strokes"}
FrameShareOk(v) == Within(v, -100, 200)             \* FRAME_COORD_RANGE

RectOk(v) ==
    /\ ListOf(v, 4) /\ \A i \in 1..4 : FrameShareOk(v[2][i])
    /\ v[2][1][2] < v[2][3][2] /\ v[2][2][2] < v[2][4][2]
RectOf(v) == List([i \in 1..4 |-> AsFloat(v[2][i])])

CanvasRectOk(v) ==
    \/ v = Null
    \/ /\ ListOf(v, 4)
       /\ \A i \in 1..4 : v[2][i] = Null \/ FrameShareOk(v[2][i])
       /\ \A i \in 1..2 : v[2][i] # Null /\ v[2][i + 2] # Null => v[2][i][2] < v[2][i + 2][2]
CanvasRectOf(v) ==
    IF v = Null \/ \A i \in 1..4 : v[2][i] = Null THEN Null
    ELSE List([i \in 1..4 |-> IF v[2][i] = Null THEN Null ELSE AsFloat(v[2][i])])

ExpandOk(v) ==
    \/ IsBool(v)
    \/ IsObj(v) /\ DOMAIN v[2] \subseteq SIDES /\ \A s \in DOMAIN v[2] : IsBool(v[2][s])
ExpandOf(v) ==
    IF IsBool(v) THEN v ELSE Obj([s \in SIDES |-> Get(v[2], s, Bool(FALSE))])

StrokeOk(v) ==
    /\ IsObj(v) /\ DOMAIN v[2] = {"mode", "width", "points"}
    /\ OneOf(v[2].mode, {"erase", "restore"})
    /\ Within(v[2].width, 1, 2000)
    /\ IsList(v[2].points)
    /\ Len(v[2].points[2]) \in 1..FRAME_STROKE_POINTS_MAX
    /\ \A i \in DOMAIN v[2].points[2] :
          LET p == v[2].points[2][i]
          IN  ListOf(p, 2) /\ FrameShareOk(p[2][1]) /\ FrameShareOk(p[2][2])
\* How many points each stroke has.
Counts(strokes) == [i \in DOMAIN strokes |-> Len(strokes[i][2].points[2])]
StrokesOk(v) ==
    /\ IsList(v) /\ Len(v[2]) <= FRAME_STROKES_MAX
    /\ \A i \in DOMAIN v[2] : StrokeOk(v[2][i])
    /\ SumFunction(Counts(v[2])) <= FRAME_POINTS_MAX
StrokesOf(v) ==
    List([i \in DOMAIN v[2] |->
            Obj([mode |-> v[2][i][2].mode, width |-> AsFloat(v[2][i][2].width),
                 points |-> List([j \in DOMAIN v[2][i][2].points[2] |->
                                    AsPoint(v[2][i][2].points[2][j])])])])

\* A band of the border: null, or its defaults over which its keys are laid;
\* one of no width is dropped before its colour and pattern are looked at.
BandOk(v, default) ==
    \/ v = Null
    \/ /\ IsObj(v) /\ DOMAIN v[2] \subseteq DOMAIN default
       /\ LET b == Merge(v[2], default)
          IN  /\ Within(b.width, 0, 500)
              /\ b.width[2] # 0 =>
                    /\ IsHex(b.color)
                    /\ "pattern" \in DOMAIN b => OneOf(b.pattern, {"solid", "slash"})
BandOf(v, default) ==
    IF v = Null THEN Null
    ELSE LET b == Merge(v[2], default)
         IN  IF b.width[2] = 0 THEN Null
             ELSE Obj([b EXCEPT !.color = AsHex(@), !.width = AsFloat(@)])

FrameOk(v) ==
    \/ v = Null
    \/ /\ IsObj(v)
       /\ LET o == v[2]
              sides == Get(o, "sides", Obj(<<>>))
          IN  /\ DOMAIN o \subseteq FRAME_KEYS
              /\ "box" \in DOMAIN o /\ RectOk(o.box)
              /\ IsObj(sides) /\ DOMAIN sides[2] \subseteq SIDES
              /\ \A s \in DOMAIN sides[2] : OneOf(sides[2][s], {"cut", "out", "behind"})
              /\ BandOk(Get(o, "line", Obj(FRAME_LINE)), FRAME_LINE)
              /\ BandOk(Get(o, "rim", Obj(FRAME_RIM)), FRAME_RIM)
              /\ IsHex(Get(o, "paper", Str("#ffffff")))
              /\ CanvasRectOk(Get(o, "canvas", Null))
              /\ ExpandOk(Get(o, "expand", Bool(FALSE)))
              /\ StrokesOk(Get(o, "strokes", List(<<>>)))
FrameOf(v) ==
    IF v = Null THEN Null
    ELSE LET o == v[2]
         IN  Obj([box |-> RectOf(o.box),
                  sides |-> Obj(Merge(Get(o, "sides", Obj(<<>>))[2], FRAME_SIDE_DEFAULTS)),
                  line |-> BandOf(Get(o, "line", Obj(FRAME_LINE)), FRAME_LINE),
                  rim |-> BandOf(Get(o, "rim", Obj(FRAME_RIM)), FRAME_RIM),
                  paper |-> AsHex(Get(o, "paper", Str("#ffffff"))),
                  canvas |-> CanvasRectOf(Get(o, "canvas", Null)),
                  expand |-> ExpandOf(Get(o, "expand", Bool(FALSE))),
                  strokes |-> StrokesOf(Get(o, "strokes", List(<<>>)))])

(* --------------------------------- stage ------------------------------- *)
STAGE_OPTIONS == {"photo", "place", "height", "backdrop", "shadow_from", "light", "frame"}
STAGE_PATTERN_OPTIONS == {"backdrop", "shadow_from", "light", "frame"}

StageAccepts(v) ==
    /\ IsBody(v)
    /\ LET o == Body(v)
       IN  /\ DOMAIN o \subseteq STAGE_OPTIONS
           /\ IF "photo" \in DOMAIN o
              THEN /\ DOMAIN o \cap STAGE_PATTERN_OPTIONS = {}
                   /\ PhotoIdOk(o.photo)
                   /\ PointOk(o, "place", PLACE_DEFAULT, PLACE_MAX_Y)
                   /\ RangedOk(o, "height", "height")
              ELSE /\ DOMAIN o \cap {"place", "height"} = {}
                   /\ IsBackdrop(Get(o, "backdrop", Str(DELIVER_DEFAULTS.backdrop)))
                   /\ LET from == Get(o, "shadow_from", Null)
                      IN  from = Null \/ OneOf(from, DIRECTIONS)
                   /\ LightOk(Get(o, "light", Null))
                   /\ FrameOk(Get(o, "frame", Null))

StageArguments(v) ==
    LET o == Body(v)
        on_photo == "photo" \in DOMAIN o
    IN  [photo |-> Get(o, "photo", Null),
         place |-> IF on_photo THEN AsPoint(Get(o, "place", PLACE_DEFAULT)) ELSE Null,
         height |-> IF on_photo THEN Ranged(o, "height", "height") ELSE Null,
         backdrop |-> IF on_photo THEN Null
                      ELSE Get(o, "backdrop", Str(DELIVER_DEFAULTS.backdrop)),
         shadow_from |-> Get(o, "shadow_from", Null),
         inherit_shadow |-> ~on_photo /\ "shadow_from" \notin DOMAIN o,
         light |-> LightOf(Get(o, "light", Null)),
         inherit_light |-> ~on_photo /\ "light" \notin DOMAIN o,
         frame |-> FrameOf(Get(o, "frame", Null))]

\* `frame` is what stage() made of the arguments' frame: its canvas filled in.
StageResolved(v, frame) ==
    LET a == StageArguments(v)
        maybe(wanted, key, value) == IF wanted THEN [k \in {key} |-> value] ELSE <<>>
    IN  IF a.photo # Null
        THEN Obj([photo |-> a.photo, place |-> a.place, height |-> a.height])
        ELSE Obj(Merge(maybe(~a.inherit_shadow, "shadow_from", a.shadow_from),
                 Merge(maybe(~a.inherit_light, "light", LightJson(a.light)),
                 Merge(maybe(a.frame # Null, "frame", frame),
                       [backdrop |-> a.backdrop]))))

(* ------------------------- lighting and saturation --------------------- *)
LightingAccepts(v) ==
    /\ IsBody(v)
    /\ LET o == Body(v)
           direction == Get(o, "direction", Null)
           scene == Get(o, "scene", Null)
       IN  /\ DOMAIN o \subseteq {"direction", "strength", "scene"}
           /\ direction = Null \/ OneOf(direction, DIRECTIONS)
           /\ scene = Null \/ OneOf(scene, SCENES)
           /\ RangedOk(o, "strength", "lighting")
LightingArguments(v) ==
    [direction |-> Get(Body(v), "direction", Null), scene |-> Get(Body(v), "scene", Null),
     strength |-> Ranged(Body(v), "strength", "lighting")]
LightingResolved(v) == Obj(LightingArguments(v))

SaturationAccepts(v) ==
    /\ IsBody(v)
    /\ DOMAIN Body(v) \subseteq {"strength"}
    /\ RangedOk(Body(v), "strength", "saturation")
SaturationArguments(v) == [strength |-> Ranged(Body(v), "strength", "saturation")]
SaturationResolved(v)  == Obj(SaturationArguments(v))
===============================================================================
