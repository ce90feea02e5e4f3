------------------------------ MODULE OptionsProofs ------------------------------
(********************************************************************************)
(* What an operation reports of its options it takes back, and makes the same   *)
(* of them, whatever JSON it was posted with: one lemma for each                *)
(* kind (LightingIsAgain, SaturationIsAgain, LensIsAgain, PhotoIsAgain,         *)
(* DeliverIsAgain, DofIsAgain, RedrawIsAgain, StageIsAgain).                    *)
(*                                                                              *)
(* The parts come first: a number read as a float, a range, a point, a color,   *)
(* a light, a list taken item by item, an object merged over its defaults, each *)
(* read a second time is what it was and is still accepted.  A redraw reports   *)
(* its options but for the denoise a dial stands for, a delivery its options    *)
(* and its outlines, a blur its photo's options only where one was given, and a *)
(* stage its frame with the canvas it came out with (FilledIn), so that each of *)
(* these goes over the keys of the object that is reported.                     *)
(********************************************************************************)
EXTENDS Options, SequenceTheorems, TLAPS

\* The content of an object is read back as it was put in.
LEMMA ObjBody ==
    ASSUME NEW f
    PROVE  /\ Obj(f)[1] = "obj" /\ Obj(f)[2] = f
           /\ IsObj(Obj(f)) /\ IsBody(Obj(f)) /\ Body(Obj(f)) = f
<1>1. Obj(f)[1] = "obj" /\ Obj(f)[2] = f
      BY DEF Obj
<1>2. Falsy(Obj(f)) => f = <<>>
  <2> DEFINE no == FALSE
  <2>1. Null[1] = "null" /\ Bool(no)[1] = "bool" /\ Whole(0)[1] = "int" /\ Float(0)[1] = "float"
        /\ Str("")[1] = "str" /\ List(<<>>)[1] = "list"
    <3> HIDE DEF no
    <3> QED
        BY DEF Null, Bool, Whole, Float, Str, List
  <2>2. Obj(<<>>)[2] = <<>>
        BY DEF Obj
  <2> HIDE DEF no
  <2>3. Falsy(Obj(f)) => Obj(f) \in {Null, Bool(no), Whole(0), Float(0), Str(""), List(<<>>), Obj(<<>>)}
        BY Zenon DEF Falsy, no
  <2> QED
      BY <1>1, <2>1, <2>2, <2>3
<1> QED
    BY <1>1, <1>2, Zenon DEF IsObj, Is, IsBody, Body

\* The kinds of JSON values are told apart.
LEMMA Contents ==
    /\ \A x : Str(x)[1] = "str" /\ Str(x)[2] = x
    /\ \A x : List(x)[1] = "list" /\ List(x)[2] = x
    /\ \A x : Float(x)[1] = "float" /\ Float(x)[2] = x
    /\ \A x : Bool(x)[1] = "bool" /\ Bool(x)[2] = x
    /\ \A x : Obj(x)[1] = "obj" /\ Obj(x)[2] = x
    /\ \A x : AsFloat(x)[1] = "float" /\ AsFloat(x)[2] = x[2]
    /\ Null[1] = "null"
BY DEF Str, List, Float, Bool, Obj, AsFloat, Null

\* float() of a number is a number, the same one.
LEMMA FloatAgain ==
    ASSUME NEW x
    PROVE  /\ AsFloat(AsFloat(x)) = AsFloat(x) /\ AsFloat(x) # Null
           /\ \A low, high : Within(x, low, high) => Within(AsFloat(x), low, high)
BY DEF AsFloat, Float, Null, Within, IsNumber

\* A number of the catalog that is reported is taken back as it is.
LEMMA RangedAgain ==
    ASSUME NEW o, NEW key, NEW range, NEW p, NEW f, RangedOk(o, key, range),
           key \in DOMAIN p, p[key] = Ranged(o, key, range)
    PROVE  RangedOk(p, key, range) /\ Ranged(p, key, range) = Ranged(o, key, range)
<1> DEFINE x == Get(o, key, Float(RANGES[range][3]))
<1>1. Get(p, key, Float(RANGES[range][3])) = AsFloat(x)
      BY DEF Get, Ranged
<1> HIDE DEF x
<1>2. Ranged(o, key, range) = AsFloat(x) /\ Within(x, RANGES[range][1], RANGES[range][2])
      BY DEF Ranged, RangedOk, x
<1> QED
    BY <1>1, <1>2, FloatAgain DEF Ranged, RangedOk

\* Pairs and fours are lists.
LEMMA Lists ==
    /\ \A x, y : /\ ListOf(List(<<x, y>>), 2)
                 /\ List(<<x, y>>)[2][1] = x /\ List(<<x, y>>)[2][2] = y
    /\ \A f : LET v == List([i \in 1..4 |-> f[i]])
              IN  ListOf(v, 4) /\ \A i \in 1..4 : v[2][i] = f[i]
<1>1. ASSUME NEW x, NEW y
      PROVE  /\ ListOf(List(<<x, y>>), 2)
             /\ List(<<x, y>>)[2][1] = x /\ List(<<x, y>>)[2][2] = y
  <2> DEFINE v == List(<<x, y>>)
  <2>1. v[1] = "list" /\ v[2] = <<x, y>>
        BY Contents
  <2>2. v[2] \in Seq({v[2][i] : i \in DOMAIN v[2]})
        BY <2>1
  <2> HIDE DEF v
  <2>3. ListOf(v, 2) /\ v[2][1] = x /\ v[2][2] = y
        BY <2>1, <2>2 DEF ListOf, IsList, Is
  <2> QED
      BY <2>3 DEF v
<1>2. ASSUME NEW f
      PROVE  LET v == List([i \in 1..4 |-> f[i]])
             IN  ListOf(v, 4) /\ \A i \in 1..4 : v[2][i] = f[i]
  <2> DEFINE v == List([i \in 1..4 |-> f[i]])
  <2>1. v[1] = "list" /\ v[2] = [i \in 1..4 |-> f[i]]
        BY Contents
  <2> HIDE DEF v
  <2>2. v[2] \in Seq({v[2][i] : i \in DOMAIN v[2]}) /\ Len(v[2]) = 4
        BY <2>1
  <2>3. ListOf(v, 4) /\ \A i \in 1..4 : v[2][i] = f[i]
        BY <2>1, <2>2 DEF ListOf, IsList, Is
  <2> QED
      BY <2>3 DEF v
<1> QED
    BY <1>1, <1>2

\* A point is the same point when it is taken again.
LEMMA PointAgain ==
    ASSUME NEW v, NEW max_y, v = Null \/ IsPoint(v, max_y)
    PROVE  /\ AsPoint(v) = Null \/ IsPoint(AsPoint(v), max_y)
           /\ v # Null => IsPoint(AsPoint(v), max_y) /\ AsPoint(v) # Null
           /\ AsPoint(AsPoint(v)) = AsPoint(v)
           /\ AsPoint(v)[1] \in {"null", "list"}
<1>1. CASE v = Null
      BY <1>1, Contents DEF AsPoint
<1>2. CASE v # Null
  <2> DEFINE x == AsFloat(v[2][1])
             y == AsFloat(v[2][2])
             w == List(<<x, y>>)
  <2>1. AsPoint(v) = w
        BY <1>2 DEF AsPoint
  <2>2. Within(v[2][1], 0, 100) /\ Within(v[2][2], 0, max_y)
        BY <1>2 DEF IsPoint
  <2>3. Within(x, 0, 100) /\ Within(y, 0, max_y) /\ AsFloat(x) = x /\ AsFloat(y) = y
        BY <2>2, FloatAgain
  <2> HIDE DEF x, y
  <2>4. ListOf(w, 2) /\ w[2][1] = x /\ w[2][2] = y /\ w[1] = "list" /\ w # Null
        BY Lists, Contents
  <2> HIDE DEF w
  <2>5. IsPoint(w, max_y)
        BY <2>3, <2>4 DEF IsPoint
  <2>6. AsPoint(w) = List(<<x, y>>)
        BY <2>3, <2>4 DEF AsPoint
  <2> QED
      BY <1>2, <2>1, <2>4, <2>5, <2>6 DEF w
<1> QED
    BY <1>1, <1>2

\* Such an option, reported, is taken back.
LEMMA PointOkAgain ==
    ASSUME NEW o, NEW key, NEW default, NEW max_y, NEW p, PointOk(o, key, default, max_y),
           key \in DOMAIN p, p[key] = AsPoint(Get(o, key, default))
    PROVE  /\ PointOk(p, key, default, max_y)
           /\ AsPoint(Get(p, key, default)) = AsPoint(Get(o, key, default))
<1>1. Get(p, key, default) = AsPoint(Get(o, key, default))
      BY DEF Get
<1> QED
    BY <1>1, PointAgain DEF PointOk

\* A colour is written in lower case once and for all.
LEMMA HexAgain ==
    ASSUME NEW v, IsHex(v)
    PROVE  IsHex(AsHex(v)) /\ AsHex(AsHex(v)) = AsHex(v)
<1>1. v[1] = "str" /\ v[2] \in LowerHex \cup DOMAIN LowerOf
      BY DEF IsHex, OneOf, Is
<1>2. DOMAIN LowerOf \cap LowerHex = {} /\ \A c \in DOMAIN LowerOf : LowerOf[c] \in LowerHex
      BY DEF LowerOf, LowerHex
<1>3. CASE v[2] \in DOMAIN LowerOf
  <2>1. AsHex(v) = Str(LowerOf[v[2]])
        BY <1>3 DEF AsHex
  <2>2. AsHex(v)[1] = "str" /\ AsHex(v)[2] \in LowerHex
        BY <1>2, <1>3, <2>1, Contents
  <2> QED
      BY <1>2, <2>2 DEF AsHex, IsHex, OneOf, Is
<1>4. CASE v[2] \notin DOMAIN LowerOf
      BY <1>4 DEF AsHex
<1> QED
    BY <1>3, <1>4

\* A light is written out and read back.
LEMMA LightAgain ==
    ASSUME NEW v, LightOk(v)
    PROVE  LightOk(LightJson(LightOf(v))) /\ LightOf(LightJson(LightOf(v))) = LightOf(v)
<1>1. CASE v = Null
      BY <1>1 DEF LightJson, LightOf, LightOk
<1>2. CASE v # Null
  <2> DEFINE scene == v[2].scene[2]
             from  == Get(v[2], "from", Str(LIGHT_FROM_DEFAULT))[2]
             r == [scene |-> Str(scene), from |-> Str(from)]
  <2>1. Get(v[2], "scene", Null)[1] = "str" /\ Get(v[2], "scene", Null)[2] \in SCENES /\ from \in DIRECTIONS
        BY <1>2 DEF LightOk, OneOf, Is
  <2>2. scene \in SCENES
        BY <2>1, Contents DEF Get
  <2>3. LightOf(v) = <<scene, from>>
        BY <1>2 DEF LightOf
  <2> HIDE DEF scene, from
  <2>4. LightJson(LightOf(v)) = Obj(r)
        BY <2>3 DEF LightJson
  <2>5. Obj(r)[1] = "obj" /\ Obj(r)[2] = r /\ Obj(r) # Null
        BY Contents
  <2>6. DOMAIN r = {"scene", "from"} /\ r.scene = Str(scene) /\ r.from = Str(from)
        OBVIOUS
  <2> HIDE DEF r
  <2>7. Get(r, "scene", Null) = Str(scene) /\ Get(r, "from", Str(LIGHT_FROM_DEFAULT)) = Str(from)
        BY <2>6 DEF Get
  <2>8. LightOk(Obj(r))
        BY <2>1, <2>2, <2>5, <2>6, <2>7, Contents DEF LightOk, IsObj, Is, OneOf
  <2>9. LightOf(Obj(r)) = <<scene, from>>
        BY <2>5, <2>6, <2>7, Contents DEF LightOf
  <2> QED
      BY <2>3, <2>4, <2>8, <2>9
<1> QED
    BY <1>1, <1>2

(* ------------------------ kinds of a few numbers ------------------------ *)
LightingAgain(v) ==
    /\ LightingAccepts(LightingResolved(v))
    /\ LightingArguments(LightingResolved(v)) = LightingArguments(v)
SaturationAgain(v) ==
    /\ SaturationAccepts(SaturationResolved(v))
    /\ SaturationArguments(SaturationResolved(v)) = SaturationArguments(v)
LensAgain(v) ==
    LensAccepts(LensResolved(v)) /\ LensArguments(LensResolved(v)) = LensArguments(v)
PhotoAgain(v) ==
    PhotoAccepts(PhotoResolved(v)) /\ PhotoArguments(PhotoResolved(v)) = PhotoArguments(v)

\* What a lighting reports is taken again as the same lighting.
LEMMA LightingIsAgain ==
    ASSUME NEW v, LightingAccepts(v)
    PROVE  LightingAgain(v)
<1> DEFINE o == Body(v)
           direction == Get(o, "direction", Null)
           scene == Get(o, "scene", Null)
           strength == Ranged(o, "strength", "lighting")
           p == [direction |-> direction, scene |-> scene, strength |-> strength]
           w == LightingResolved(v)
<1>1. /\ direction = Null \/ OneOf(direction, DIRECTIONS)
      /\ scene = Null \/ OneOf(scene, SCENES)
      /\ RangedOk(o, "strength", "lighting")
      BY Zenon DEF LightingAccepts
<1>2. LightingArguments(v) = p /\ w = Obj(p)
      BY DEF LightingArguments, LightingResolved
<1>3. IsBody(w) /\ Body(w) = p
      BY <1>2, ObjBody
<1> HIDE DEF o, direction, scene, strength, w
<1>4. /\ DOMAIN p = {"direction", "strength", "scene"}
      /\ p.direction = direction /\ p.scene = scene /\ p.strength = strength
      OBVIOUS
<1> HIDE DEF p
<1>5. /\ Get(p, "direction", Null) = direction /\ Get(p, "scene", Null) = scene
      /\ RangedOk(p, "strength", "lighting") /\ Ranged(p, "strength", "lighting") = strength
  <2>1. RangedOk(p, "strength", "lighting") /\ Ranged(p, "strength", "lighting") = strength
        BY <1>1, <1>4, RangedAgain DEF strength
  <2> QED
      BY <1>4, <2>1 DEF Get
<1>6. LightingAccepts(w)
      BY <1>1, <1>3, <1>4, <1>5 DEF LightingAccepts
<1>7. LightingArguments(w) = [direction |-> direction, scene |-> scene, strength |-> strength]
      BY <1>3, <1>5 DEF LightingArguments
<1> QED
    BY <1>2, <1>6, <1>7 DEF LightingAgain, w, p

\* So is what a saturation reports.
LEMMA SaturationIsAgain ==
    ASSUME NEW v, SaturationAccepts(v)
    PROVE  SaturationAgain(v)
<1> DEFINE o == Body(v)
           strength == Ranged(o, "strength", "saturation")
           p == [strength |-> strength]
           w == SaturationResolved(v)
<1>1. RangedOk(o, "strength", "saturation")
      BY DEF SaturationAccepts
<1>2. SaturationArguments(v) = p /\ w = Obj(p)
      BY DEF SaturationArguments, SaturationResolved
<1>3. IsBody(w) /\ Body(w) = p
      BY <1>2, ObjBody
<1> HIDE DEF o, strength, w
<1>4. DOMAIN p = {"strength"} /\ p.strength = strength
      OBVIOUS
<1> HIDE DEF p
<1>5. RangedOk(p, "strength", "saturation") /\ Ranged(p, "strength", "saturation") = strength
      BY <1>1, <1>4, RangedAgain DEF strength
<1>6. SaturationAccepts(w)
      BY <1>3, <1>4, <1>5 DEF SaturationAccepts
<1>7. SaturationArguments(w) = [strength |-> strength]
      BY <1>3, <1>5 DEF SaturationArguments
<1> QED
    BY <1>2, <1>6, <1>7 DEF SaturationAgain, w, p

\* A lens reports a radius only for the shape that takes one.
LEMMA LensIsAgain ==
    ASSUME NEW v, LensAccepts(v)
    PROVE  LensAgain(v)
<1> DEFINE o == Body(v)
           shape == Get(o, "shape", Str("fisheye"))
           given == Get(o, "center", List(<<Float(50), Float(50)>>))
           center == AsPoint(given)
           strength == Ranged(o, "strength", "lens")
           radius == Ranged(o, "radius", "radius")
           a == LensArguments(v)
           w == LensResolved(v)
           p == w[2]
<1>1. /\ IsPoint(given, 100) /\ RangedOk(o, "strength", "lens") /\ strength # Float(0)
      /\ OneOf(shape, {"fisheye", "sphere"})
      /\ shape[2] = "sphere" => RangedOk(o, "radius", "radius")
      BY Zenon DEF LensAccepts
<1>2. a = [center |-> center, strength |-> strength, shape |-> shape,
           radius |-> IF shape[2] = "sphere" THEN radius ELSE Null]
      BY DEF LensArguments
<1>3. w = Obj(IF a.radius = Null THEN Without(a, {"radius"}) ELSE a)
      BY DEF LensResolved
<1>4. given # Null
      BY <1>1, Contents DEF IsPoint, ListOf, IsList, Is
<1>5. radius # Null /\ IsPoint(center, 100) /\ AsPoint(center) = center
      BY <1>1, <1>4, FloatAgain, PointAgain DEF Ranged
<1> HIDE DEF o, shape, given, center, strength, radius, a, w
<1>6. /\ p = IF a.radius = Null THEN Without(a, {"radius"}) ELSE a
      /\ IsBody(w) /\ Body(w) = p
      BY <1>3, ObjBody
<1> HIDE DEF p
<1>7. /\ DOMAIN p = IF shape[2] = "sphere" THEN LENS_OPTIONS ELSE {"center", "strength", "shape"}
      /\ p.center = center /\ p.strength = strength /\ p.shape = shape
      /\ shape[2] = "sphere" => p.radius = radius
      BY <1>2, <1>5, <1>6 DEF Without, LENS_OPTIONS
<1>8. /\ Get(p, "shape", Str("fisheye")) = shape
      /\ Get(p, "center", List(<<Float(50), Float(50)>>)) = center
      BY <1>7 DEF Get, LENS_OPTIONS
<1>9. RangedOk(p, "strength", "lens") /\ Ranged(p, "strength", "lens") = strength
      BY <1>1, <1>7, RangedAgain DEF strength, LENS_OPTIONS
<1>10. shape[2] = "sphere" => RangedOk(p, "radius", "radius") /\ Ranged(p, "radius", "radius") = radius
       BY <1>1, <1>7, RangedAgain DEF radius, LENS_OPTIONS
<1>11. LensAccepts(w)
       BY <1>1, <1>5, <1>6, <1>7, <1>8, <1>9, <1>10 DEF LensAccepts, LENS_OPTIONS
<1>12. LensArguments(w) = a
       BY <1>2, <1>5, <1>6, <1>8, <1>9, <1>10 DEF LensArguments
<1> QED
    BY <1>11, <1>12 DEF LensAgain, a, w

\* A picture in a photo reports where it stands and what it is blurred by.
LEMMA PhotoIsAgain ==
    ASSUME NEW v, PhotoAccepts(v)
    PROVE  PhotoAgain(v)
<1> DEFINE o == Body(v)
           taken == Get(o, "focus", Str("subject"))
           focus == IF taken = Str("subject") THEN taken ELSE AsPoint(taken)
           place == AsPoint(Get(o, "place", PLACE_DEFAULT))
           stand_at == AsPoint(Get(o, "stand_at", Null))
           focal == Get(o, "focal_length", Str("85mm"))
           p == PhotoArguments(v)
           w == PhotoResolved(v)
<1>1. /\ PhotoIdOk(Get(o, "photo", Null))
      /\ taken = Str("subject") \/ IsPoint(taken, 100)
      /\ PointOk(o, "place", PLACE_DEFAULT, PLACE_MAX_Y) /\ PointOk(o, "stand_at", Null, 100)
      /\ \A k \in {"height", "nearer", "f_number", "tilt", "bokeh"} : RangedOk(o, k, k)
      /\ OneOf(focal, {"85mm"})
      BY Zenon DEF PhotoAccepts, FocalOk
<1>2. p = [photo |-> o.photo, place |-> place, stand_at |-> stand_at, focus |-> focus,
           height |-> Ranged(o, "height", "height"), nearer |-> Ranged(o, "nearer", "nearer"),
           f_number |-> Ranged(o, "f_number", "f_number"), tilt |-> Ranged(o, "tilt", "tilt"),
           bokeh |-> Ranged(o, "bokeh", "bokeh"), focal_length |-> focal]
      BY DEF PhotoArguments
<1>3. IsBody(w) /\ Body(w) = p
      BY ObjBody DEF PhotoResolved
<1>4. PhotoIdOk(o.photo)
  <2>1. ~PhotoIdOk(Null)
        BY Contents DEF PhotoIdOk, Is
  <2> QED
      BY <1>1, <2>1 DEF Get
<1>5. /\ focus = Str("subject") \/ IsPoint(focus, 100)
      /\ focus = IF focus = Str("subject") THEN focus ELSE AsPoint(focus)
  <2>1. CASE taken = Str("subject")
        BY <2>1
  <2>2. CASE taken # Str("subject")
    <3>1. focus = AsPoint(taken) /\ IsPoint(taken, 100) /\ taken # Null
          BY <1>1, <2>2, Contents DEF IsPoint, ListOf, IsList, Is
    <3> QED
        BY <3>1, PointAgain
  <2> QED
      BY <2>1, <2>2
<1> HIDE DEF taken, focus, focal, w, p
<1>6. /\ DOMAIN p = PHOTO_OPTIONS
      /\ p.photo = o.photo /\ p.place = place /\ p.stand_at = stand_at /\ p.focus = focus
      /\ p.focal_length = focal
      /\ \A k \in {"height", "nearer", "f_number", "tilt", "bokeh"} : p[k] = Ranged(o, k, k)
      BY <1>2 DEF PHOTO_OPTIONS
<1> HIDE DEF o
<1>7. \A k \in {"height", "nearer", "f_number", "tilt", "bokeh"} :
         RangedOk(p, k, k) /\ Ranged(p, k, k) = Ranged(o, k, k)
      BY <1>1, <1>6, RangedAgain DEF PHOTO_OPTIONS
<1>8. /\ PointOk(p, "place", PLACE_DEFAULT, PLACE_MAX_Y)
      /\ AsPoint(Get(p, "place", PLACE_DEFAULT)) = place
      BY <1>1, <1>6, PointOkAgain DEF PHOTO_OPTIONS
<1>9. PointOk(p, "stand_at", Null, 100) /\ AsPoint(Get(p, "stand_at", Null)) = stand_at
      BY <1>1, <1>6, PointOkAgain DEF PHOTO_OPTIONS
<1> HIDE DEF place, stand_at
<1>10. /\ Get(p, "photo", Null) = o.photo /\ Get(p, "focus", Str("subject")) = focus
       /\ Get(p, "focal_length", Str("85mm")) = focal
       BY <1>6 DEF Get, PHOTO_OPTIONS
<1>11. PhotoAccepts(w)
       BY <1>1, <1>3, <1>4, <1>5, <1>6, <1>7, <1>8, <1>9, <1>10 DEF PhotoAccepts, FocalOk
<1>12. PhotoArguments(w) = p
       BY <1>2, <1>3, <1>5, <1>6, <1>7, <1>8, <1>9, <1>10 DEF PhotoArguments
<1> QED
    BY <1>11, <1>12 DEF PhotoAgain, p, w

(* ------------------------------- deliveries ----------------------------- *)
\* What is said of each value of a list makes a list of as many.
LEMMA MappedList ==
    ASSUME NEW v, IsList(v), NEW f, f = [i \in DOMAIN v[2] |-> f[i]]
    PROVE  /\ IsList(List(f)) /\ List(f)[2] = f
           /\ Len(f) = Len(v[2]) /\ DOMAIN f = DOMAIN v[2] /\ Len(f) \in Nat
<1> DEFINE s == v[2]
           T == {f[i] : i \in DOMAIN f}
<1>1. s \in Seq({s[i] : i \in DOMAIN s})
      BY DEF IsList
<1> HIDE DEF s
<1>2. Len(s) \in Nat /\ DOMAIN s = 1..Len(s)
      BY <1>1, LenProperties
<1>3. f = [i \in 1..Len(s) |-> f[i]] /\ DOMAIN f = 1..Len(s)
      BY <1>2 DEF s
<1>4. f \in [1..Len(s) -> T]
      BY <1>3
<1>5. f \in Seq(T) /\ Len(f) = Len(s)
  <2>1. f \in Seq(T)
        BY <1>2, <1>4, IsASeq
  <2> QED
      BY <1>2, <1>3, <2>1, LenProperties
<1>6. List(f)[1] = "list" /\ List(f)[2] = f
      BY Contents
<1>7. IsList(List(f))
      BY <1>5, <1>6 DEF IsList, Is
<1> QED
    BY <1>2, <1>3, <1>5, <1>6, <1>7 DEF s

\* A band is taken back as it is reported, in lower case and in floats.
Reported(v) == Obj([color |-> AsHex(v[2].color), width |-> AsFloat(v[2].width)])

\* It is the same band when it is taken again.
LEMMA OutlineAgain ==
    ASSUME NEW v, OutlineOk(v)
    PROVE  OutlineOk(Reported(v)) /\ Reported(Reported(v)) = Reported(v)
<1> DEFINE c == AsHex(v[2].color)
           x == AsFloat(v[2].width)
           r == [color |-> c, width |-> x]
<1>1. Within(v[2].width, 1, 500) /\ IsHex(v[2].color)
      BY DEF OutlineOk
<1>2. Within(x, 1, 500) /\ AsFloat(x) = x /\ IsHex(c) /\ AsHex(c) = c
      BY <1>1, FloatAgain, HexAgain
<1>3. Reported(v) = Obj(r)
      BY DEF Reported
<1> HIDE DEF c, x
<1>4. DOMAIN r = {"color", "width"} /\ r.color = c /\ r.width = x
      OBVIOUS
<1> HIDE DEF r
<1>5. Obj(r)[2] = r /\ IsObj(Obj(r))
      BY ObjBody
<1>6. OutlineOk(Obj(r))
      BY <1>2, <1>4, <1>5 DEF OutlineOk
<1>7. Reported(Obj(r)) = Obj([color |-> c, width |-> x])
      BY <1>2, <1>4, <1>5 DEF Reported
<1> QED
    BY <1>3, <1>6, <1>7 DEF r

\* So are all the bands of a delivery, the default ones too.
LEMMA OutlinesAgain ==
    ASSUME NEW v, OutlinesOk(v)
    PROVE  OutlinesOk(OutlinesOf(v)) /\ OutlinesOf(OutlinesOf(v)) = OutlinesOf(v)
<1>1. ASSUME NEW u, IsList(u), Len(u[2]) <= OUTLINES_MAX, \A i \in DOMAIN u[2] : OutlineOk(u[2][i])
      PROVE  LET w == List([i \in DOMAIN u[2] |-> Reported(u[2][i])])
             IN  /\ w # Null /\ OutlinesOk(w) /\ OutlinesOf(w) = w
                 /\ OutlinesOf(u) = w
  <2> DEFINE f == [i \in DOMAIN u[2] |-> Reported(u[2][i])]
             w == List(f)
  <2>1. \A i \in DOMAIN u[2] : f[i] = Reported(u[2][i])
        OBVIOUS
  <2>2. f = [i \in DOMAIN u[2] |-> f[i]]
        OBVIOUS
  <2>3. u # Null /\ OutlinesOf(u) = w
        BY <1>1, Contents DEF IsList, Is, OutlinesOf, Reported
  <2> HIDE DEF f
  <2>4. IsList(w) /\ w[2] = f /\ Len(f) = Len(u[2]) /\ DOMAIN f = DOMAIN u[2]
        BY <1>1, <2>2, MappedList
  <2>5. w # Null
        BY Contents
  <2> HIDE DEF w
  <2>6. \A i \in DOMAIN f : OutlineOk(f[i]) /\ Reported(f[i]) = f[i]
        BY <1>1, <2>1, <2>4, OutlineAgain
  <2>7. OutlinesOk(w)
        BY <1>1, <2>4, <2>6 DEF OutlinesOk
  <2>8. OutlinesOf(w) = List([i \in DOMAIN f |-> Reported(f[i])])
        BY <2>4, <2>5 DEF OutlinesOf, Reported
  <2>9. [i \in DOMAIN f |-> Reported(f[i])] = f
        BY <2>2, <2>4, <2>6
  <2> QED
      BY <2>3, <2>5, <2>7, <2>8, <2>9 DEF w, f
<1>2. CASE v = Null
  <2> DEFINE a == Band("#ffffff", 80)
             b == Band("#885b80", 104)
             u == List(<<a, b>>)
  <2>1. OutlinesOf(v) = u
        BY <1>2 DEF OutlinesOf, DELIVER_DEFAULTS
  <2>2. ASSUME NEW colour \in LowerHex, NEW width \in 1..500
        PROVE  /\ OutlineOk(Band(colour, width))
               /\ colour \notin DOMAIN LowerOf => Reported(Band(colour, width)) = Band(colour, width)
    <3> DEFINE r == [color |-> Str(colour), width |-> Float(width)]
    <3>1. Band(colour, width) = Obj(r)
          BY DEF Band
    <3>2. DOMAIN r = {"color", "width"} /\ r.color = Str(colour) /\ r.width = Float(width)
          OBVIOUS
    <3> HIDE DEF r
    <3>3. Obj(r)[2] = r /\ IsObj(Obj(r))
          BY ObjBody
    <3>4. OutlineOk(Obj(r))
          BY <2>2, <3>2, <3>3, Contents DEF OutlineOk, Within, IsNumber, IsHex, OneOf, Is
    <3>5. colour \notin DOMAIN LowerOf => AsHex(r.color) = Str(colour)
          BY <3>2, Contents DEF AsHex
    <3>6. AsFloat(r.width) = Float(width)
          BY <3>2, Contents DEF AsFloat
    <3>7. colour \notin DOMAIN LowerOf =>
             Reported(Obj(r)) = Obj([color |-> Str(colour), width |-> Float(width)])
          BY <3>3, <3>5, <3>6 DEF Reported
    <3> QED
        BY <3>1, <3>4, <3>7 DEF r
  <2>3. /\ OutlineOk(a) /\ OutlineOk(b) /\ Reported(a) = a /\ Reported(b) = b
    <3>1. /\ "#ffffff" \in LowerHex /\ "#885b80" \in LowerHex
          /\ "#ffffff" \notin DOMAIN LowerOf /\ "#885b80" \notin DOMAIN LowerOf
          BY DEF LowerHex, LowerOf
    <3>2. 80 \in 1..500 /\ 104 \in 1..500
          OBVIOUS
    <3> QED
        BY <2>2, <3>1, <3>2
  <2> HIDE DEF a, b
  <2>4. ListOf(u, 2) /\ u[2] = <<a, b>>
        BY Lists, Contents
  <2>5. Len(u[2]) = 2 /\ DOMAIN u[2] = 1..2 /\ u[2][1] = a /\ u[2][2] = b
        BY <2>4
  <2> HIDE DEF u
  <2>6. \A i \in DOMAIN u[2] : OutlineOk(u[2][i]) /\ Reported(u[2][i]) = u[2][i]
        BY <2>3, <2>5
  <2>7. IsList(u) /\ Len(u[2]) <= OUTLINES_MAX
        BY <2>4, <2>5, LimitsAssumption DEF ListOf
  <2>8. List([i \in DOMAIN u[2] |-> Reported(u[2][i])]) = u
    <3>1. [i \in DOMAIN u[2] |-> Reported(u[2][i])] = <<a, b>>
          BY <2>4, <2>5, <2>6
    <3> QED
        BY <3>1 DEF u
  <2> QED
      BY <1>1, <2>1, <2>6, <2>7, <2>8
<1>3. CASE v # Null
      BY <1>1, <1>3 DEF OutlinesOk
<1> QED
    BY <1>2, <1>3

\* What is laid over an object takes the place of its keys, and leaves the others.
LEMMA MergedOver ==
    ASSUME NEW o, NEW over
    PROVE  LET p == Merge(over, o)
           IN  /\ DOMAIN p = DOMAIN o \cup DOMAIN over
               /\ \A k \in DOMAIN p : p[k] = IF k \in DOMAIN over THEN over[k] ELSE o[k]
BY DEF Merge

DeliverAgain(v) ==
    DeliverAccepts(DeliverResolved(v)) /\ DeliverArguments(DeliverResolved(v)) = DeliverArguments(v)

\* A delivery reports what it was asked for and the bands it was given.
LEMMA DeliverIsAgain ==
    ASSUME NEW v, DeliverAccepts(v)
    PROVE  DeliverAgain(v)
<1> DEFINE o == Body(v)
           given == Get(o, "outlines", Null)
           outlines == OutlinesOf(given)
           w == DeliverResolved(v)
           over == [outlines |-> outlines]
           p == Merge(over, o)
<1>1. OutlinesOk(given)
      BY DEF DeliverAccepts
<1>2. OutlinesOk(outlines) /\ OutlinesOf(outlines) = outlines
      BY <1>1, OutlinesAgain
<1>3. w = Obj(p)
  <2>1. DeliverArguments(v).outlines = outlines
        BY DEF DeliverArguments
  <2> QED
      BY <2>1 DEF DeliverResolved
<1>4. IsBody(w) /\ Body(w) = p
      BY <1>3, ObjBody
<1>5. /\ DOMAIN p = DOMAIN o \cup {"outlines"}
      /\ \A k, d : k # "outlines" => Get(p, k, d) = Get(o, k, d)
      /\ \A k \in DOMAIN o : k # "outlines" => p[k] = o[k]
      /\ Get(p, "outlines", Null) = outlines
  <2>1. DOMAIN over = {"outlines"} /\ over["outlines"] = outlines
        OBVIOUS
  <2> HIDE DEF o, outlines
  <2>3. /\ DOMAIN p = DOMAIN o \cup DOMAIN over
        /\ \A k \in DOMAIN p : p[k] = IF k \in DOMAIN over THEN over[k] ELSE o[k]
        BY MergedOver
  <2> HIDE DEF p, over
  <2> QED
      BY <2>1, <2>3 DEF Get
<1> DEFINE no == Bool(FALSE)
<1> HIDE DEF o, p, w, outlines, no
<1>6. /\ Get(p, "transparent", Null) = Get(o, "transparent", Null)
      /\ Get(p, "see_through", Null) = Get(o, "see_through", Null)
      /\ Get(p, "keep_scene", no) = Get(o, "keep_scene", no)
      /\ Get(p, "backdrop", Null) = Get(o, "backdrop", Null)
      /\ Get(p, "light", Null) = Get(o, "light", Null)
      /\ Get(p, "stroke_light", Null) = Get(o, "stroke_light", Null)
      BY <1>5
<1>7. /\ "backdrop" \in DOMAIN p <=> "backdrop" \in DOMAIN o
      /\ "backdrop" \in DOMAIN o => p.backdrop = o.backdrop
      /\ "stroke_light" \in DOMAIN p <=> "stroke_light" \in DOMAIN o
      /\ "stroke_light" \in DOMAIN o => p.stroke_light = o.stroke_light
      BY <1>5
<1>8. DeliverStroke(p) = DeliverStroke(o)
      BY <1>6, <1>7 DEF DeliverStroke
<1>9. DOMAIN o \subseteq DELIVER_OPTIONS => DOMAIN p \subseteq DELIVER_OPTIONS
      BY <1>5 DEF DELIVER_OPTIONS
<1>10. DeliverAccepts(w)
  <2> DEFINE rest(q) ==
                 /\ Get(q, "transparent", Null) = Null \/ IsBool(Get(q, "transparent", Null))
                 /\ IsBool(Get(q, "keep_scene", no))
                 /\ Get(q, "backdrop", Null) = Null \/ IsBackdrop(Get(q, "backdrop", Null))
                 /\ LightOk(Get(q, "light", Null))
                 /\ \/ Get(q, "stroke_light", Null) = Null
                    \/ OneOf(Get(q, "stroke_light", Null), STROKE_CHOICES)
                 /\ LightOf(Get(q, "light", Null)) # <<>> /\ OneOf(DeliverStroke(q), DIRECTIONS) =>
                        DeliverStroke(q)[2] = LightOf(Get(q, "light", Null))[2]
                 /\ \/ Get(q, "see_through", Null) = Null
                    \/ Within(Get(q, "see_through", Null), 100, 500)
  <2>1. DOMAIN o \subseteq DELIVER_OPTIONS /\ rest(o)
        BY Zenon DEF DeliverAccepts, o, no
  <2>2. DeliverAccepts(w) <=>
            /\ IsBody(w) /\ DOMAIN Body(w) \subseteq DELIVER_OPTIONS /\ rest(Body(w))
            /\ OutlinesOk(Get(Body(w), "outlines", Null))
        BY Zenon DEF DeliverAccepts, no
  <2>3. rest(p) <=> rest(o)
        BY <1>6, <1>8
  <2> HIDE DEF rest
  <2> QED
      BY <1>2, <1>4, <1>5, <1>9, <2>1, <2>2, <2>3
<1>11. DeliverArguments(w) = DeliverArguments(v)
  <2> DEFINE asked(q) == IF Get(q, "transparent", Null) = Null
                         THEN "backdrop" \in DOMAIN q /\ q.backdrop = Null
                         ELSE Get(q, "transparent", Null)[2]
             clear(q) == asked(q) /\ ~Get(q, "keep_scene", no)[2]
             backdrop(q) == IF "backdrop" \in DOMAIN q THEN q.backdrop
                            ELSE IF clear(q) THEN Null ELSE Str(DELIVER_DEFAULTS.backdrop)
             see_through(q) == IF Get(q, "see_through", Null) = Null THEN Float(100)
                               ELSE AsFloat(Get(q, "see_through", Null))
             args(k, t, b, s, l, i, x) ==
                 [keep_scene |-> k, transparent |-> t, backdrop |-> b, stroke_light |-> s,
                  outlines |-> l, light |-> i, see_through |-> x]
  <2>1. \A u : DeliverArguments(u) =
                  args(Get(Body(u), "keep_scene", no)[2], clear(Body(u)), backdrop(Body(u)),
                       DeliverStroke(Body(u)), OutlinesOf(Get(Body(u), "outlines", Null)),
                       LightOf(Get(Body(u), "light", Null)), see_through(Body(u)))
        BY Zenon DEF DeliverArguments, no
  <2>2. clear(p) = clear(o)
        BY <1>6, <1>7, Zenon
  <2>3. backdrop(p) = backdrop(o)
        BY <1>7, <2>2, Zenon
  <2>4. see_through(p) = see_through(o)
        BY <1>6, Zenon
  <2> HIDE DEF args, clear, backdrop, see_through
  <2> QED
      BY <1>2, <1>4, <1>5, <1>6, <1>8, <2>1, <2>2, <2>3, <2>4, Zenon DEF o, outlines
<1> QED
    BY <1>10, <1>11 DEF DeliverAgain, w

(* ---------------------------------- dof --------------------------------- *)
\* A whole scope is what it was, laid over the default again.
LEMMA ScopeAgain ==
    ASSUME NEW v, v = Null \/ IsObj(v),
           v # Null => /\ DOMAIN v[2] \subseteq DOMAIN DOF_SCOPE
                       /\ \A k \in DOMAIN v[2] : IsBool(v[2][k])
    PROVE  /\ ScopeOf(Obj(ScopeOf(v))) = ScopeOf(v)
           /\ DOMAIN ScopeOf(v) = DOMAIN DOF_SCOPE
           /\ \A k \in DOMAIN DOF_SCOPE : IsBool(ScopeOf(v)[k])
<1> DEFINE yes == Bool(TRUE)
           K == {"figure", "outline", "backdrop"}
           all == [figure |-> yes, outline |-> yes, backdrop |-> yes]
           given == IF v = Null THEN <<>> ELSE v[2]
           s == ScopeOf(v)
<1>1. DOF_SCOPE = all
      BY DEF DOF_SCOPE
<1>2. IsBool(yes)
      BY Zenon, Contents DEF IsBool, Is
<1>3. DOMAIN given \subseteq K /\ \A k \in DOMAIN given : IsBool(given[k])
  <2> HIDE DEF yes
  <2>1. DOMAIN all = K
        OBVIOUS
  <2> QED
      BY <1>1, <2>1
<1>4. s = Merge(given, all)
      BY <1>1, Zenon DEF ScopeOf
<1> HIDE DEF yes, given
<1>5. DOMAIN all = K /\ \A k \in K : all[k] = yes
      OBVIOUS
<1> HIDE DEF all
<1>6. s = [k \in K |-> IF k \in DOMAIN given THEN given[k] ELSE all[k]]
      BY <1>3, <1>4, <1>5 DEF Merge
<1> HIDE DEF s
<1>7. DOMAIN s = K /\ \A k \in K : IsBool(s[k])
      BY <1>2, <1>3, <1>5, <1>6
<1>8. Merge(s, all) = [k \in K |-> s[k]]
      BY <1>5, <1>7 DEF Merge
<1>9. ScopeOf(Obj(s)) = Merge(s, all)
      BY <1>1, Contents DEF ScopeOf
<1>10. [k \in K |-> s[k]] = s
       BY <1>6
<1>11. ScopeOf(Obj(s)) = s
       BY <1>8, <1>9, <1>10
<1> QED
    BY <1>1, <1>5, <1>7, <1>11, Zenon DEF s

DofAgain(v) ==
    DofAccepts(DofResolved(v)) /\ DofArguments(DofResolved(v)) = DofArguments(v)

\* A blur reports how a photo is blurred only where it was asked for.
LEMMA DofIsAgain ==
    ASSUME NEW v, DofAccepts(v)
    PROVE  DofAgain(v)
<1> DEFINE o == Body(v)
           on == DOMAIN o \cap DOF_PHOTO_OPTIONS # {}
           given == Get(o, "scope", Null)
           scope == ScopeOf(given)
           focus == AsPoint(o.focus)
           f_number == Ranged(o, "f_number", "f_number")
           view == Get(o, "viewfinder", Str("off"))[2]
           focal == Get(o, "focal_length", Str("85mm"))
           blur == [stand_at |-> AsPoint(Get(o, "stand_at", Null)),
                    nearer |-> Ranged(o, "nearer", "nearer"), tilt |-> Ranged(o, "tilt", "tilt"),
                    bokeh |-> Ranged(o, "bokeh", "bokeh"), focal_length |-> focal]
           shot == IF on THEN blur ELSE <<>>
           rest == [focus |-> focus, f_number |-> f_number, scope |-> Obj(scope),
                    viewfinder |-> Str(view)]
           a == DofArguments(v)
           w == DofResolved(v)
           p == Merge(shot, rest)
           Photo(q) == /\ PointOk(q, "stand_at", Null, 100)
                       /\ \A k \in {"nearer", "tilt", "bokeh"} : RangedOk(q, k, k)
                       /\ FocalOk(q)
<1>1. /\ IsPoint(Get(o, "focus", Null), 100)
      /\ RangedOk(o, "f_number", "f_number")
      /\ given = Null \/ IsObj(given)
      /\ given # Null => /\ DOMAIN given[2] \subseteq DOMAIN DOF_SCOPE
                         /\ \A k \in DOMAIN given[2] : IsBool(given[2][k])
      /\ \E k \in DOMAIN DOF_SCOPE : scope[k][2]
      /\ OneOf(Get(o, "viewfinder", Str("off")), VIEWFINDERS)
      /\ on => Photo(o)
      BY Zenon DEF DofAccepts
<1>2. a = [focus |-> focus, f_number |-> f_number, scope |-> scope, viewfinder |-> view,
           photo_blur |-> shot]
      BY DEF DofArguments
<1>3. ScopeOf(Obj(scope)) = scope /\ DOMAIN scope = DOMAIN DOF_SCOPE
      /\ \A k \in DOMAIN DOF_SCOPE : IsBool(scope[k])
  <2> HIDE DEF given
  <2> QED
      BY <1>1, ScopeAgain
<1>4. w = Obj(p)
  <2> HIDE DEF shot
  <2> QED
      BY <1>2 DEF DofResolved
<1>5. IsBody(w) /\ Body(w) = p
      BY <1>4, ObjBody
<1>6. view \in VIEWFINDERS
      BY <1>1 DEF OneOf
<1>7. IsPoint(focus, 100) /\ AsPoint(focus) = focus
  <2>1. Get(o, "focus", Null) # Null
        BY <1>1, Contents DEF IsPoint, ListOf, IsList, Is
  <2>2. o.focus = Get(o, "focus", Null)
        BY <2>1 DEF Get
  <2> QED
      BY <1>1, <2>1, <2>2, PointAgain
<1> HIDE DEF given, scope, focus, view, w, a, o
<1>8. DOMAIN blur = DOF_PHOTO_OPTIONS
      BY DEF DOF_PHOTO_OPTIONS
<1>9. /\ blur.stand_at = AsPoint(Get(o, "stand_at", Null))
      /\ \A k \in {"nearer", "tilt", "bokeh"} : blur[k] = Ranged(o, k, k)
      /\ blur.focal_length = focal
      OBVIOUS
<1>10. /\ DOMAIN rest = {"focus", "f_number", "scope", "viewfinder"}
       /\ rest.focus = focus /\ rest.f_number = f_number /\ rest.scope = Obj(scope)
       /\ rest.viewfinder = Str(view)
       OBVIOUS
<1>11. DOMAIN shot = IF on THEN DOF_PHOTO_OPTIONS ELSE {}
       BY <1>8
<1> HIDE DEF rest, shot
<1>12. /\ DOMAIN p = DOMAIN rest \cup DOMAIN shot
       /\ \A k \in DOMAIN p : p[k] = IF k \in DOMAIN shot THEN shot[k] ELSE rest[k]
       BY MergedOver
<1> HIDE DEF p
<1>13. /\ Get(p, "focus", Null) = focus /\ p.focus = focus
       /\ Get(p, "scope", Null) = Obj(scope) /\ Get(p, "viewfinder", Str("off")) = Str(view)
       /\ "f_number" \in DOMAIN p /\ p.f_number = f_number
       BY <1>10, <1>11, <1>12 DEF Get, DOF_PHOTO_OPTIONS
<1>14. DOMAIN p \subseteq DOF_OPTIONS
       BY <1>10, <1>11, <1>12 DEF DOF_OPTIONS
<1>15. RangedOk(p, "f_number", "f_number") /\ Ranged(p, "f_number", "f_number") = f_number
       BY <1>1, <1>13, RangedAgain DEF f_number
<1>16. DOMAIN p \cap DOF_PHOTO_OPTIONS # {} <=> on
       BY <1>10, <1>11, <1>12 DEF DOF_PHOTO_OPTIONS
<1>17. ASSUME on
       PROVE  /\ Photo(p)
              /\ AsPoint(Get(p, "stand_at", Null)) = AsPoint(Get(o, "stand_at", Null))
              /\ \A k \in {"nearer", "tilt", "bokeh"} : Ranged(p, k, k) = Ranged(o, k, k)
              /\ Get(p, "focal_length", Str("85mm")) = focal
  <2> HIDE DEF blur
  <2>1. \A k \in DOF_PHOTO_OPTIONS : k \in DOMAIN p /\ p[k] = blur[k]
        BY <1>11, <1>12, <1>17 DEF shot
  <2>2. "stand_at" \in DOMAIN p /\ p["stand_at"] = AsPoint(Get(o, "stand_at", Null))
        BY <1>9, <2>1 DEF DOF_PHOTO_OPTIONS
  <2>3. /\ PointOk(p, "stand_at", Null, 100)
        /\ AsPoint(Get(p, "stand_at", Null)) = AsPoint(Get(o, "stand_at", Null))
        BY <1>1, <1>17, <2>2, PointOkAgain
  <2>4. \A k \in {"nearer", "tilt", "bokeh"} :
           RangedOk(p, k, k) /\ Ranged(p, k, k) = Ranged(o, k, k)
        BY <1>1, <1>9, <1>17, <2>1, RangedAgain DEF DOF_PHOTO_OPTIONS
  <2>5. Get(p, "focal_length", Str("85mm")) = focal
        BY <1>9, <2>1 DEF Get, DOF_PHOTO_OPTIONS
  <2>6. FocalOk(p)
        BY <1>1, <1>17, <2>5 DEF FocalOk
  <2> QED
      BY <2>3, <2>4, <2>5, <2>6
<1>18. /\ Obj(scope) = Null \/ IsObj(Obj(scope))
       /\ DOMAIN Obj(scope)[2] \subseteq DOMAIN DOF_SCOPE
       /\ \A k \in DOMAIN Obj(scope)[2] : IsBool(Obj(scope)[2][k])
  <2>1. Obj(scope)[2] = scope /\ IsObj(Obj(scope))
        BY ObjBody
  <2> QED
      BY <1>3, <2>1, Zenon
<1>19. OneOf(Str(view), VIEWFINDERS) /\ Str(view)[2] = view
       BY <1>6, Contents DEF OneOf, Is
<1>20. DofAccepts(w)
  <2> DEFINE rest2(q) ==
                 LET sc == Get(q, "scope", Null)
                 IN  /\ DOMAIN q \subseteq DOF_OPTIONS
                     /\ IsPoint(Get(q, "focus", Null), 100)
                     /\ RangedOk(q, "f_number", "f_number")
                     /\ sc = Null \/ IsObj(sc)
                     /\ sc # Null => /\ DOMAIN sc[2] \subseteq DOMAIN DOF_SCOPE
                                     /\ \A k \in DOMAIN sc[2] : IsBool(sc[2][k])
                     /\ \E k \in DOMAIN DOF_SCOPE : ScopeOf(sc)[k][2]
                     /\ OneOf(Get(q, "viewfinder", Str("off")), VIEWFINDERS)
                     /\ DOMAIN q \cap DOF_PHOTO_OPTIONS # {} => Photo(q)
  <2>1. DofAccepts(w) <=> IsBody(w) /\ rest2(Body(w))
        BY Zenon DEF DofAccepts
  <2> HIDE DEF Photo, on
  <2>2. rest2(p)
        BY <1>1, <1>3, <1>7, <1>13, <1>14, <1>15, <1>16, <1>17, <1>18, <1>19, Zenon
  <2> HIDE DEF rest2
  <2> QED
      BY <1>5, <2>1, <2>2
<1>21. DofArguments(w) = a
  <2> DEFINE blur2 == [stand_at |-> AsPoint(Get(p, "stand_at", Null)),
                       nearer |-> Ranged(p, "nearer", "nearer"), tilt |-> Ranged(p, "tilt", "tilt"),
                       bokeh |-> Ranged(p, "bokeh", "bokeh"),
                       focal_length |-> Get(p, "focal_length", Str("85mm"))]
             shot2 == IF DOMAIN p \cap DOF_PHOTO_OPTIONS = {} THEN <<>> ELSE blur2
  <2>1. shot2 = shot
    <3>1. on => blur2 = blur
          BY <1>17
    <3> HIDE DEF blur, blur2, on
    <3> QED
        BY <1>16, <3>1 DEF shot
  <2>2. DofArguments(w) = [focus |-> AsPoint(p.focus), f_number |-> Ranged(p, "f_number", "f_number"),
                           scope |-> ScopeOf(Get(p, "scope", Null)),
                           viewfinder |-> Get(p, "viewfinder", Str("off"))[2],
                           photo_blur |-> shot2]
        BY <1>5 DEF DofArguments
  <2> HIDE DEF shot2
  <2> QED
      BY <1>2, <1>3, <1>7, <1>13, <1>15, <1>19, <2>1, <2>2
<1> QED
    BY <1>20, <1>21 DEF DofAgain, a, w

(* -------------------------------- redraw -------------------------------- *)
RedrawAgain(v, recipe) ==
    /\ RedrawAccepts(RedrawResolved(v, recipe), recipe)
    /\ RedrawArguments(RedrawResolved(v, recipe), recipe) = RedrawArguments(v, recipe)

\* A dial that is accepted becomes a number, which is dialled no more.
LEMMA DialAgain ==
    ASSUME NEW v, NEW recipe, DialOk(v, recipe)
    PROVE  LET d == Dialled(v, recipe)
               x == IF d = Null THEN Null ELSE AsFloat(d)
           IN  /\ DialOk(x, recipe) /\ Dialled(x, recipe) = x
               /\ (IF x = Null THEN Null ELSE AsFloat(x)) = x
               /\ d = Null \/ DenoiseOk(d) => x = Null \/ DenoiseOk(x)
<1> DEFINE d == Dialled(v, recipe)
           x == IF d = Null THEN Null ELSE AsFloat(d)
           goal == /\ DialOk(x, recipe) /\ Dialled(x, recipe) = x
                   /\ (IF x = Null THEN Null ELSE AsFloat(x)) = x
                   /\ d = Null \/ DenoiseOk(d) => x = Null \/ DenoiseOk(x)
<1> SUFFICES goal
    OBVIOUS
<1> HIDE DEF d
<1>1. CASE d = Null
      BY <1>1, Contents DEF DialOk, Dialled, Is
<1>2. CASE d # Null
  <2>1. x = AsFloat(d)
        BY <1>2
  <2> HIDE DEF x
  <2>2. x[1] = "float" /\ x # Null /\ AsFloat(x) = x /\ (DenoiseOk(d) => DenoiseOk(x))
        BY <2>1, FloatAgain, Contents DEF DenoiseOk
  <2>3. DialOk(x, recipe) /\ Dialled(x, recipe) = x
        BY <2>2 DEF DialOk, Dialled, Is
  <2> QED
      BY <1>2, <2>2, <2>3 DEF x
<1> QED
    BY <1>1, <1>2

\* A redraw reports its own options, a dial as the number it became.
LEMMA RedrawIsAgain ==
    ASSUME NEW v, NEW recipe, RedrawAccepts(v, recipe)
    PROVE  RedrawAgain(v, recipe)
<1> DEFINE o == v[2]
           w == RedrawResolved(v, recipe)
           p == w[2]
           method == Get(o, "method", Null)
           no == Bool(FALSE)
           standard == IF method[2] = "hires" THEN Float(45) ELSE Null
           denoise == Dialled(Get(o, "denoise", standard), recipe)
           dialled == IF denoise = Null THEN Null ELSE AsFloat(denoise)
           lightish(q) == Obj(Without(Merge(q, [scene |-> Null]), {"method", "cut"}))
           hiresish(q) == /\ Is(Get(q, "hires", Null), "int") /\ q.hires[2] > 0
                          /\ DenoiseOk(Get(q, "denoise", Float(45)))
           M == {"canvas", "hires", "light"}
<1>1. /\ OneOf(method, DOMAIN REDRAW_OPTIONS)
      /\ DOMAIN o \subseteq REDRAW_OPTIONS[method[2]] \cup {"method", "cut"}
      /\ IsBool(Get(o, "cut", no))
      /\ method[2] = "light"  => LightOk(lightish(o))
      /\ method[2] = "hires"  => hiresish(o)
      /\ method[2] = "canvas" => CanvasOk(o, recipe)
  <2>1. /\ OneOf(method, DOMAIN REDRAW_OPTIONS)
        /\ DOMAIN o \subseteq REDRAW_OPTIONS[method[2]] \cup {"method", "cut"}
        /\ IsBool(Get(o, "cut", no))
        /\ CASE method[2] = "light"  -> LightOk(lightish(o))
             [] method[2] = "hires"  -> hiresish(o)
             [] method[2] = "canvas" -> CanvasOk(o, recipe)
        BY Zenon DEF RedrawAccepts
  <2> HIDE DEF lightish, hiresish, method, no, o
  <2> QED
      BY <2>1
<1>2. method[2] \in M /\ DOMAIN REDRAW_OPTIONS = M
      BY <1>1 DEF OneOf, REDRAW_OPTIONS
<1>3. "method" \in DOMAIN o /\ o.method = method
      BY <1>1, Contents DEF OneOf, Is, Get
<1>4. RedrawArguments(v, recipe).denoise = dialled
      BY <1>3 DEF RedrawArguments
<1>5. w = Obj([k \in DOMAIN o |-> IF k = "denoise" THEN dialled ELSE o[k]])
      BY <1>4 DEF RedrawResolved
<1>6. IsObj(w) /\ p = [k \in DOMAIN o |-> IF k = "denoise" THEN dialled ELSE o[k]]
      BY <1>5, ObjBody
<1> HIDE DEF o, w, p, no, dialled, denoise, method
<1>7. /\ DOMAIN p = DOMAIN o
      /\ \A k \in DOMAIN o : k # "denoise" => p[k] = o[k]
      /\ "denoise" \in DOMAIN o => p.denoise = dialled
      BY <1>6
<1>8. /\ \A k, d : k # "denoise" => Get(p, k, d) = Get(o, k, d)
      /\ \A d : Get(p, "denoise", d) = IF "denoise" \in DOMAIN o THEN dialled ELSE d
      BY <1>7 DEF Get
<1>9. method[2] = "light" =>
         /\ lightish(p) = lightish(o)
         /\ Obj(Without(p, {"method", "cut"})) = Obj(Without(o, {"method", "cut"}))
  <2> SUFFICES ASSUME method[2] = "light"
               PROVE  /\ lightish(p) = lightish(o)
                      /\ Obj(Without(p, {"method", "cut"})) = Obj(Without(o, {"method", "cut"}))
      OBVIOUS
  <2> DEFINE s == [scene |-> Null]
  <2>1. \A k \in DOMAIN o : p[k] = o[k]
    <3>1. "denoise" \notin DOMAIN o
          BY <1>1 DEF REDRAW_OPTIONS
    <3> QED
        BY <1>7, <3>1
  <2> HIDE DEF s
  <2>2. Without(p, {"method", "cut"}) = Without(o, {"method", "cut"})
        BY <1>7, <2>1 DEF Without
  <2>3. Merge(p, s) = Merge(o, s)
        BY <1>7, <2>1 DEF Merge
  <2> QED
      BY <2>2, <2>3 DEF s
<1>10. /\ Get(p, "method", Null) = method /\ p.method = method
       /\ Get(p, "cut", no) = Get(o, "cut", no)
       BY <1>3, <1>7, <1>8 DEF method
\* A dial is one of a canvas redraw's; hires has a number already.
<1>11. method[2] \in {"canvas", "hires"} => DialOk(Get(o, "denoise", standard), recipe)
  <2>1. ASSUME method[2] = "hires"
        PROVE  DialOk(Get(o, "denoise", Float(45)), recipe)
        BY <1>1, <2>1 DEF DenoiseOk, Within, IsNumber, DialOk, Is
  <2>2. ASSUME method[2] = "canvas"
        PROVE  DialOk(Get(o, "denoise", Null), recipe)
        BY <1>1, <2>2, Zenon DEF CanvasOk
  <2> QED
      BY <2>1, <2>2
<1>12. ASSUME method[2] \in {"canvas", "hires"}
       PROVE  /\ DialOk(dialled, recipe) /\ Dialled(dialled, recipe) = dialled
              /\ (IF dialled = Null THEN Null ELSE AsFloat(dialled)) = dialled
              /\ denoise = Null \/ DenoiseOk(denoise) => dialled = Null \/ DenoiseOk(dialled)
       BY <1>11, <1>12, DialAgain DEF dialled, denoise
<1>13. ASSUME method[2] = "hires"
       PROVE  hiresish(p)
  <2>1. /\ Is(Get(o, "hires", Null), "int") /\ o.hires[2] > 0
        /\ DenoiseOk(Get(o, "denoise", Float(45)))
        BY <1>1, <1>13
  <2>2. Get(p, "hires", Null) = Get(o, "hires", Null)
        BY <1>8
  <2>3. "hires" \in DOMAIN o
        BY <2>1, Contents DEF Get, Is
  <2>4. p.hires = o.hires
        BY <1>7, <2>3
  <2>5. denoise = Get(o, "denoise", Float(45)) /\ denoise # Null /\ dialled = AsFloat(denoise)
    <3>1. denoise = Dialled(Get(o, "denoise", Float(45)), recipe)
          BY <1>13 DEF denoise
    <3>2. denoise = Get(o, "denoise", Float(45)) /\ denoise # Null
          BY <2>1, <3>1, Contents DEF DenoiseOk, Within, IsNumber, Dialled, Is
    <3> QED
        BY <3>2 DEF dialled
  <2>6. DenoiseOk(dialled) /\ DenoiseOk(Float(45))
        BY <2>1, <2>5, FloatAgain, Contents DEF DenoiseOk, Within, IsNumber
  <2>7. DenoiseOk(Get(p, "denoise", Float(45)))
        BY <1>8, <2>6
  <2> QED
      BY <2>1, <2>2, <2>4, <2>7
<1>14. ASSUME method[2] = "canvas"
       PROVE  CanvasOk(p, recipe)
  <2> DEFINE rest(q) ==
                 /\ Get(q, "route", Null) \in {Null, Str("latent"), Str("pixel")}
                 /\ Get(q, "finalizer", Null)[1] \in {"null", "str"}
                 /\ NullOrInt(Get(q, "size", Null))
                 /\ \/ Get(q, "upscale", Null) = Null
                    \/ OneOf(q.upscale, {"bicubic", "nearest-exact", "bilinear", "lanczos"})
                 /\ RegionsOk(Get(q, "keep_regions", List(<<>>)))
                 /\ KeepStrengthOk(Get(q, "keep_strength", Float(25)))
             dial(x) == DialOk(x, recipe)
             drawn(x) == x = Null \/ DenoiseOk(x)
  <2>1. \A q : CanvasOk(q, recipe) <=>
                   /\ dial(Get(q, "denoise", Null))
                   /\ drawn(Dialled(Get(q, "denoise", Null), recipe))
                   /\ rest(q)
        BY Zenon DEF CanvasOk
  <2>2. rest(p) <=> rest(o)
    <3>1. Get(o, "upscale", Null) # Null => p.upscale = o.upscale
          BY <1>7 DEF Get
    <3>2. /\ Get(p, "route", Null) = Get(o, "route", Null)
          /\ Get(p, "finalizer", Null) = Get(o, "finalizer", Null)
          /\ Get(p, "size", Null) = Get(o, "size", Null)
          /\ Get(p, "upscale", Null) = Get(o, "upscale", Null)
          /\ Get(p, "keep_regions", List(<<>>)) = Get(o, "keep_regions", List(<<>>))
          /\ Get(p, "keep_strength", Float(25)) = Get(o, "keep_strength", Float(25))
          BY <1>8
    <3> QED
        BY <3>1, <3>2
  <2> HIDE DEF rest
  <2>3. /\ dial(Get(o, "denoise", Null)) /\ drawn(denoise) /\ rest(o)
    <3>1. denoise = Dialled(Get(o, "denoise", Null), recipe)
          BY <1>14 DEF denoise
    <3> QED
        BY <1>1, <1>14, <2>1, <3>1
  <2>4. drawn(dialled) /\ dial(dialled) /\ Dialled(dialled, recipe) = dialled
        BY <1>12, <1>14, <2>3
  <2>5. dial(Get(p, "denoise", Null)) /\ drawn(Dialled(Get(p, "denoise", Null), recipe))
    <3>1. CASE "denoise" \in DOMAIN o
          BY <1>8, <2>4, <3>1
    <3>2. CASE "denoise" \notin DOMAIN o
      <4>1. Get(p, "denoise", Null) = Get(o, "denoise", Null)
            BY <1>8, <3>2 DEF Get
      <4>2. denoise = Dialled(Get(o, "denoise", Null), recipe)
            BY <1>14 DEF denoise
      <4> QED
          BY <2>3, <4>1, <4>2
    <3> QED
        BY <3>1, <3>2
  <2> QED
      BY <2>1, <2>2, <2>3, <2>5
<1>15. RedrawAccepts(w, recipe)
  <2> DEFINE way(q) ==
                 CASE Get(q, "method", Null)[2] = "light"  -> LightOk(lightish(q))
                   [] Get(q, "method", Null)[2] = "hires"  -> hiresish(q)
                   [] Get(q, "method", Null)[2] = "canvas" -> CanvasOk(q, recipe)
  <2>1. way(p)
    <3> HIDE DEF lightish, hiresish
    <3>1. CASE method[2] = "light"
          BY <1>1, <1>9, <1>10, <3>1
    <3>2. CASE method[2] = "hires"
          BY <1>10, <1>13, <3>2
    <3>3. CASE method[2] = "canvas"
          BY <1>10, <1>14, <3>3
    <3> QED
        BY <1>2, <3>1, <3>2, <3>3
  <2>2. RedrawAccepts(w, recipe) <=>
            /\ IsObj(w)
            /\ OneOf(Get(p, "method", Null), DOMAIN REDRAW_OPTIONS)
            /\ DOMAIN p \subseteq REDRAW_OPTIONS[Get(p, "method", Null)[2]] \cup {"method", "cut"}
            /\ IsBool(Get(p, "cut", no))
            /\ way(p)
        BY Zenon DEF RedrawAccepts, no, p
  <2> HIDE DEF way
  <2> QED
      BY <1>1, <1>6, <1>7, <1>10, <2>1, <2>2
<1>16. RedrawArguments(w, recipe) = RedrawArguments(v, recipe)
  <2> DEFINE light(q) == IF method[2] = "light" THEN LightOf(Obj(Without(q, {"method", "cut"})))
                         ELSE <<>>
             drawn(q) == Dialled(Get(q, "denoise", standard), recipe)
             noise(q) == IF drawn(q) = Null THEN Null ELSE AsFloat(drawn(q))
             args(q) ==
                 [method |-> method[2], cut |-> Get(q, "cut", no)[2], light |-> light(q),
                  denoise |-> noise(q),
                  latent_route |-> Get(q, "route", Null) = Str("latent"),
                  finalizer |-> Get(q, "finalizer", Null),
                  upscale |-> Get(q, "upscale", Null),
                  size |-> Get(q, "size", Null),
                  hires |-> Get(q, "hires", Null),
                  keep_regions |-> Get(q, "keep_regions", List(<<>>)),
                  keep_strength |-> AsFloat(Get(q, "keep_strength", Float(25)))]
  <2>1. RedrawArguments(v, recipe) = args(o)
        BY <1>3, Zenon DEF RedrawArguments, o, no
  <2>2. RedrawArguments(w, recipe) = args(p)
        BY <1>10, Zenon DEF RedrawArguments, p, no
  <2>3. light(p) = light(o)
        BY <1>9
  <2>4. noise(p) = noise(o)
    <3>1. noise(o) = dialled
          BY DEF dialled, denoise
    <3>2. CASE "denoise" \in DOMAIN o
      <4>1. method[2] \in {"canvas", "hires"}
            BY <1>1, <1>2, <3>2 DEF REDRAW_OPTIONS
      <4>2. Get(p, "denoise", standard) = dialled
            BY <1>8, <3>2
      <4> QED
          BY <1>12, <3>1, <4>1, <4>2
    <3>3. CASE "denoise" \notin DOMAIN o
      <4>1. Get(p, "denoise", standard) = Get(o, "denoise", standard)
            BY <1>8, <3>3 DEF Get
      <4> QED
          BY <4>1
    <3> QED
        BY <3>2, <3>3
  <2>5. args(p) = args(o)
    <3> DEFINE latent(q) == Get(q, "route", Null) = Str("latent")
    <3>1. latent(p) = latent(o)
          BY <1>8, Zenon
    <3>2. /\ Get(p, "finalizer", Null) = Get(o, "finalizer", Null)
          /\ Get(p, "size", Null) = Get(o, "size", Null)
          /\ Get(p, "upscale", Null) = Get(o, "upscale", Null)
          /\ Get(p, "hires", Null) = Get(o, "hires", Null)
          /\ Get(p, "keep_regions", List(<<>>)) = Get(o, "keep_regions", List(<<>>))
          /\ Get(p, "keep_strength", Float(25)) = Get(o, "keep_strength", Float(25))
          BY <1>8
    <3> HIDE DEF light, noise
    <3> QED
        BY <1>10, <2>3, <2>4, <3>1, <3>2, Zenon
  <2> QED
      BY <2>1, <2>2, <2>5
<1> QED
    BY <1>15, <1>16 DEF RedrawAgain, w

(* --------------------------------- frames ------------------------------- *)
\* A share of a frame, as a float, is one still.
LEMMA ShareAgain ==
    ASSUME NEW x, FrameShareOk(x)
    PROVE  /\ FrameShareOk(AsFloat(x)) /\ AsFloat(AsFloat(x)) = AsFloat(x)
           /\ AsFloat(x)[2] = x[2] /\ AsFloat(x) # Null
BY FloatAgain, Contents DEF FrameShareOk

\* A box is the same box when it is taken again.
LEMMA RectAgain ==
    ASSUME NEW v, RectOk(v)
    PROVE  RectOk(RectOf(v)) /\ RectOf(RectOf(v)) = RectOf(v)
<1> DEFINE f == [i \in 1..4 |-> AsFloat(v[2][i])]
           w == List([i \in 1..4 |-> f[i]])
<1>1. /\ \A i \in 1..4 : FrameShareOk(v[2][i])
      /\ v[2][1][2] < v[2][3][2] /\ v[2][2][2] < v[2][4][2]
      BY DEF RectOk
<1>2. RectOf(v) = w
  <2>1. [i \in 1..4 |-> f[i]] = f
        OBVIOUS
  <2> QED
      BY <2>1 DEF RectOf
<1>3. \A i \in 1..4 : FrameShareOk(f[i]) /\ AsFloat(f[i]) = f[i] /\ f[i][2] = v[2][i][2]
      BY <1>1, ShareAgain
<1> HIDE DEF f
<1>4. ListOf(w, 4) /\ \A i \in 1..4 : w[2][i] = f[i]
      BY Lists
<1>5. RectOf(w) = w
  <2>1. [i \in 1..4 |-> AsFloat(w[2][i])] = [i \in 1..4 |-> f[i]]
        BY <1>3, <1>4
  <2> QED
      BY <2>1, Zenon DEF RectOf
<1> HIDE DEF w
<1>6. RectOk(w)
      BY <1>1, <1>3, <1>4 DEF RectOk
<1> QED
    BY <1>2, <1>5, <1>6

\* A canvas whose four sides are given is taken back as it is.
LEMMA CanvasAgain ==
    ASSUME NEW f, NEW c, c = List([i \in 1..4 |-> f[i]]),
           \A i \in 1..4 : FrameShareOk(f[i]) /\ AsFloat(f[i]) = f[i],
           f[1][2] < f[3][2], f[2][2] < f[4][2]
    PROVE  CanvasRectOk(c) /\ CanvasRectOf(c) = c
<1>1. ListOf(c, 4) /\ (\A i \in 1..4 : c[2][i] = f[i]) /\ c # Null
      BY Lists, Contents
<1>2. \A i \in 1..4 : c[2][i] # Null
      BY <1>1, FloatAgain
<1>3. CanvasRectOk(c)
      BY <1>1 DEF CanvasRectOk
<1>4. CanvasRectOf(c) = c
  <2>1. [i \in 1..4 |-> IF c[2][i] = Null THEN Null ELSE AsFloat(c[2][i])] = [i \in 1..4 |-> f[i]]
        BY <1>1, <1>2
  <2>2. ~(c = Null \/ \A i \in 1..4 : c[2][i] = Null)
        BY <1>1, <1>2
  <2>3. CanvasRectOf(c) = List([i \in 1..4 |-> IF c[2][i] = Null THEN Null ELSE AsFloat(c[2][i])])
        BY <2>2, Zenon DEF CanvasRectOf
  <2> QED
      BY <2>1, <2>3
<1> QED
    BY <1>3, <1>4

\* An object laid over the defaults of all its keys is all there is.
LEMMA MergedAgain ==
    ASSUME NEW over, NEW under, DOMAIN over \subseteq DOMAIN under
    PROVE  Merge(Merge(over, under), under) = Merge(over, under)
BY DEF Merge

\* The sides of a frame, defaults filled in.
LEMMA SidesAgain ==
    ASSUME NEW s, DOMAIN s \subseteq SIDES,
           \A k \in DOMAIN s : OneOf(s[k], {"cut", "out", "behind"})
    PROVE  LET m == Merge(s, FRAME_SIDE_DEFAULTS)
           IN  /\ DOMAIN m = SIDES /\ \A k \in SIDES : OneOf(m[k], {"cut", "out", "behind"})
               /\ Merge(m, FRAME_SIDE_DEFAULTS) = m
<1> DEFINE d == FRAME_SIDE_DEFAULTS
           m == Merge(s, d)
<1>1. DOMAIN d = SIDES /\ \A k \in SIDES : OneOf(d[k], {"cut", "out", "behind"})
      BY Contents DEF FRAME_SIDE_DEFAULTS, OneOf, Is
<1> HIDE DEF d
<1>2. Merge(m, d) = m
      BY <1>1, MergedAgain
<1>3. DOMAIN m = SIDES /\ \A k \in SIDES : m[k] = IF k \in DOMAIN s THEN s[k] ELSE d[k]
      BY <1>1 DEF Merge
<1> HIDE DEF m
<1>4. \A k \in SIDES : OneOf(m[k], {"cut", "out", "behind"})
      BY <1>1, <1>3
<1> QED
    BY <1>2, <1>3, <1>4 DEF m, d

\* A band of the border, its defaults filled in.
LEMMA BandAgain ==
    ASSUME NEW v, NEW default, {"color", "width"} \subseteq DOMAIN default, BandOk(v, default)
    PROVE  BandOk(BandOf(v, default), default) /\ BandOf(BandOf(v, default), default) = BandOf(v, default)
<1> DEFINE b == Merge(v[2], default)
           c == [b EXCEPT !.color = AsHex(b.color), !.width = AsFloat(b.width)]
           u == Obj(c)
<1>1. CASE BandOf(v, default) = Null
      BY <1>1 DEF BandOk, BandOf
<1>2. CASE BandOf(v, default) # Null
  <2>1. v # Null /\ b.width[2] # 0
        BY <1>2 DEF BandOf
  <2>2. BandOf(v, default) = u
        BY <2>1 DEF BandOf
  <2>3. /\ DOMAIN v[2] \subseteq DOMAIN default
        /\ Within(b.width, 0, 500) /\ IsHex(b.color)
        /\ "pattern" \in DOMAIN b => OneOf(b.pattern, {"solid", "slash"})
        BY <2>1 DEF BandOk
  <2>4. DOMAIN b = DOMAIN default
        BY <2>3 DEF Merge
  <2> HIDE DEF b
  <2>5. /\ DOMAIN c = DOMAIN default
        /\ c.color = AsHex(b.color) /\ c.width = AsFloat(b.width)
        /\ \A k \in DOMAIN default : k \notin {"color", "width"} => c[k] = b[k]
        /\ c = [k \in DOMAIN default |-> c[k]]
        BY <2>4
  <2> HIDE DEF c
  <2>6. u[2] = c /\ IsObj(u) /\ u # Null
        BY ObjBody, Contents
  <2> HIDE DEF u
  <2>7. Merge(c, default) = c
        BY <2>5 DEF Merge
  <2>8. Within(c.width, 0, 500) /\ AsFloat(c.width) = c.width /\ c.width[2] # 0
        BY <2>1, <2>3, <2>5, FloatAgain, Contents
  <2>9. IsHex(c.color) /\ AsHex(c.color) = c.color
        BY <2>3, <2>5, HexAgain
  <2>10. "pattern" \in DOMAIN c => OneOf(c.pattern, {"solid", "slash"})
         BY <2>3, <2>4, <2>5
  <2>11. BandOk(u, default)
         BY <2>5, <2>6, <2>7, <2>8, <2>9, <2>10 DEF BandOk
  <2>12. BandOf(u, default) = Obj([c EXCEPT !.color = AsHex(c.color), !.width = AsFloat(c.width)])
         BY <2>6, <2>7, <2>8 DEF BandOf
  <2>13. [c EXCEPT !.color = AsHex(c.color), !.width = AsFloat(c.width)] = c
         BY <2>5, <2>8, <2>9
  <2> QED
      BY <2>2, <2>11, <2>12, <2>13 DEF u
<1> QED
    BY <1>1, <1>2

\* The sides a canvas may grow by.
LEMMA ExpandAgain ==
    ASSUME NEW v, ExpandOk(v)
    PROVE  ExpandOk(ExpandOf(v)) /\ ExpandOf(ExpandOf(v)) = ExpandOf(v)
<1> DEFINE no == Bool(FALSE)
           f == [s \in SIDES |-> Get(v[2], s, no)]
<1>1. CASE IsBool(v)
      BY <1>1, Zenon DEF ExpandOk, ExpandOf
<1>2. CASE ~IsBool(v)
  <2>1. \A s \in DOMAIN v[2] : IsBool(v[2][s])
        BY <1>2, Zenon DEF ExpandOk
  <2>2. ExpandOf(v) = Obj(f)
        BY <1>2, Zenon DEF ExpandOf
  <2>3. IsBool(no)
        BY Zenon, Contents DEF IsBool, Is
  <2> HIDE DEF no
  <2>4. DOMAIN f = SIDES /\ \A s \in SIDES : IsBool(f[s])
        BY <2>1, <2>3 DEF Get
  <2>5. f = [s \in SIDES |-> f[s]]
        OBVIOUS
  <2> HIDE DEF f
  <2>6. IsObj(Obj(f)) /\ Obj(f)[2] = f /\ Obj(f)[1] = "obj"
        BY ObjBody
  <2>7. ~IsBool(Obj(f))
        BY <2>6 DEF IsBool, Is
  <2>8. ExpandOk(Obj(f))
        BY <2>4, <2>6 DEF ExpandOk
  <2>9. [s \in SIDES |-> Get(f, s, no)] = f
        BY <2>4, <2>5 DEF Get
  <2>10. ExpandOf(Obj(f)) = Obj([s \in SIDES |-> Get(f, s, no)])
         BY <2>6, <2>7, Zenon DEF ExpandOf, no
  <2> QED
      BY <2>2, <2>8, <2>9, <2>10
<1> QED
    BY <1>1, <1>2

\* A point of a stroke, which may lie outside the picture.
IsShare(p) == ListOf(p, 2) /\ FrameShareOk(p[2][1]) /\ FrameShareOk(p[2][2])

\* It is the same point when it is taken again.
LEMMA SharePointAgain ==
    ASSUME NEW p, IsShare(p)
    PROVE  IsShare(AsPoint(p)) /\ AsPoint(AsPoint(p)) = AsPoint(p)
<1> DEFINE x == AsFloat(p[2][1])
           y == AsFloat(p[2][2])
           w == List(<<x, y>>)
<1>1. p # Null
      BY Contents DEF IsShare, ListOf, IsList, Is
<1>2. AsPoint(p) = w
      BY <1>1 DEF AsPoint
<1>3. FrameShareOk(x) /\ FrameShareOk(y) /\ AsFloat(x) = x /\ AsFloat(y) = y
      BY ShareAgain DEF IsShare
<1> HIDE DEF x, y
<1>4. ListOf(w, 2) /\ w[2][1] = x /\ w[2][2] = y /\ w # Null
      BY Lists, Contents
<1> HIDE DEF w
<1>5. IsShare(w)
      BY <1>3, <1>4 DEF IsShare
<1>6. AsPoint(w) = List(<<x, y>>)
      BY <1>3, <1>4 DEF AsPoint
<1> QED
    BY <1>2, <1>5, <1>6 DEF w

\* A stroke is the same stroke, of as many points, when it is taken again.
Drawn(s) == Obj([mode |-> s[2].mode, width |-> AsFloat(s[2].width),
                 points |-> List([j \in DOMAIN s[2].points[2] |-> AsPoint(s[2].points[2][j])])])

\* Taken again it is accepted, and as it was.
LEMMA StrokeAgain ==
    ASSUME NEW s, StrokeOk(s)
    PROVE  /\ StrokeOk(Drawn(s)) /\ Drawn(Drawn(s)) = Drawn(s)
           /\ Len(Drawn(s)[2].points[2]) = Len(s[2].points[2])
<1> DEFINE mode == s[2].mode
           x == AsFloat(s[2].width)
           given == s[2].points
           f == [j \in DOMAIN given[2] |-> AsPoint(given[2][j])]
           points == List(f)
           r == [mode |-> mode, width |-> x, points |-> points]
           w == Obj(r)
<1>1. /\ OneOf(mode, {"erase", "restore"}) /\ Within(s[2].width, 1, 2000)
      /\ IsList(given) /\ Len(given[2]) \in 1..FRAME_STROKE_POINTS_MAX
      /\ \A i \in DOMAIN given[2] : IsShare(given[2][i])
      BY DEF StrokeOk, IsShare
<1>2. Drawn(s) = w
      BY DEF Drawn
<1>3. Within(x, 1, 2000) /\ AsFloat(x) = x
      BY <1>1, FloatAgain
<1> HIDE DEF mode, x, given
<1>4. f = [j \in DOMAIN given[2] |-> f[j]] /\ \A j \in DOMAIN given[2] : f[j] = AsPoint(given[2][j])
      OBVIOUS
<1> HIDE DEF f
<1>5. /\ IsList(points) /\ points[2] = f /\ Len(f) = Len(given[2]) /\ DOMAIN f = DOMAIN given[2]
      BY <1>1, <1>4, MappedList
<1>6. \A j \in DOMAIN f : IsShare(f[j]) /\ AsPoint(f[j]) = f[j]
  <2> SUFFICES ASSUME NEW j \in DOMAIN f
               PROVE  IsShare(f[j]) /\ AsPoint(f[j]) = f[j]
      OBVIOUS
  <2>1. j \in DOMAIN given[2]
        BY <1>5
  <2>2. f[j] = AsPoint(given[2][j])
        BY <1>4, <2>1, Zenon
  <2>3. \A i \in DOMAIN given[2] : IsShare(given[2][i])
        BY <1>1
  <2>4. IsShare(given[2][j])
        BY <2>1, <2>3, Zenon
  <2> QED
      BY <2>2, <2>4, SharePointAgain
<1>7. List([j \in DOMAIN f |-> AsPoint(f[j])]) = points
  <2>1. [j \in DOMAIN f |-> AsPoint(f[j])] = f
        BY <1>4, <1>5, <1>6
  <2> QED
      BY <2>1
<1> HIDE DEF points
<1>8. /\ DOMAIN r = {"mode", "width", "points"}
      /\ r.mode = mode /\ r.width = x /\ r.points = points
      OBVIOUS
<1> HIDE DEF r
<1>9. w[2] = r /\ IsObj(w)
      BY ObjBody
<1> HIDE DEF w
<1>10. StrokeOk(w)
       BY <1>1, <1>3, <1>5, <1>6, <1>8, <1>9 DEF StrokeOk, IsShare
<1>11. Drawn(w) = Obj([mode |-> mode, width |-> x, points |-> points])
  <2>1. /\ w[2].mode = mode /\ AsFloat(w[2].width) = x
        /\ List([j \in DOMAIN w[2].points[2] |-> AsPoint(w[2].points[2][j])]) = points
        BY <1>3, <1>5, <1>7, <1>8, <1>9
  <2> QED
      BY <2>1, Zenon DEF Drawn
<1>12. Len(w[2].points[2]) = Len(given[2])
       BY <1>5, <1>8, <1>9
<1> QED
    BY <1>2, <1>10, <1>11, <1>12 DEF w, r, given

\* The strokes of a frame, no more points in all.
LEMMA StrokesAgain ==
    ASSUME NEW v, StrokesOk(v)
    PROVE  StrokesOk(StrokesOf(v)) /\ StrokesOf(StrokesOf(v)) = StrokesOf(v)
<1> DEFINE s == v[2]
           f == [i \in DOMAIN s |-> Drawn(s[i])]
           w == List(f)
<1>1. /\ IsList(v) /\ Len(s) <= FRAME_STROKES_MAX
      /\ \A i \in DOMAIN s : StrokeOk(s[i])
      /\ SumFunction(Counts(s)) <= FRAME_POINTS_MAX
      BY DEF StrokesOk
<1>2. \A u : StrokesOf(u) = List([i \in DOMAIN u[2] |-> Drawn(u[2][i])])
      BY DEF StrokesOf, Drawn
<1>3. StrokesOf(v) = w
      BY <1>2
<1>4. f = [i \in DOMAIN s |-> f[i]] /\ \A i \in DOMAIN s : f[i] = Drawn(s[i])
      OBVIOUS
<1> HIDE DEF f
<1>5. IsList(w) /\ w[2] = f /\ Len(f) = Len(s) /\ DOMAIN f = DOMAIN s
      BY <1>1, <1>4, MappedList
<1>6. \A i \in DOMAIN s : /\ StrokeOk(f[i]) /\ Drawn(f[i]) = f[i]
                          /\ Len(f[i][2].points[2]) = Len(s[i][2].points[2])
      BY <1>1, <1>4, StrokeAgain
<1> HIDE DEF s, w
<1>7. Counts(f) = Counts(s)
      BY <1>5, <1>6 DEF Counts
<1>8. StrokesOk(w)
      BY <1>1, <1>5, <1>6, <1>7 DEF StrokesOk
<1>9. StrokesOf(w) = w
  <2>1. StrokesOf(w) = List([i \in DOMAIN f |-> Drawn(f[i])])
        BY <1>2, <1>5
  <2>2. [i \in DOMAIN f |-> Drawn(f[i])] = f
        BY <1>4, <1>5, <1>6
  <2> QED
      BY <2>1, <2>2 DEF w
<1> QED
    BY <1>3, <1>8, <1>9

\* A frame as a stage reports it: its canvas filled in, the sides in order.
FilledIn(frame, with) ==
    \E f : /\ \A i \in 1..4 : FrameShareOk(f[i]) /\ AsFloat(f[i]) = f[i]
           /\ f[1][2] < f[3][2] /\ f[2][2] < f[4][2]
           /\ with = Obj([frame[2] EXCEPT !.canvas = List([i \in 1..4 |-> f[i]])])

\* Such a frame is taken back as it is.
LEMMA FrameAgain ==
    ASSUME NEW v, FrameOk(v), v # Null, NEW w, FilledIn(FrameOf(v), w)
    PROVE  FrameOk(w) /\ FrameOf(w) = w /\ w # Null
<1> DEFINE o == v[2]
           sides == Merge(Get(o, "sides", Obj(<<>>))[2], FRAME_SIDE_DEFAULTS)
           box == RectOf(o.box)
           line == BandOf(Get(o, "line", Obj(FRAME_LINE)), FRAME_LINE)
           rim == BandOf(Get(o, "rim", Obj(FRAME_RIM)), FRAME_RIM)
           paper == AsHex(Get(o, "paper", Str("#ffffff")))
           expand == ExpandOf(Get(o, "expand", Bool(FALSE)))
           strokes == StrokesOf(Get(o, "strokes", List(<<>>)))
           Frame(c) == [box |-> box, sides |-> Obj(sides), line |-> line, rim |-> rim,
                        paper |-> paper, canvas |-> c, expand |-> expand, strokes |-> strokes]
<1>1. /\ RectOk(o.box) /\ DOMAIN Get(o, "sides", Obj(<<>>))[2] \subseteq SIDES
      /\ \A s \in DOMAIN Get(o, "sides", Obj(<<>>))[2] :
            OneOf(Get(o, "sides", Obj(<<>>))[2][s], {"cut", "out", "behind"})
      /\ BandOk(Get(o, "line", Obj(FRAME_LINE)), FRAME_LINE)
      /\ BandOk(Get(o, "rim", Obj(FRAME_RIM)), FRAME_RIM)
      /\ IsHex(Get(o, "paper", Str("#ffffff")))
      /\ ExpandOk(Get(o, "expand", Bool(FALSE)))
      /\ StrokesOk(Get(o, "strokes", List(<<>>)))
      BY Zenon DEF FrameOk
<1>2. RectOk(box) /\ RectOf(box) = box
      BY <1>1, RectAgain
<1>3. /\ DOMAIN sides = SIDES /\ \A k \in SIDES : OneOf(sides[k], {"cut", "out", "behind"})
      /\ Merge(sides, FRAME_SIDE_DEFAULTS) = sides
      BY <1>1, SidesAgain
<1>4. BandOk(line, FRAME_LINE) /\ BandOf(line, FRAME_LINE) = line
  <2>1. {"color", "width"} \subseteq DOMAIN FRAME_LINE
        BY DEF FRAME_LINE
  <2> QED
      BY <1>1, <2>1, BandAgain
<1>5. BandOk(rim, FRAME_RIM) /\ BandOf(rim, FRAME_RIM) = rim
  <2>1. {"color", "width"} \subseteq DOMAIN FRAME_RIM
        BY DEF FRAME_RIM
  <2> QED
      BY <1>1, <2>1, BandAgain
<1>6. IsHex(paper) /\ AsHex(paper) = paper
      BY <1>1, HexAgain
<1>7. ExpandOk(expand) /\ ExpandOf(expand) = expand
  <2> DEFINE given == Get(o, "expand", Bool(FALSE))
  <2>1. ExpandOk(given)
        BY <1>1
  <2> HIDE DEF given
  <2>2. ExpandOk(ExpandOf(given)) /\ ExpandOf(ExpandOf(given)) = ExpandOf(given)
        BY <2>1, ExpandAgain
  <2> QED
      BY <2>2, Zenon DEF given
<1>8. StrokesOk(strokes) /\ StrokesOf(strokes) = strokes
      BY <1>1, StrokesAgain
<1>9. FrameOf(v) = Obj(Frame(CanvasRectOf(Get(o, "canvas", Null))))
      BY Zenon DEF FrameOf
<1>10. PICK f : /\ \A i \in 1..4 : FrameShareOk(f[i]) /\ AsFloat(f[i]) = f[i]
                /\ f[1][2] < f[3][2] /\ f[2][2] < f[4][2]
                /\ w = Obj([FrameOf(v)[2] EXCEPT !.canvas = List([i \in 1..4 |-> f[i]])])
       BY Zenon DEF FilledIn
<1> DEFINE c == List([i \in 1..4 |-> f[i]])
           g == Frame(c)
<1>11. CanvasRectOk(c) /\ CanvasRectOf(c) = c
       BY <1>10, CanvasAgain
<1> HIDE DEF o, sides, box, line, rim, paper, expand, strokes, c
<1>12. FrameOf(v)[2] = Frame(CanvasRectOf(Get(o, "canvas", Null)))
       BY <1>9, ObjBody
<1>13. w = Obj(g)
  <2> DEFINE x == CanvasRectOf(Get(o, "canvas", Null))
  <2> HIDE DEF x
  <2>1. [Frame(x) EXCEPT !.canvas = c] = g
        OBVIOUS
  <2>2. w = Obj([Frame(x) EXCEPT !.canvas = c])
        BY <1>10, <1>12, Zenon DEF x, c
  <2> QED
      BY <2>1, <2>2
<1>14. /\ DOMAIN g = FRAME_KEYS
       /\ g.box = box /\ g.sides = Obj(sides) /\ g.line = line /\ g.rim = rim /\ g.paper = paper
       /\ g.canvas = c /\ g.expand = expand /\ g.strokes = strokes
       BY DEF FRAME_KEYS
<1> HIDE DEF g
<1>15. w[2] = g /\ IsObj(w) /\ w # Null
       BY <1>13, ObjBody, Contents
<1> DEFINE no == Bool(FALSE)
<1> HIDE DEF no
<1>16. /\ Get(g, "sides", Obj(<<>>)) = Obj(sides) /\ Get(g, "line", Obj(FRAME_LINE)) = line
       /\ Get(g, "rim", Obj(FRAME_RIM)) = rim /\ Get(g, "paper", Str("#ffffff")) = paper
       /\ Get(g, "canvas", Null) = c /\ Get(g, "expand", no) = expand
       /\ Get(g, "strokes", List(<<>>)) = strokes
       BY <1>14 DEF Get, FRAME_KEYS
<1>17. Obj(sides)[2] = sides /\ IsObj(Obj(sides))
       BY ObjBody
<1>18. FrameOk(w)
  <2>1. /\ "box" \in DOMAIN g /\ RectOk(g.box) /\ DOMAIN g \subseteq FRAME_KEYS
        BY <1>2, <1>14 DEF FRAME_KEYS
  <2>2. /\ IsObj(Get(g, "sides", Obj(<<>>)))
        /\ DOMAIN Get(g, "sides", Obj(<<>>))[2] \subseteq SIDES
        /\ \A s \in DOMAIN Get(g, "sides", Obj(<<>>))[2] :
              OneOf(Get(g, "sides", Obj(<<>>))[2][s], {"cut", "out", "behind"})
        BY <1>3, <1>16, <1>17
  <2>3. BandOk(Get(g, "line", Obj(FRAME_LINE)), FRAME_LINE)
        BY <1>4, <1>16
  <2>4. BandOk(Get(g, "rim", Obj(FRAME_RIM)), FRAME_RIM)
        BY <1>5, <1>16
  <2>5. IsHex(Get(g, "paper", Str("#ffffff"))) /\ CanvasRectOk(Get(g, "canvas", Null))
        BY <1>6, <1>11, <1>16
  <2>6. ExpandOk(Get(g, "expand", Bool(FALSE)))
        BY <1>7, <1>16, Zenon DEF no
  <2>7. StrokesOk(Get(g, "strokes", List(<<>>)))
        BY <1>8, <1>16
  <2>8. IsObj(w) /\ w[2] = g
        BY <1>15
  <2> QED
      BY <2>1, <2>2, <2>3, <2>4, <2>5, <2>6, <2>7, <2>8, Zenon DEF FrameOk
<1>19. FrameOf(w) = Obj(Frame(c))
  <2>1. FrameOf(w) =
           Obj([box |-> RectOf(g.box),
                sides |-> Obj(Merge(Get(g, "sides", Obj(<<>>))[2], FRAME_SIDE_DEFAULTS)),
                line |-> BandOf(Get(g, "line", Obj(FRAME_LINE)), FRAME_LINE),
                rim |-> BandOf(Get(g, "rim", Obj(FRAME_RIM)), FRAME_RIM),
                paper |-> AsHex(Get(g, "paper", Str("#ffffff"))),
                canvas |-> CanvasRectOf(Get(g, "canvas", Null)),
                expand |-> ExpandOf(Get(g, "expand", no)),
                strokes |-> StrokesOf(Get(g, "strokes", List(<<>>)))])
        BY <1>15, Zenon DEF FrameOf, no
  <2> QED
      BY <1>2, <1>3, <1>4, <1>5, <1>6, <1>7, <1>8, <1>11, <1>14, <1>16, <1>17, <2>1
<1> QED
    BY <1>13, <1>15, <1>18, <1>19 DEF g

(* --------------------------------- stage -------------------------------- *)
\* With the frame it came out with, a stage reports what makes it again.
StageAgain(v, frame) ==
    /\ StageAccepts(StageResolved(v, frame))
    /\ [StageArguments(StageResolved(v, frame)) EXCEPT !.frame = Null] =
           [StageArguments(v) EXCEPT !.frame = Null]
    /\ StageArguments(StageResolved(v, frame)).frame = frame

\* A stage's arguments, each for itself.
Staging(photo, place, height, backdrop, from, thrown, light, lit, frame) ==
    [photo |-> photo, place |-> place, height |-> height, backdrop |-> backdrop,
     shadow_from |-> from, inherit_shadow |-> thrown, light |-> light, inherit_light |-> lit,
     frame |-> frame]

\* Each is read back, and a stage without its frame is the same stage.
LEMMA StagingIs ==
    ASSUME NEW a, NEW b, NEW c, NEW d, NEW e, NEW f, NEW g, NEW h, NEW x
    PROVE  LET s == Staging(a, b, c, d, e, f, g, h, x)
           IN  /\ s.photo = a /\ s.place = b /\ s.height = c /\ s.backdrop = d
               /\ s.shadow_from = e /\ s.inherit_shadow = f /\ s.light = g /\ s.inherit_light = h
               /\ s.frame = x
               /\ \A y : [Staging(a, b, c, d, e, f, g, h, y) EXCEPT !.frame = Null] =
                             Staging(a, b, c, d, e, f, g, h, Null)
BY DEF Staging

\* Its arguments in a photo, and in front of a pattern.
LEMMA StagedIn ==
    ASSUME NEW v
    PROVE  LET o  == Body(v)
               on == "photo" \in DOMAIN o
           IN  /\ on => StageArguments(v) =
                     Staging(Get(o, "photo", Null), AsPoint(Get(o, "place", PLACE_DEFAULT)),
                             Ranged(o, "height", "height"), Null, Get(o, "shadow_from", Null),
                             FALSE, LightOf(Get(o, "light", Null)), FALSE,
                             FrameOf(Get(o, "frame", Null)))
               /\ ~on => StageArguments(v) =
                     Staging(Get(o, "photo", Null), Null, Null,
                             Get(o, "backdrop", Str(DELIVER_DEFAULTS.backdrop)),
                             Get(o, "shadow_from", Null), "shadow_from" \notin DOMAIN o,
                             LightOf(Get(o, "light", Null)), "light" \notin DOMAIN o,
                             FrameOf(Get(o, "frame", Null)))
<1> DEFINE o  == Body(v)
           on == "photo" \in DOMAIN o
           Under(b) == [photo |-> Get(o, "photo", Null),
                        place |-> IF b THEN AsPoint(Get(o, "place", PLACE_DEFAULT)) ELSE Null,
                        height |-> IF b THEN Ranged(o, "height", "height") ELSE Null,
                        backdrop |-> IF b THEN Null
                                     ELSE Get(o, "backdrop", Str(DELIVER_DEFAULTS.backdrop)),
                        shadow_from |-> Get(o, "shadow_from", Null),
                        inherit_shadow |-> ~b /\ "shadow_from" \notin DOMAIN o,
                        light |-> LightOf(Get(o, "light", Null)),
                        inherit_light |-> ~b /\ "light" \notin DOMAIN o,
                        frame |-> FrameOf(Get(o, "frame", Null))]
<1>1. StageArguments(v) = Under(on)
      BY Zenon DEF StageArguments
<1>2. ASSUME on
      PROVE  StageArguments(v) =
                 Staging(Get(o, "photo", Null), AsPoint(Get(o, "place", PLACE_DEFAULT)),
                         Ranged(o, "height", "height"), Null, Get(o, "shadow_from", Null),
                         FALSE, LightOf(Get(o, "light", Null)), FALSE,
                         FrameOf(Get(o, "frame", Null)))
  <2>1. on = TRUE
        BY <1>2
  <2>2. StageArguments(v) = Under(TRUE)
        BY <1>1, <2>1, Zenon
  <2> QED
      BY <2>2, Zenon DEF Staging
<1>3. ASSUME ~on
      PROVE  StageArguments(v) =
                 Staging(Get(o, "photo", Null), Null, Null,
                         Get(o, "backdrop", Str(DELIVER_DEFAULTS.backdrop)),
                         Get(o, "shadow_from", Null), "shadow_from" \notin DOMAIN o,
                         LightOf(Get(o, "light", Null)), "light" \notin DOMAIN o,
                         FrameOf(Get(o, "frame", Null)))
  <2>1. on = FALSE
        BY <1>3
  <2>2. StageArguments(v) = Under(FALSE)
        BY <1>1, <2>1, Zenon
  <2> QED
      BY <2>2, Zenon DEF Staging
<1> QED
    BY <1>2, <1>3, Zenon

\* In a photo a stage reports where it stands in it.
LEMMA PhotoStageAgain ==
    ASSUME NEW v, StageAccepts(v), "photo" \in DOMAIN Body(v)
    PROVE  StageAgain(v, Null) /\ StageArguments(v).frame = Null
<1> DEFINE o == Body(v)
           place == AsPoint(Get(o, "place", PLACE_DEFAULT))
           height == Ranged(o, "height", "height")
           w == StageResolved(v, Null)
           r == [photo |-> o.photo, place |-> place, height |-> height]
           a == StageArguments(v)
<1>1. /\ DOMAIN o \cap STAGE_PATTERN_OPTIONS = {} /\ PhotoIdOk(o.photo)
      /\ PointOk(o, "place", PLACE_DEFAULT, PLACE_MAX_Y) /\ RangedOk(o, "height", "height")
      BY Zenon DEF StageAccepts
<1>2. o.photo # Null
      BY <1>1, Contents DEF PhotoIdOk, Is
<1>3. /\ Get(o, "photo", Null) = o.photo /\ Get(o, "shadow_from", Null) = Null
      /\ Get(o, "light", Null) = Null /\ Get(o, "frame", Null) = Null
      BY <1>1 DEF Get, STAGE_PATTERN_OPTIONS
<1>4. LightOf(Null) = <<>> /\ FrameOf(Null) = Null
      BY DEF LightOf, FrameOf
<1>5. a = Staging(o.photo, place, height, Null, Null, FALSE, <<>>, FALSE, Null)
      BY <1>3, <1>4, StagedIn, Zenon
<1> HIDE DEF o, place, height, a
<1>6. a.photo = o.photo /\ a.place = place /\ a.height = height
  <2> DEFINE no == FALSE
  <2>1. a = Staging(o.photo, place, height, Null, Null, no, <<>>, no, Null)
        BY <1>5
  <2> HIDE DEF no
  <2> QED
      BY <2>1, StagingIs
<1>7. w = Obj(r)
      BY <1>2, <1>6, Zenon DEF StageResolved, a
<1>8. IsBody(w) /\ Body(w) = r
      BY <1>7, ObjBody
<1>9. /\ DOMAIN r = {"photo", "place", "height"}
      /\ r.photo = o.photo /\ r.place = place /\ r.height = height
      OBVIOUS
<1> HIDE DEF w, r
<1>10. /\ PointOk(r, "place", PLACE_DEFAULT, PLACE_MAX_Y)
       /\ AsPoint(Get(r, "place", PLACE_DEFAULT)) = place
       BY <1>1, <1>9, PointOkAgain DEF place
<1>11. RangedOk(r, "height", "height") /\ Ranged(r, "height", "height") = height
       BY <1>1, <1>9, RangedAgain DEF height
<1>12. StageAccepts(w)
  <2>1. DOMAIN r \subseteq STAGE_OPTIONS /\ DOMAIN r \cap STAGE_PATTERN_OPTIONS = {}
        BY <1>9 DEF STAGE_OPTIONS, STAGE_PATTERN_OPTIONS
  <2>2. "photo" \in DOMAIN r /\ PhotoIdOk(r.photo)
        BY <1>1, <1>9
  <2> QED
      BY <1>8, <1>10, <1>11, <2>1, <2>2, Zenon DEF StageAccepts
<1>13. StageArguments(w) = a
  <2>1. /\ Get(r, "photo", Null) = o.photo /\ Get(r, "shadow_from", Null) = Null
        /\ Get(r, "light", Null) = Null /\ Get(r, "frame", Null) = Null
        BY <1>9 DEF Get
  <2>2. "photo" \in DOMAIN Body(w)
        BY <1>8, <1>9
  <2> QED
      BY <1>4, <1>5, <1>8, <1>10, <1>11, <2>1, <2>2, StagedIn, Zenon
<1>14. a.frame = Null
  <2> DEFINE no == FALSE
  <2>1. a = Staging(o.photo, place, height, Null, Null, no, <<>>, no, Null)
        BY <1>5
  <2> HIDE DEF no
  <2> QED
      BY <2>1, StagingIs
<1> QED
    BY <1>12, <1>13, <1>14, Zenon DEF StageAgain, w, a

\* In front of a pattern it reports what it did not inherit, and its frame as
\* it came out.
LEMMA PatternStageAgain ==
    ASSUME NEW v, StageAccepts(v), "photo" \notin DOMAIN Body(v), NEW frame,
           IF StageArguments(v).frame = Null THEN frame = Null
           ELSE FilledIn(StageArguments(v).frame, frame)
    PROVE  StageAgain(v, frame)
<1> DEFINE o == Body(v)
           given == Get(o, "frame", Null)
           lit == Get(o, "light", Null)
           backdrop == Get(o, "backdrop", Str(DELIVER_DEFAULTS.backdrop))
           from == Get(o, "shadow_from", Null)
           light == LightOf(lit)
           thrown == "shadow_from" \notin DOMAIN o
           inherited == "light" \notin DOMAIN o
           a == StageArguments(v)
           framed == FrameOf(given) # Null
           w == StageResolved(v, frame)
           One(b, key, value) == IF b THEN [k \in {key} |-> value] ELSE <<>>
           m1 == One(~thrown, "shadow_from", from)
           m2 == One(~inherited, "light", LightJson(light))
           m3 == One(framed, "frame", frame)
           m0 == [k \in {"backdrop"} |-> backdrop]
           p == Merge(m1, Merge(m2, Merge(m3, m0)))
<1>1. /\ DOMAIN o \cap {"place", "height"} = {}
      /\ IsBackdrop(backdrop) /\ (from = Null \/ OneOf(from, DIRECTIONS))
      /\ LightOk(lit) /\ FrameOk(given)
      BY Zenon DEF StageAccepts
<1>2. Get(o, "photo", Null) = Null
      BY DEF Get
<1>3. a = Staging(Null, Null, Null, backdrop, from, thrown, light, inherited, FrameOf(given))
      BY <1>2, StagedIn, Zenon
<1>4. LightOk(LightJson(light)) /\ LightOf(LightJson(light)) = light
      BY <1>1, LightAgain
<1> HIDE DEF a
<1>5. /\ a.photo = Null /\ a.backdrop = backdrop /\ a.shadow_from = from
      /\ a.inherit_shadow = thrown /\ a.light = light /\ a.inherit_light = inherited
      /\ a.frame = FrameOf(given)
  <2> HIDE DEF thrown, inherited, from, light, backdrop
  <2> QED
      BY <1>3, StagingIs
<1>6. w = Obj(p)
  <2>1. [backdrop |-> backdrop] = m0
        OBVIOUS
  <2>2. w = Obj(Merge(m1, Merge(m2, Merge(m3, [backdrop |-> backdrop]))))
        BY <1>5, Zenon DEF StageResolved, a
  <2> QED
      BY <2>1, <2>2, Zenon
<1>7. IsBody(w) /\ Body(w) = p
      BY <1>6, ObjBody
<1>8. /\ framed => FrameOk(frame) /\ FrameOf(frame) = frame
      /\ ~framed => frame = Null
  <2>1. ASSUME framed
        PROVE  FrameOk(frame) /\ FrameOf(frame) = frame
    <3>1. given # Null
          BY <2>1 DEF FrameOf
    <3>2. FilledIn(FrameOf(given), frame)
          BY <1>5, <2>1 DEF a
    <3> QED
        BY <1>1, <3>1, <3>2, FrameAgain
  <2>2. ASSUME ~framed
        PROVE  frame = Null
        BY <1>5, <2>2 DEF a
  <2> QED
      BY <2>1, <2>2
<1>9. /\ thrown => from = Null
      /\ inherited => light = <<>>
      BY DEF Get, LightOf
<1>10. \A b \in BOOLEAN : \A key, value :
          /\ DOMAIN One(b, key, value) = IF b THEN {key} ELSE {}
          /\ b => One(b, key, value)[key] = value
       OBVIOUS
<1>11. /\ DOMAIN m1 = (IF thrown THEN {} ELSE {"shadow_from"})
       /\ DOMAIN m2 = (IF inherited THEN {} ELSE {"light"})
       /\ DOMAIN m3 = (IF framed THEN {"frame"} ELSE {})
       /\ DOMAIN m0 = {"backdrop"}
       /\ ~thrown => m1["shadow_from"] = from
       /\ ~inherited => m2["light"] = LightJson(light)
       /\ framed => m3["frame"] = frame
       /\ m0["backdrop"] = backdrop
  <2> HIDE DEF o, given, lit, backdrop, from, light, thrown, inherited, framed
  <2> QED
      OBVIOUS
<1> HIDE DEF o, given, lit, backdrop, from, light, thrown, inherited, framed, m0, m1, m2, m3, w
<1> DEFINE p3 == Merge(m3, m0)
           p2 == Merge(m2, p3)
<1>12. /\ DOMAIN p3 = DOMAIN m0 \cup DOMAIN m3
       /\ \A k \in DOMAIN p3 : p3[k] = IF k \in DOMAIN m3 THEN m3[k] ELSE m0[k]
       BY MergedOver
<1> HIDE DEF p3
<1>13. /\ DOMAIN p2 = DOMAIN p3 \cup DOMAIN m2
       /\ \A k \in DOMAIN p2 : p2[k] = IF k \in DOMAIN m2 THEN m2[k] ELSE p3[k]
       BY MergedOver
<1> HIDE DEF p2
<1>14. /\ DOMAIN p = DOMAIN p2 \cup DOMAIN m1
       /\ \A k \in DOMAIN p : p[k] = IF k \in DOMAIN m1 THEN m1[k] ELSE p2[k]
  <2>1. p = Merge(m1, p2)
        BY DEF p2, p3
  <2> DEFINE p1 == Merge(m1, p2)
  <2>2. /\ DOMAIN p1 = DOMAIN p2 \cup DOMAIN m1
        /\ \A k \in DOMAIN p1 : p1[k] = IF k \in DOMAIN m1 THEN m1[k] ELSE p2[k]
        BY MergedOver
  <2> HIDE DEF p
  <2> QED
      BY <2>1, <2>2
<1> HIDE DEF p
<1>15. /\ DOMAIN p \subseteq STAGE_PATTERN_OPTIONS
       /\ "shadow_from" \notin DOMAIN p <=> thrown
       /\ "light" \notin DOMAIN p <=> inherited
       BY <1>11, <1>12, <1>13, <1>14 DEF STAGE_PATTERN_OPTIONS
<1>16. /\ "photo" \notin DOMAIN p /\ DOMAIN p \cap {"place", "height"} = {}
       /\ DOMAIN p \subseteq STAGE_OPTIONS
       BY <1>15 DEF STAGE_PATTERN_OPTIONS, STAGE_OPTIONS
<1>17. Get(p, "backdrop", Str(DELIVER_DEFAULTS.backdrop)) = backdrop
       BY <1>11, <1>12, <1>13, <1>14 DEF Get
<1>18. Get(p, "shadow_from", Null) = from
       BY <1>9, <1>11, <1>14, <1>15 DEF Get
<1>19. LightOk(Get(p, "light", Null)) /\ LightOf(Get(p, "light", Null)) = light
  <2>1. CASE inherited
    <3>1. Get(p, "light", Null) = Null
          BY <1>15, <2>1 DEF Get
    <3>2. LightOk(Null) /\ LightOf(Null) = <<>>
          BY DEF LightOk, LightOf
    <3> QED
        BY <1>9, <2>1, <3>1, <3>2
  <2>2. CASE ~inherited
    <3>1. Get(p, "light", Null) = LightJson(light)
          BY <1>11, <1>13, <1>14, <2>2 DEF Get
    <3> QED
        BY <1>4, <3>1
  <2> QED
      BY <2>1, <2>2
<1>20. FrameOk(Get(p, "frame", Null)) /\ FrameOf(Get(p, "frame", Null)) = frame
  <2>1. CASE framed
    <3>1. Get(p, "frame", Null) = frame
          BY <1>11, <1>12, <1>13, <1>14, <2>1 DEF Get
    <3> QED
        BY <1>8, <2>1, <3>1
  <2>2. CASE ~framed
    <3>1. Get(p, "frame", Null) = Null
          BY <1>11, <1>12, <1>13, <1>14, <2>2 DEF Get
    <3> QED
        BY <1>8, <2>2, <3>1 DEF FrameOk, FrameOf
  <2> QED
      BY <2>1, <2>2
<1>21. Get(p, "photo", Null) = Null
       BY <1>16 DEF Get
<1>22. StageAccepts(w)
  <2>1. from = Null \/ OneOf(from, DIRECTIONS)
        BY <1>1
  <2>2. IsBackdrop(Get(p, "backdrop", Str(DELIVER_DEFAULTS.backdrop)))
        BY <1>1, <1>17
  <2>3. Get(p, "shadow_from", Null) = Null \/ OneOf(Get(p, "shadow_from", Null), DIRECTIONS)
        BY <1>18, <2>1
  <2> QED
      BY <1>7, <1>16, <1>19, <1>20, <2>2, <2>3, Zenon DEF StageAccepts
<1>23. StageArguments(w) =
           Staging(Null, Null, Null, backdrop, from, thrown, light, inherited, frame)
  <2>1. /\ ("shadow_from" \notin DOMAIN p) = thrown
        /\ ("light" \notin DOMAIN p) = inherited
        BY <1>15 DEF thrown, inherited
  <2>2. StageArguments(w) =
            Staging(Get(p, "photo", Null), Null, Null,
                    Get(p, "backdrop", Str(DELIVER_DEFAULTS.backdrop)),
                    Get(p, "shadow_from", Null), "shadow_from" \notin DOMAIN p,
                    LightOf(Get(p, "light", Null)), "light" \notin DOMAIN p,
                    FrameOf(Get(p, "frame", Null)))
        BY <1>7, <1>16, StagedIn, Zenon
  <2> QED
      BY <1>17, <1>18, <1>19, <1>20, <1>21, <2>1, <2>2, Zenon
<1>24. /\ [StageArguments(w) EXCEPT !.frame = Null] = [a EXCEPT !.frame = Null]
       /\ StageArguments(w).frame = frame
       BY <1>3, <1>23, StagingIs
<1> QED
    BY <1>22, <1>24, Zenon DEF StageAgain, w, a

\* So a stage is made again, with the frame its canvas was filled in for.
LEMMA StageIsAgain ==
    ASSUME NEW v, StageAccepts(v), NEW frame,
           IF StageArguments(v).frame = Null THEN frame = Null
           ELSE FilledIn(StageArguments(v).frame, frame)
    PROVE  StageAgain(v, frame)
<1>1. CASE "photo" \in DOMAIN Body(v)
      BY <1>1, PhotoStageAgain
<1>2. CASE "photo" \notin DOMAIN Body(v)
      BY <1>2, PatternStageAgain
<1> QED
    BY <1>1, <1>2
==================================================================================
