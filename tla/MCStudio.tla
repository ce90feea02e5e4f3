-------------------------------- MODULE MCStudio --------------------------------
(***************************************************************************)
(* Studio for TLC: the drawings and the rows a lineage is put through.       *)
(***************************************************************************)
EXTENDS Studio

Plain   == Base("anima", FALSE, FALSE, FALSE)
Made_by(made) == Base(made, FALSE, FALSE, FALSE)
MCStarts == {<<Drawing(base)>> : base \in ANIMA \cup FOREIGN \cup {NoBase}}
                \cup {<<Drawing(Plain), Picture("repair")>>,
                      <<Drawing(Made_by("layerdiffuse")), Picture("masked_redraw")>>,
                      <<Picture("repair")>>, <<Picture("finalize")>>,
                      <<Picture("repair deliver_only")>>, <<Picture("photo")>>}

\* A drawing of the plain recipe goes through every operation; the others as
\* far as what they are is told apart.
MCMaxChain(first) == CASE first = Drawing(Plain) -> 7
                       [] first.base.made \in {"stitched", "layerdiffuse"} -> 4
                       [] OTHER -> 3

\* Rows that lead on: what they leave in the lineage differs.
Centre   == List(<<Whole(0), Float(25)>>)
Sunset   == Obj([scene |-> Str("sunset"), from |-> Str("e")])
Cutting(o) == [k \in DOMAIN o \cup {"cut"} |-> IF k = "cut" THEN Bool(TRUE) ELSE o[k]]
Canvas   == [method |-> Str("canvas")]
Dusk     == [method |-> Str("light"), scene |-> Str("sunset")]
Moon     == [method |-> Str("light"), scene |-> Str("moon"), from |-> Str("e")]
Framed   == [box |-> List(<<Whole(0), Whole(0), Whole(1), Float(50)>>)]

Redrawn ==
    {Canvas, Cutting(Canvas), Dusk, Cutting(Moon),
     [method |-> Str("canvas"), route |-> Str("latent"), denoise |-> Str("keep"),
      keep_regions |-> List(<<List(<<Whole(0), Whole(0), Whole(1), Whole(1)>>)>>)],
     [method |-> Str("canvas"), finalizer |-> Str("sdxl.safetensors"), denoise |-> Float(30)],
     [method |-> Str("hires"), hires |-> Whole(1024)],
     [method |-> Str("hires"), hires |-> Whole(8)],
     \* refused
     [method |-> Str("light")], [method |-> Str("canvas"), denoise |-> Str("faint")],
     [method |-> Str("hires"), hires |-> Float(1024)]}

Delivered ==
    {<<>>, [transparent |-> Bool(TRUE)], [backdrop |-> Null, stroke_light |-> Null],
     [keep_scene |-> Bool(TRUE), see_through |-> Whole(2)],
     [light |-> Sunset, see_through |-> Whole(3)],
     [stroke_light |-> Str("even"), outlines |-> List(<<>>)],
     [stroke_light |-> Str("e"), transparent |-> Bool(TRUE),
      outlines |-> List(<<Band("#FFFFFF", 5)>>)],
     \* refused
     [light |-> Sunset, stroke_light |-> Str("n")], [outlines |-> List(<<Band("#ffffff", 0)>>)]}

Point50 == List(<<Float(50), Float(100)>>)
Blurring ==
    {[focus |-> Centre], [focus |-> Point50, viewfinder |-> Str("on"), f_number |-> Whole(22)],
     [focus |-> Centre, viewfinder |-> Str("both"), f_number |-> Float(140),
      scope |-> Obj([figure |-> Bool(FALSE)])],
     [focus |-> Centre, tilt |-> Whole(-1), stand_at |-> Null],
     \* refused
     [focus |-> Centre, f_number |-> Float(139)],
     [focus |-> Centre, scope |-> Obj([figure |-> Bool(FALSE), outline |-> Bool(FALSE),
                                       backdrop |-> Bool(FALSE)])]}

Bent == {<<>>, [shape |-> Str("sphere"), strength |-> Float(-100)],
         [shape |-> Str("sphere"), radius |-> Float(5), center |-> Centre],
         \* refused
         [radius |-> Float(50)], [strength |-> Whole(0)]}

Photo1 == [photo |-> Str("photo")]
Shot(more) == Merge(more, Photo1)
Photographed ==
    {Photo1, Shot([focus |-> Centre, place |-> List(<<Whole(1), Float(150)>>), nearer |-> Whole(1)]),
     Shot([place |-> Null]),
     \* refused
     Shot([height |-> Float(151)])}

Staged ==
    {<<>>, [light |-> Null, shadow_from |-> Null], [light |-> Sunset, backdrop |-> Str("#FFFFFF")],
     Photo1, Shot([height |-> Float(5)]), Shot([place |-> Null]),
     [frame |-> Obj(Framed), backdrop |-> Str("stripes")],
     [frame |-> Obj(Merge([expand |-> Obj([top |-> Bool(TRUE)]), line |-> Null,
                           canvas |-> List(<<Null, Float(50), Null, Null>>)], Framed)),
      shadow_from |-> Str("s")],
     \* an empty canvas, once the side it leaves open is filled in
     [frame |-> Obj(Merge([canvas |-> List(<<Null, Float(150), Null, Null>>)], Framed))],
     \* refused
     Shot([light |-> Null])}

Relit == {<<>>, [direction |-> Str("w")], [scene |-> Str("moon"), strength |-> Whole(1)],
          \* refused
          [direction |-> Str("even")]}
Faded == {<<>>, [strength |-> Whole(0)],
          \* refused
          [strength |-> Whole(2)]}

MCRowOptions ==
    [redraw |-> {Obj(o) : o \in Redrawn}, deliver |-> {Obj(o) : o \in Delivered} \cup {Null},
     dof |-> {Obj(o) : o \in Blurring}, lens |-> {Obj(o) : o \in Bent},
     photo |-> {Obj(o) : o \in Photographed}, stage |-> {Obj(o) : o \in Staged},
     lighting |-> {Obj(o) : o \in Relit}, saturation |-> {Obj(o) : o \in Faded}]
===============================================================================
