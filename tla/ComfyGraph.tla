------------------------------ MODULE ComfyGraph ------------------------------
(***************************************************************************)
(* The ComfyUI graphs the worker builds (infrastructure/comfyui/*_graph.py) *)
(* and how it reads one back (base_graph.py, roles.py).                     *)
(*                                                                          *)
(* A graph is a function from node ids to nodes.  A node is its class, the  *)
(* inputs that are links (input name to <<node, output>>), and `what`: the  *)
(* one plain input the rest of the project tells apart (the picture a       *)
(* LoadImage loads, the suffix a SaveImage saves under).                    *)
(*                                                                          *)
(* A job names one graph the worker can build, so that the graph of a job   *)
(* is a constant: Built tabulates them.                                     *)
(***************************************************************************)
EXTENDS Integers, Sequences, FiniteSets, SequencesExt

Node(class, in, what) == [class |-> class, in |-> in, what |-> what]
LoadImage(what)       == Node("LoadImage", <<>>, what)
SaveImage(ref, what)  == Node("SaveImage", [images |-> ref], what)

Highest(S) == CHOOSE n \in S : \A m \in S : m <= n
Next_id(g) == IF DOMAIN g = {} THEN 1 ELSE Highest(DOMAIN g) + 1

\* allocate(): the nodes of a sequence take the next ids in turn.  A graph built
\* from nothing is the sequence itself.
Grow(g, nodes) ==
    LET first == Next_id(g)
    IN  [n \in DOMAIN g \cup (first..first + Len(nodes) - 1) |->
            IF n \in DOMAIN g THEN g[n] ELSE nodes[n - first + 1]]

(* ------------------------- the parts graphs share ---------------------- *)
\* Each is the nodes it adds, the first of them at id `n`.

\* Mutant: the alpha is saved as the mask it is.
AlphaNodesMask(n, image, reused) ==
    IF reused THEN <<LoadImage("alpha"), Node("ImageToMask", [image |-> <<n, 0>>], "")>>
    ELSE <<Node("BiRefNetRMBG", [image |-> image], ""),
           Node("YukariMatting", [image |-> image, matte |-> <<n, 1>>], ""),
           Node("MaskToImage", [mask |-> <<n + 1, 0>>], ""),
           SaveImage(<<n + 1, 0>>, "-alpha")>>

\* _matte_nodes for the rmbg: model, matting_node, save_mask; or the loaded
\* alpha.  Either way the alpha is the output of the second.
AlphaNodes(n, image, reused) ==
    IF reused THEN <<LoadImage("alpha"), Node("ImageToMask", [image |-> <<n, 0>>], "")>>
    ELSE <<Node("BiRefNetRMBG", [image |-> image], ""),
           Node("YukariMatting", [image |-> image, matte |-> <<n, 1>>], ""),
           Node("MaskToImage", [mask |-> <<n + 1, 0>>], ""),
           SaveImage(<<n + 2, 0>>, "-alpha")>>
AfterAlpha(n, reused) == IF reused THEN n + 2 ELSE n + 4

\* The depth is the output of the first.
DepthNodes(n, image, reused) ==
    IF reused THEN <<LoadImage("depth")>>
    ELSE <<Node("DepthAnythingV2Preprocessor", [image |-> image], ""),
           SaveImage(<<n, 0>>, "-depth")>>
AfterDepth(n, reused) == IF reused THEN n + 1 ELSE n + 2

Foreground(image, alpha) == Node("YukariForeground", [image |-> image, alpha |-> alpha], "")
SeeThrough(image, alpha) == Node("YukariSeeThrough", [image |-> image, alpha |-> alpha], "")

\* The figure and outline layers as a node of the pack takes them.
Layers(figure, outline) ==
    [figure |-> <<figure, 0>>, figure_mask |-> <<figure, 1>>,
     outline |-> <<outline, 0>>, outline_mask |-> <<outline, 1>>]
Link(wanted, input, ref) == IF wanted THEN input :> ref ELSE <<>>
Load(wanted, what)       == IF wanted THEN <<LoadImage(what)>> ELSE <<>>
LoadLayers == <<LoadImage("figure"), LoadImage("outline")>>
SaveLayers(figure, outline) ==
    <<SaveImage(figure, "-layer-figure"), SaveImage(outline, "-layer-outline")>>
Backdrop(wanted, ref) == IF wanted THEN <<SaveImage(ref, "-layer-backdrop")>> ELSE <<>>

(* ------------------------------- delivery ------------------------------ *)
SOURCE == <<1, 0>>
CutGraph ==
    <<LoadImage("source")>> \o AlphaNodes(2, SOURCE, FALSE) \o DepthNodes(6, SOURCE, FALSE)
        \o <<Foreground(SOURCE, <<3, 0>>), SaveImage(<<8, 0>>, "-foreground")>>

\* delivery_tail: the composite, the picture, and the layers it is made of.
DeliveryTail(n, inputs, keep_scene, transparent) ==
    <<Node("YukariDeliver", inputs, ""), SaveImage(<<n, 0>>, "-delivered")>>
        \o SaveLayers(<<n, 2>>, <<n, 3>>)
        \o Backdrop(keep_scene \/ ~transparent, <<n, 4>>)

DeliverGraph(reused, keep_scene, transparent, see_through) ==
    LET alpha == <<3, 0>>
        n     == AfterAlpha(2, reused)
    IN  <<LoadImage("source")>> \o AlphaNodes(2, SOURCE, reused)
          \o IF keep_scene
             THEN DeliveryTail(n, [image |-> SOURCE, matte |-> alpha], keep_scene, transparent)
             ELSE IF see_through
             THEN <<Foreground(SOURCE, alpha), SeeThrough(SOURCE, alpha)>>
                    \o DeliveryTail(n + 2, [image |-> <<n, 0>>, matte |-> <<n + 1, 0>>,
                                            silhouette |-> alpha], keep_scene, transparent)
             ELSE <<Foreground(SOURCE, alpha)>>
                    \o DeliveryTail(n + 1, [image |-> <<n, 0>>, matte |-> alpha],
                                    keep_scene, transparent)

\* The end of both dof graphs: the blurred picture `n`, the picture with the
\* viewfinder over it, or both.
ViewfinderTail(n, view) ==
    CASE view = "off"  -> <<SaveImage(<<n, 0>>, "-dof")>>
      [] view = "on"   -> <<Node("YukariViewfinder", [image |-> <<n, 0>>], ""),
                            SaveImage(<<n + 1, 0>>, "-dof")>>
      [] view = "both" -> <<Node("YukariViewfinder", [image |-> <<n, 0>>], ""),
                            SaveImage(<<n + 1, 0>>, "-viewfinder"), SaveImage(<<n, 0>>, "-dof")>>

\* A depth that is built is built from the source, loaded just before it.  dof()
\* always focuses a point, so the photo graph's focus on the subject (which
\* draws no viewfinder) is not reached.
Blur(class, backdrop, reused, view) ==
    LET loaded == IF backdrop THEN 3 ELSE 2
        depth  == IF reused THEN loaded + 1 ELSE loaded + 2
        blur   == AfterDepth(depth, reused)
    IN  LoadLayers \o Load(backdrop, "backdrop") \o Load(~reused, "source")
          \o DepthNodes(depth, <<loaded + 1, 0>>, reused)
          \o <<Node(class, Layers(1, 2) @@ Link(TRUE, "depth", <<depth, 0>>)
                               @@ Link(backdrop, "backdrop", <<3, 0>>), "")>>
          \o ViewfinderTail(blur, view)
DofGraph(backdrop, reused, view) == Blur("YukariDepthOfField", backdrop, reused, view)
PhotoDofGraph(reused, view)      == Blur("YukariPhotoDepthOfField", TRUE, reused, view)

PhotoGraph(reused) ==
    <<LoadImage("photo")>> \o LoadLayers \o DepthNodes(4, <<1, 0>>, reused)
        \o <<Node("YukariPhotoStage", Layers(2, 3) @@ Link(TRUE, "photo", <<1, 0>>)
                                          @@ Link(TRUE, "depth", <<4, 0>>), ""),
             SaveImage(<<AfterDepth(4, reused), 0>>, "-staged")>>

\* The three graphs over the layers alone: the layers and one picture more are
\* loaded, and the node's pictures saved, its layers with them.
OverLayers(class, more, loaded, suffix, backdrop, kept) ==
    LET n == IF loaded THEN 4 ELSE 3
    IN  LoadLayers \o Load(loaded, more)
          \o <<Node(class, Layers(1, 2) @@ Link(loaded, more, <<3, 0>>), ""),
               SaveImage(<<n, 0>>, suffix)>>
          \o SaveLayers(<<n, 1>>, <<n, 2>>) \o Backdrop(backdrop, IF kept THEN <<3, 0>> ELSE <<n, 3>>)
StageGraph(photo)       == OverLayers("YukariStage", "photo", photo, "-set", TRUE, FALSE)
LightingGraph(backdrop) == OverLayers("YukariRelight", "backdrop", backdrop, "-lit", backdrop, FALSE)
\* A saturation gives the backdrop layer on as it came.
SaturationGraph(backdrop) ==
    OverLayers("YukariSaturation", "backdrop", backdrop, "-delivered", backdrop, TRUE)

LensGraph ==
    <<LoadImage("picture"), Node("YukariLens", [image |-> <<1, 0>>, mask |-> <<1, 1>>], ""),
      SaveImage(<<2, 0>>, "-lens")>>

(* -------------------------------- drawings ----------------------------- *)
SAMPLERS == {"KSampler", "KSamplerAdvanced"}
Sampler(class, model, positive, negative, latent) ==
    Node(class, [model |-> model, positive |-> positive, negative |-> negative,
                 latent_image |-> latent], "")
Text(clip, what) == Node("CLIPTextEncode", [clip |-> clip], what)

\* build_graph: the Yukari-anima graph, with a LoRA, a guided first stage and
\* a hires pass as the recipe asks, each appended in this order.
AnimaGraph(loras, guided, hires) ==
    LET model == IF loras THEN <<10, 0>> ELSE <<1, 0>>
        stage == IF loras THEN 11 ELSE 10
        up    == IF guided THEN stage + 1 ELSE stage
    IN  <<Node("UNETLoader", <<>>, ""), Node("CLIPLoader", <<>>, ""),
          IF guided THEN Sampler("KSamplerAdvanced", model, <<6, 0>>, <<7, 0>>, <<stage, 0>>)
          ELSE Sampler("KSampler", model, <<6, 0>>, <<7, 0>>, <<5, 0>>),
          Node("VAELoader", <<>>, ""), Node("EmptyLatentImage", <<>>, ""),
          Text(<<2, 0>>, "positive"), Text(<<2, 0>>, "negative"),
          Node("VAEDecode", [samples |-> <<IF hires THEN up + 1 ELSE 3, 0>>, vae |-> <<4, 0>>], ""),
          SaveImage(<<8, 0>>, "raw")>>
        \o (IF loras THEN <<Node("LoraLoaderModelOnly", [model |-> <<1, 0>>], "")>> ELSE <<>>)
        \o (IF guided THEN <<Sampler("KSamplerAdvanced", model, <<6, 0>>, <<7, 0>>, <<5, 0>>)>>
            ELSE <<>>)
        \o (IF hires THEN <<Node("LatentUpscale", [samples |-> <<3, 0>>], ""),
                            Sampler("KSampler", model, <<6, 0>>, <<7, 0>>, <<up, 0>>)>>
            ELSE <<>>)

\* Stored graphs that are not the recipe's: a picture stitched back from an
\* inpaint crop, one drawn from a checkpoint, one by LayerDiffuse.
Foreign(kind) ==
    LET loader == IF kind = "checkpoint" THEN "CheckpointLoaderSimple" ELSE "UNETLoader"
        clip   == IF kind = "checkpoint" THEN <<1, 1>> ELSE <<2, 0>>
        vae    == IF kind = "checkpoint" THEN <<1, 2>> ELSE <<4, 0>>
    IN  <<Node(loader, <<>>, ""), Node("CLIPLoader", <<>>, ""),
          Sampler("KSampler", IF kind = "layerdiffuse" THEN <<10, 0>> ELSE <<1, 0>>,
                  <<6, 0>>, <<7, 0>>, IF kind = "stitched" THEN <<11, 0>> ELSE <<5, 0>>),
          Node("VAELoader", <<>>, ""), Node("EmptyLatentImage", <<>>, ""),
          Text(clip, "positive"), Text(clip, "negative"),
          Node("VAEDecode", [samples |-> <<3, 0>>, vae |-> vae], ""),
          SaveImage(IF kind = "stitched" THEN <<12, 0>> ELSE <<8, 0>>, "raw")>>
        \o CASE kind = "stitched" ->
                  <<LoadImage("crop"),
                    Node("VAEEncode", [pixels |-> <<10, 0>>, vae |-> <<4, 0>>], ""),
                    Node("InpaintStitchImproved", [inpainted_image |-> <<8, 0>>], "")>>
             [] kind = "layerdiffuse" ->
                  <<Node("LayeredDiffusionApply", [model |-> <<1, 0>>], "")>>
             [] OTHER -> <<>>

(* ---------------------- reading a graph (base_graph.py) ----------------- *)
Parents(g, n)   == {g[n].in[i][1] : i \in DOMAIN g[n].in}
Consumers(g, n) == {k \in DOMAIN g : n \in Parents(g, k)}
HasClass(g, class) == \E n \in DOMAIN g : g[n].class = class
Of(g, class) == {n \in DOMAIN g : g[n].class = class}

\* The nodes `n` flows into, and the nodes it is made from.
Closure(next, n) ==
    LET grow[S \in SUBSET DOMAIN next] ==
            LET more == S \cup UNION {next[m] : m \in S}
            IN  IF more = S THEN S ELSE grow[more]
    IN  grow[next[n]]
Downstream(g, n) == Closure([m \in DOMAIN g |-> Consumers(g, m)], n)
Upstream(g, n)   == Closure([m \in DOMAIN g |-> Parents(g, m)], n)

\* find_decode: the decode whose picture is used and not sampled again.
Decodes(g) ==
    {n \in Of(g, "VAEDecode") :
        /\ Consumers(g, n) # {}
        /\ \A m \in Downstream(g, n) : g[m].class # "VAEEncode"}

\* find_sampler: up the `samples` inputs.
FindSampler(g, decode) ==
    LET walk[n \in DOMAIN g] == IF g[n].class \in SAMPLERS \/ "samples" \notin DOMAIN g[n].in
                                THEN n ELSE walk[g[n].in.samples[1]]
    IN  walk[decode]

\* chain_origin: the first stage of a guided pair.
ChainOrigin(g, sampler) ==
    LET walk[n \in DOMAIN g] ==
            IF "latent_image" \notin DOMAIN g[n].in THEN n
            ELSE LET from == g[n].in.latent_image[1]
                 IN  IF g[from].class = "KSamplerAdvanced" THEN walk[from] ELSE n
    IN  walk[sampler]

PASSTHROUGH == {"JoinImageWithAlpha", "LayeredDiffusionDecode", "InpaintStitchImproved"}
\* _saves_downstream: the saves a picture reaches unmodified, each with
\* whether it was stitched into a canvas on the way.
SavesDownstream(g, node) ==
    LET walk[n \in DOMAIN g] ==
            UNION {IF g[k].class = "SaveImage" THEN {<<k, FALSE>>}
                   ELSE IF g[k].class \in PASSTHROUGH
                   THEN {<<s[1], s[2] \/ g[k].class = "InpaintStitchImproved">> : s \in walk[k]}
                   ELSE {} : k \in Consumers(g, n)}
    IN  walk[node]

\* base_roles, or nothing where the code cannot tell them (it raises).
NoRoles == [save |-> 0, decode |-> 0, sampler |-> 0, positive |-> 0, negative |-> 0,
            stitched |-> FALSE]
BaseRoles(g) ==
    LET roles(decode, sampler) ==
            {[save |-> save[1], decode |-> decode, sampler |-> sampler,
              positive |-> g[sampler].in.positive[1], negative |-> g[sampler].in.negative[1],
              stitched |-> save[2]] : save \in SavesDownstream(g, decode)}
        found == UNION {roles(decode, FindSampler(g, decode)) :
                            decode \in {d \in Decodes(g) : g[FindSampler(g, d)].class \in SAMPLERS}}
    IN  IF Cardinality(Decodes(g)) = 1 /\ Cardinality(found) = 1
        THEN CHOOSE role \in found : TRUE ELSE NoRoles
Anima(g) == HasClass(g, "UNETLoader")

(* -------------------------------- redraws ------------------------------ *)
RefOr(g, n, input, default) == IF input \in DOMAIN g[n].in THEN g[n].in[input] ELSE default

\* Mutant: the save is renamed but still takes the base's picture.
SavedUnmoved(base, save, n) == [base EXCEPT ![save].what = ""]

\* The picture is saved under the prefix itself, from the node the redraw ends at.
SavedFrom(base, save, n) == [base EXCEPT ![save].in.images = <<n, 0>>, ![save].what = ""]

\* redraw_graph: every node has its own place after the base's last id.  The
\* worker always names another checkpoint, so the prompts are encoded anew.
RedrawGraph(base, r, n, latent_route, derived, keep, loader) ==
    LET scale == n    encode == n + 1    sample == n + 2    decode == n + 3
        load  == <<n + 13, 0>>
        vae   == <<n + 10, 2>>
        image == IF derived THEN load ELSE base[r.save].in.images
        up    == Node("LatentUpscale", [samples |-> IF derived THEN <<encode, 0>>
                                                    ELSE <<r.sampler, 0>>], "")
        canvas ==
            CASE latent_route /\ derived ->
                     encode :> Node("VAEEncode", [pixels |-> load, vae |-> vae], "") @@ scale :> up
              [] latent_route /\ ~derived -> scale :> up
              [] ~latent_route ->
                     scale :> Node("ImageScale", [image |-> image], "")
                     @@ encode :> Node("VAEEncode", [pixels |-> <<scale, 0>>, vae |-> vae], "")
        scaled == IF latent_route THEN <<scale, 0>> ELSE <<encode, 0>>
        latent == IF keep THEN <<n + 16, 0>> ELSE scaled
        masked == IF ~keep THEN <<>>
                  ELSE n + 14 :> LoadImage("keep")
                       @@ n + 15 :> Node("ImageToMask", [image |-> <<n + 14, 0>>], "")
                       @@ n + 16 :> Node("SetLatentNoiseMask",
                                         [samples |-> scaled, mask |-> <<n + 15, 0>>], "")
    IN  SavedFrom(base, r.save, decode) @@ canvas @@ masked
          @@ n + 10 :> Node(loader, <<>>, "")
          @@ n + 4 :> Text(<<n + 10, 1>>, "positive") @@ n + 5 :> Text(<<n + 10, 1>>, "negative")
          @@ (IF derived THEN n + 13 :> LoadImage("source") ELSE <<>>)
          @@ sample :> Sampler("KSampler", <<n + 10, 0>>, <<n + 4, 0>>, <<n + 5, 0>>, latent)
          @@ decode :> Node("VAEDecode", [samples |-> <<sample, 0>>, vae |-> vae], "")

\* hires_graph refuses a graph that is already upscaled, and one whose canvas
\* it cannot find.
HiresAble(base, r) ==
    /\ ~HasClass(base, "LatentUpscale")
    /\ base[base[ChainOrigin(base, r.sampler)].in.latent_image[1]].class = "EmptyLatentImage"
HiresGraph(base, r, n) ==
    Grow([SavedFrom(base, r.save, r.decode) EXCEPT ![r.decode].in.samples = <<n + 1, 0>>],
         <<Node("LatentUpscale", [samples |-> <<r.sampler, 0>>], ""),
           [base[r.sampler] EXCEPT !.class = "KSampler", !.in.latent_image = <<n, 0>>]>>)

\* light_graph: the base without its outputs, then the lit source sampled on.
Bare(base) == [n \in {k \in DOMAIN base : base[k].class \notin {"SaveImage", "PreviewImage"}}
                  |-> base[n]]
LightGraph(bare, r, n, alpha_reused, depth_reused) ==
    LET image == <<n, 0>>
        depth == AfterAlpha(n + 1, alpha_reused)
        light == AfterDepth(depth, depth_reused)
        vae   == RefOr(bare, r.decode, "vae", <<4, 2>>)
        clip  == RefOr(bare, r.positive, "clip", <<4, 1>>)
    IN  Grow(bare,
             <<LoadImage("source")>> \o AlphaNodes(n + 1, image, alpha_reused)
             \o DepthNodes(depth, image, depth_reused)
             \o <<Node("YukariLight", [image |-> image, depth |-> <<depth, 0>>,
                                       matte |-> <<n + 2, 0>>], ""),
                  Node("VAEEncode", [pixels |-> <<light, 0>>, vae |-> vae], ""),
                  Text(clip, "lit"),
                  [bare[r.sampler] EXCEPT !.class = "KSampler", !.in.positive = <<light + 2, 0>>,
                                          !.in.latent_image = <<light + 1, 0>>],
                  Node("VAEDecode", [samples |-> <<light + 3, 0>>, vae |-> vae], ""),
                  SaveImage(<<light + 4, 0>>, "")>>)

(* ----------------------- labels (roles.py) ------------------------------ *)
\* Of a graph that has no titles yet; one read back from a picture keeps its own.
ENCODES  == {"VAEEncode"}
UPSCALES == {"LatentUpscale"}
FIXED_ROLES == [UNETLoader |-> "unet_loader", CLIPLoader |-> "clip_loader",
                VAELoader |-> "vae_loader", CheckpointLoaderSimple |-> "checkpoint_loader",
                DiffusersLoader |-> "diffusers_loader", LoraLoaderModelOnly |-> "lora_loader",
                SaveImage |-> "save_image"]

\* Node ids by number.
InOrder(S) == IF S = {} THEN <<>>
              ELSE SelectSeq([i \in 1..Highest(S) |-> i], LAMBDA i : i \in S)
\* _topological: depth first, a node after the nodes it is made from.  A node
\* has the place it is first come to.
Visits(g) ==
    LET visit[n \in DOMAIN g] ==
            LET from == InOrder(Parents(g, n))
            IN  Append(FlattenSeq([i \in DOMAIN from |-> visit[from[i]]]), n)
        ids == InOrder(DOMAIN g)
    IN  FlattenSeq([i \in DOMAIN ids |-> visit[ids[i]]])
Topological(g) ==
    LET all   == Visits(g)
        first == InOrder({i \in DOMAIN all : \A j \in 1..(i - 1) : all[j] # all[i]})
    IN  [i \in DOMAIN first |-> all[first[i]]]

\* _latent_chain: the class the latent comes from, whether it was upscaled on
\* the way, and how many samplers lie upstream.
LatentParent(g, n) ==
    LET key == IF "latent_image" \in DOMAIN g[n].in THEN "latent_image" ELSE "samples"
    IN  IF key \in DOMAIN g[n].in THEN g[n].in[key][1] ELSE 0
LatentChain(g, sampler) ==
    LET end(origin) == [origin |-> origin, upscaled |-> FALSE, upstream |-> 0]
        walk[n \in DOMAIN g] ==
            LET p == LatentParent(g, n)
            IN  IF p = 0 THEN end("")
                ELSE IF g[p].class \in SAMPLERS THEN [walk[p] EXCEPT !.upstream = @ + 1]
                ELSE IF g[p].class \in UPSCALES THEN [walk[p] EXCEPT !.upscaled = TRUE]
                ELSE IF LatentParent(g, p) # 0 THEN walk[p]
                ELSE end(g[p].class)
    IN  walk[sampler]

\* _sampler_roles: samplers by where their latent comes from, in stages.
SamplerGroup(g, n) ==
    LET latent == LatentChain(g, n)
    IN  IF latent.upscaled THEN "hires_sampler"
        ELSE IF latent.origin = "EmptyLatentImage" THEN "base_sampler"
        ELSE IF latent.origin \in ENCODES THEN "redraw_sampler"
        ELSE ""
SamplersOf(g) == {n \in DOMAIN g : g[n].class \in SAMPLERS /\ SamplerGroup(g, n) # ""}
\* Mutant: stages are numbered by id.
SamplerStageById(g, n) ==
    1 + Cardinality({m \in SamplersOf(g) : SamplerGroup(g, m) = SamplerGroup(g, n) /\ m < n})

SamplerStage(g, n) ==
    1 + Cardinality({m \in SamplersOf(g) :
            /\ SamplerGroup(g, m) = SamplerGroup(g, n)
            /\ LET a == LatentChain(g, m).upstream
                   b == LatentChain(g, n).upstream
               IN  a < b \/ (a = b /\ m < n)})

\* _proposals: samplers, the encoders that feed them, then nodes by class.
\* _prompt_encoder also walks through conditioning nodes; the recipe has none.
Encoders(g, key) == {g[s].in[key][1] : s \in SamplersOf(g)} \cap Of(g, "CLIPTextEncode")
Proposal(g, n) ==
    IF n \in SamplersOf(g) THEN <<SamplerGroup(g, n), SamplerStage(g, n)>>
    ELSE IF n \in Encoders(g, "positive") THEN <<"positive_prompt", 1>>
    ELSE IF n \in Encoders(g, "negative") THEN <<"negative_prompt", 1>>
    ELSE IF g[n].class \in DOMAIN FIXED_ROLES THEN <<FIXED_ROLES[g[n].class], 1>>
    ELSE IF g[n].class \in UPSCALES THEN <<"hires_upscale", 1>>
    ELSE IF g[n].class = "VAEDecode" /\ \E c \in Consumers(g, n) : g[c].class = "SaveImage"
         THEN <<"vae_decode", 1>>
    ELSE <<g[n].class, 1>>                          \* snake_case of the class

\* label_roles: each node with its role and its number among the nodes of that
\* role, counted in topological order.
Titles(g) ==
    LET order == Topological(g)
        role  == FoldLeft(LAMBDA roles, n : Append(roles, Proposal(g, n)), <<>>, order)
    IN  {<<order[i], role[i], Cardinality({j \in 1..i : role[j] = role[i]})>> : i \in DOMAIN order}

(* --------------------------- the graphs of jobs ------------------------- *)
\* A base is the graph a drawing was made by; `made` is "anima" or a Foreign kind.
Base(made, loras, guided, hires) ==
    [made |-> made, loras |-> loras, guided |-> guided, hires |-> hires]
ANIMA == {Base("anima", l, g, h) : l \in BOOLEAN, g \in BOOLEAN, h \in BOOLEAN}
FOREIGN == {Base(made, FALSE, FALSE, FALSE) : made \in {"checkpoint", "stitched", "layerdiffuse"}}
BaseGraph(base) == IF base.made = "anima" THEN AnimaGraph(base.loras, base.guided, base.hires)
                   ELSE Foreign(base.made)
BaseGraphs  == [base \in ANIMA \cup FOREIGN |-> BaseGraph(base)]
RolesOf     == [base \in ANIMA \cup FOREIGN |-> BaseRoles(BaseGraphs[base])]
\* The bases a redraw may start from; only an inpaint is stitched.
REDRAWN     == ANIMA \cup {b \in FOREIGN : b.made = "stitched"}
LOADERS     == {"DiffusersLoader", "CheckpointLoaderSimple"}
VIEWS       == {"off", "on", "both"}

\* A stitched picture has no latent of its own to start from.
CanvasJobs ==
    {job \in {<<"canvas", b, l, d, k, w>> : b \in REDRAWN, l \in BOOLEAN, d \in BOOLEAN,
                                          k \in BOOLEAN, w \in LOADERS} :
        job[3] => job[2].made = "anima"}
Jobs ==
    {<<"cut">>, <<"lens">>}
    \cup {<<"deliver", a, k, t, s>> : a \in BOOLEAN, k \in BOOLEAN, t \in BOOLEAN, s \in BOOLEAN}
    \cup {<<"dof", b, d, v>> : b \in BOOLEAN, d \in BOOLEAN, v \in VIEWS}
    \cup {<<"photo_dof", d, v>> : d \in BOOLEAN, v \in VIEWS}
    \cup {<<kind, b>> : kind \in {"photo", "stage", "lighting", "saturation"}, b \in BOOLEAN}
    \cup CanvasJobs
    \cup {<<"hires", b>> : b \in {c \in ANIMA : HiresAble(BaseGraphs[c], RolesOf[c])}}
    \cup {<<"light", b, a, d>> : b \in ANIMA, a \in BOOLEAN, d \in BOOLEAN}

\* The redraws of a base, given its graph and its roles.
RedrawOf(job, base, r) ==
    CASE job[1] = "canvas" -> RedrawGraph(base, r, Next_id(base), job[3], job[4], job[5], job[6])
      [] job[1] = "hires"  -> HiresGraph(base, r, Next_id(base))
      [] job[1] = "light"  -> LightGraph(Bare(base), r, Next_id(Bare(base)), job[3], job[4])
GraphOf(job) ==
    CASE job[1] = "cut"        -> CutGraph
      [] job[1] = "lens"       -> LensGraph
      [] job[1] = "deliver"    -> DeliverGraph(job[2], job[3], job[4], job[5])
      [] job[1] = "dof"        -> DofGraph(job[2], job[3], job[4])
      [] job[1] = "photo_dof"  -> PhotoDofGraph(job[2], job[3])
      [] job[1] = "photo"      -> PhotoGraph(job[2])
      [] job[1] = "stage"      -> StageGraph(job[2])
      [] job[1] = "lighting"   -> LightingGraph(job[2])
      [] job[1] = "saturation" -> SaturationGraph(job[2])
      [] OTHER                 -> RedrawOf(job, BaseGraphs[job[2]], RolesOf[job[2]])

Built == [job \in Jobs |-> GraphOf(job)]
===============================================================================
