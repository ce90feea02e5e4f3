-------------------------------- MODULE NodePack --------------------------------
(***************************************************************************)
(* The contract between the graphs and the nodes that run them: the sockets *)
(* of the pack's nodes (comfy_nodes/yukari_finalize/nodes.py) and of the    *)
(* ComfyUI nodes the graphs name, and the ranges ComfyUI refuses a number   *)
(* outside of.  ComfyUI validates a prompt against both before it runs.     *)
(***************************************************************************)
EXTENDS ComfyGraph

\* RETURN_TYPES, and the linked inputs of INPUT_TYPES: required and optional.
Sockets(out, required, optional) == [out |-> out, required |-> required, optional |-> optional]

LAYER_INPUTS == [figure |-> "IMAGE", figure_mask |-> "MASK",
                 outline |-> "IMAGE", outline_mask |-> "MASK"]
Also(more) == [i \in DOMAIN LAYER_INPUTS \cup DOMAIN more |->
                  IF i \in DOMAIN more THEN more[i] ELSE LAYER_INPUTS[i]]
BACKDROP == [backdrop |-> "IMAGE"]

\* By what a node takes and gives: the cut and its delivery, one picture, the
\* layers of a delivery.
DeliveryNodes ==
    [YukariMatting      |-> Sockets(<<"MASK">>, [image |-> "IMAGE", matte |-> "MASK"], <<>>),
     YukariForeground   |-> Sockets(<<"IMAGE">>, [image |-> "IMAGE", alpha |-> "MASK"], <<>>),
     YukariSeeThrough   |-> Sockets(<<"MASK">>, [image |-> "IMAGE", alpha |-> "MASK"], <<>>),
     YukariDeliver      |-> Sockets(<<"IMAGE", "STRING", "IMAGE", "IMAGE", "IMAGE">>,
                                    [image |-> "IMAGE", matte |-> "MASK"],
                                    [silhouette |-> "MASK"]),
     YukariDepthOfField |-> Sockets(<<"IMAGE">>, Also([depth |-> "IMAGE"]), BACKDROP)]
PictureNodes ==
    [YukariLight        |-> Sockets(<<"IMAGE">>, [image |-> "IMAGE", depth |-> "IMAGE",
                                                  matte |-> "MASK"], <<>>),
     YukariViewfinder   |-> Sockets(<<"IMAGE">>, [image |-> "IMAGE"], <<>>),
     YukariLens         |-> Sockets(<<"IMAGE">>, [image |-> "IMAGE", mask |-> "MASK"], <<>>),
     YukariPhotoStage   |-> Sockets(<<"IMAGE">>, Also([photo |-> "IMAGE", depth |-> "IMAGE"]),
                                    <<>>)]
LayerNodes ==
    [YukariStage        |-> Sockets(<<"IMAGE", "IMAGE", "IMAGE", "IMAGE">>, LAYER_INPUTS,
                                    [photo |-> "IMAGE"]),
     YukariSaturation   |-> Sockets(<<"IMAGE", "IMAGE", "IMAGE">>, LAYER_INPUTS, BACKDROP),
     YukariRelight      |-> Sockets(<<"IMAGE", "IMAGE", "IMAGE", "IMAGE">>, LAYER_INPUTS,
                                    BACKDROP),
     YukariPhotoDepthOfField |->
         Sockets(<<"IMAGE">>, Also([depth |-> "IMAGE", backdrop |-> "IMAGE"]), <<>>)]
Pack == DeliveryNodes @@ PictureNodes @@ LayerNodes

\* ComfyUI's own nodes and the other packs', as the graphs use them.
SAMPLER_INPUTS == [model |-> "MODEL", positive |-> "CONDITIONING",
                   negative |-> "CONDITIONING", latent_image |-> "LATENT"]
Loaded   == Sockets(<<"MODEL", "CLIP", "VAE">>, <<>>, <<>>)
ToLatent == Sockets(<<"LATENT">>, [samples |-> "LATENT"], <<>>)
Comfy ==
    [LoadImage         |-> Sockets(<<"IMAGE", "MASK">>, <<>>, <<>>),
     SaveImage         |-> Sockets(<<>>, [images |-> "IMAGE"], <<>>),
     ImageToMask       |-> Sockets(<<"MASK">>, [image |-> "IMAGE"], <<>>),
     MaskToImage       |-> Sockets(<<"IMAGE">>, [mask |-> "MASK"], <<>>),
     ImageScale        |-> Sockets(<<"IMAGE">>, [image |-> "IMAGE"], <<>>),
     BiRefNetRMBG      |-> Sockets(<<"IMAGE", "MASK", "IMAGE">>, [image |-> "IMAGE"], <<>>),
     DepthAnythingV2Preprocessor |-> Sockets(<<"IMAGE">>, [image |-> "IMAGE"], <<>>),
     UNETLoader        |-> Sockets(<<"MODEL">>, <<>>, <<>>),
     CLIPLoader        |-> Sockets(<<"CLIP">>, <<>>, <<>>),
     VAELoader         |-> Sockets(<<"VAE">>, <<>>, <<>>),
     CheckpointLoaderSimple |-> Loaded,
     DiffusersLoader   |-> Loaded,
     LoraLoaderModelOnly |-> Sockets(<<"MODEL">>, [model |-> "MODEL"], <<>>),
     CLIPTextEncode    |-> Sockets(<<"CONDITIONING">>, [clip |-> "CLIP"], <<>>),
     EmptyLatentImage  |-> Sockets(<<"LATENT">>, <<>>, <<>>),
     KSampler          |-> Sockets(<<"LATENT">>, SAMPLER_INPUTS, <<>>),
     KSamplerAdvanced  |-> Sockets(<<"LATENT">>, SAMPLER_INPUTS, <<>>),
     LatentUpscale     |-> ToLatent,
     SetLatentNoiseMask |-> Sockets(<<"LATENT">>, [samples |-> "LATENT", mask |-> "MASK"], <<>>),
     VAEEncode         |-> Sockets(<<"LATENT">>, [pixels |-> "IMAGE", vae |-> "VAE"], <<>>),
     VAEDecode         |-> Sockets(<<"IMAGE">>, [samples |-> "LATENT", vae |-> "VAE"], <<>>),
     InpaintStitchImproved |-> Sockets(<<"IMAGE">>, [inpainted_image |-> "IMAGE"], <<>>)]

SocketsOf(class) == IF class \in DOMAIN Pack THEN Pack[class] ELSE Comfy[class]

\* What ComfyUI accepts of a link: its node is there and gives the type the
\* input takes.
LinkFits(g, ref, type) ==
    /\ ref[1] \in DOMAIN g
    /\ LET out == SocketsOf(g[ref[1]].class).out
       IN  ref[2] + 1 \in DOMAIN out /\ out[ref[2] + 1] = type
NodeFits(g, n) ==
    LET s == SocketsOf(g[n].class)
        in == g[n].in
    IN  /\ DOMAIN s.required \subseteq DOMAIN in
        /\ DOMAIN in \subseteq DOMAIN s.required \cup DOMAIN s.optional
        /\ \A i \in DOMAIN in :
              LinkFits(g, in[i], IF i \in DOMAIN s.required THEN s.required[i] ELSE s.optional[i])
Acyclic(g)  == \A n \in DOMAIN g : n \notin Upstream(g, n)
Accepted(g) == (\A n \in DOMAIN g : NodeFits(g, n)) /\ Acyclic(g)

\* The suffixes a graph saves under, each with the pictures under it.
Saved(g) == {g[n].what : n \in Of(g, "SaveImage")}
SavedOnce(g) == \A m, n \in Of(g, "SaveImage") : g[m].what = g[n].what => m = n

\* The least and greatest of the numbers of INPUT_TYPES, in hundredths.
NodeRanges ==
    [f_number |-> <<140, 2200>>, viewfinder_f |-> <<70, 2200>>, fraction |-> <<0, 100>>,
     place_y |-> <<0, 150>>, height |-> <<5, 150>>, tilt |-> <<-100, 100>>,
     bokeh |-> <<0, 100>>, nearer |-> <<0, 100>>, lighting |-> <<0, 100>>,
     saturation |-> <<0, 100>>, lens |-> <<-100, 100>>, radius |-> <<5, 100>>,
     gain |-> <<100, 500>>]
===============================================================================
