---------------------------- MODULE Capability ----------------------------
(***************************************************************************)
(* What a workflow can do, by the keywords its nodes contain: the registry *)
(* of capabilities, the detector and the matcher.  A node is the set of    *)
(* the registry's keywords that occur in its class or in its inputs, what  *)
(* the user has typed included.  A confidence is in hundredths.            *)
(***************************************************************************)
EXTENDS Integers, FiniteSets, FiniteSetsExt

(* default_specs: the keywords of a capability, and what it depends on.    *)
Row(keywords, depends) == [keywords |-> keywords, depends |-> depends, experimental |-> FALSE]
Experimental(row) == [row EXCEPT !.experimental = TRUE]

default_specs ==
  [txt2img |-> Row({"emptylatent", "textencode", "ksampler", "sampler", "saveimage"},
                    {"sampling", "prompting", "latent_source"}),
   img2img |-> Row({"loadimage", "vaeencode", "imageonlycheckpoint", "latentfrombatch"},
                    {"image_input", "sampling"}),
   inpainting |-> Row({"inpaint", "mask", "setlatentnoise", "vaeinpaint"},
                       {"image_input", "mask_input", "sampling"}),
   sampling |-> Row({"ksampler", "sampler", "samplercustom", "sampleradvanced"}, {}),
   prompting |-> Row({"cliptextencode", "textencode", "prompt"}, {}),
   latent_source |-> Row({"emptylatent", "latentimage", "sd3emptylatent", "fluxlatent"}, {}),
   checkpoint_model |-> Row({"checkpointloader", "ckptloader", "unetloader",
                              "diffusionmodelload", "modelsampling"}, {}),
   vae |-> Row({"vaeloader", "vaedecode", "vaeencode"}, {}),
   lora |-> Row({"lora", "loraloader", "powerlora", "easy lora"}, {"checkpoint_model"}),
   controlnet |-> Row({"controlnet", "applycontrolnet", "controlnetloader"},
                       {"image_input", "conditioning"}),
   ipadapter |-> Row({"ipadapter", "ip-adapter", "clipvision", "imageprompt"}, {"image_input"}),
   upscale |-> Row({"upscale", "esrgan", "ultrasharp", "imagescale", "latentupscale"},
                    {"image_output"}),
   hires_fix |-> Row({"hires", "latentupscale", "upscale latent", "secondpass", "ultimate"},
                      {"sampling", "upscale"}),
   face_detailer |-> Experimental(Row({"facedetailer", "face detailer", "bboxdetector",
                                        "segm detector", "impact"}, {"image_output"})),
   regional_prompt |-> Experimental(Row({"regional", "area conditioning", "conditioningarea",
                                          "attention couple", "couple"}, {"prompting"})),
   video |-> Experimental(Row({"video", "animatediff", "svd", "wan", "ltx", "frame", "vhs"}, {})),
   image_input |-> Row({"loadimage", "imageinput", "previewimage"}, {}),
   mask_input |-> Row({"loadmask", "mask", "imagemask", "masktoimage"}, {}),
   image_output |-> Row({"saveimage", "previewimage", "imageoutput"}, {}),
   flux_pipeline |-> Row({"flux", "dualcliploader", "cliptextencodeflux", "unetloader",
                           "modelsamplingflux"}, {"sampling", "prompting"}),
   sdxl_pipeline |-> Row({"sdxl", "cliptextencodesdxl", "checkpointloadersimple"},
                          {"sampling", "prompting"})]

Name == DOMAIN default_specs
Keyword == UNION {default_specs[c].keywords : c \in Name}

-----------------------------------------------------------------------------
(* _score_keyword_match: three keywords are as good as all.                *)
Score(c, node) ==
  LET keywords == default_specs[c].keywords
      enough == Min({3, Cardinality(keywords)})
  IN Min({100, (100 * Cardinality(keywords \cap node)) \div enough})

Providers(nodes, c) == {n \in nodes : Score(c, n) > 0}
Matched(nodes) == {c \in Name : Providers(nodes, c) # {}}

(* detect_capabilities infers two from what has been matched.              *)
Inferred(nodes) ==
  {c \in {"txt2img", "img2img"} \ Matched(nodes) :
     (IF c = "txt2img" THEN {"prompting", "latent_source", "sampling", "image_output"}
                       ELSE {"image_input", "sampling"}) \subseteq Matched(nodes)}

Detected(nodes) == Matched(nodes) \cup Inferred(nodes)

Missing(c, detected) == default_specs[c].depends \ detected

Status(c, detected) ==
  IF Missing(c, detected) # {} THEN "missing_dependency"
  ELSE IF default_specs[c].experimental THEN "experimental" ELSE "ready"

(* The best score of a node, or what an inference is worth.                *)
Best(nodes, c) ==
  LET score == Max({Score(c, n) : n \in nodes})
  IN IF score > 0 THEN Max({78, score}) ELSE IF c = "txt2img" THEN 92 ELSE 85

(* Faulty variant: without its dependencies it is as sure as with them.    *)
Unbounded(nodes, c, detected) == Best(nodes, c)

Confidence(nodes, c, detected) ==
  IF Missing(c, detected) # {} THEN Min({Best(nodes, c), 55}) ELSE Best(nodes, c)

(* detect_capabilities, and build_manifest around it.                      *)
detect_capabilities(nodes) ==
  LET detected == Detected(nodes)
  IN [c \in detected |-> [status |-> Status(c, detected),
                          confidence |-> Confidence(nodes, c, detected)]]

(* summarize_manifest.                                                     *)
ReadyIn(caps) == {c \in DOMAIN caps : caps[c].status # "missing_dependency"}
=============================================================================
