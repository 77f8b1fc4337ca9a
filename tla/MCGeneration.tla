--------------------------- MODULE MCGeneration ---------------------------
(* Two templates, that of the repository and ComfyUI's own, and a file     *)
(* with the nodes under a "prompt" key; a request for every way through    *)
(* the code, and beside it one that shares files, server or folder.        *)
EXTENDS Generation, TLC

CONSTANTS flux, classic, notes, abs, d, s1, s2, j1, j2

Holding(nodes, ends, takes, wrapped) ==
  [nodes |-> nodes, linked |-> nodes \ ends, dangling |-> FALSE, wrapped |-> wrapped,
   takes |-> takes, val |-> [s \in Slot |-> "file"]]

(* In flux_kontext_txt2img_api_workflow.json node 3 loads the VAE, 4 is the *)
(* empty image, 6 the guidance, 8 the model's sampling and 9 the sampler;  *)
(* in ComfyUI's own 3 is the sampler, 5 the empty image and 9 saves.       *)
FluxGraph == Holding({3, 4, 5, 6, 7, 8, 9, 11}, {11}, SyncSlots, FALSE)
ClassicGraph == Holding({3, 4, 5, 6, 7, 8, 9}, {9}, AsyncSlots, FALSE)
WrappedGraph == Holding({3, 4, 5, 6, 7, 8, 9, 11}, {11}, SyncSlots, TRUE)
MCContent == {ClassicGraph}

MCProfiles == [p \in {"none", "default", "quality"} |-> IF p = "quality" THEN classic ELSE flux]

MCFileSystem ==
  {[p \in Path |->
     [version |-> 0,
      is |-> CASE p \in {"cwd", "base"} \X {flux} -> FluxGraph
               [] p \in ({"cwd", "base"} \X {classic}) \cup {<<"cwd", notes>>} -> ClassicGraph
               [] p = <<"root", abs>> -> WrappedGraph
               [] OTHER -> Missing]]}

Plain(route) ==
  [route |-> route,
   top |-> [f \in Field |-> "top"], nested |-> [f \in Field |-> "none"],
   laid |-> [f \in Field |-> "none"],
   workflow |-> NoFile, model |-> NoFile, generation |-> NoFile, profile |-> "none",
   server |-> s1, dir |-> d, limits |-> [l \in Limit |-> "none"],
   op |-> NoOp, generationOp |-> NoOp, force |-> FALSE, requireSafe |-> TRUE,
   execute |-> TRUE]

Mixed(r) ==
  [r EXCEPT
    !.top = [f \in Field |-> CASE f \in {"prompt", "negative", "steps"} -> "none"
                               [] f = "seed" -> "negative"
                               [] f = "width" -> "bad"
                               [] f = "height" -> "zero"
                               [] OTHER -> "top"],
    !.nested = [f \in Field |-> IF f \in {"prompt", "width", "height"} THEN "nested" ELSE "none"]]

Set(n, i) == [do |-> "set", slot |-> <<n, i>>]
Remove(n) == [do |-> "remove", node |-> n]

Limited(l, v) == [k \in Limit |-> IF k = l THEN v ELSE "top"]

(* generation with a prefix, a null for the prompt and one for the width.  *)
LaidOver(r) ==
  [r EXCEPT !.laid = [@ EXCEPT !.filename_prefix = "nested", !.prompt = "null"],
            !.nested = [@ EXCEPT !.width = "null"]]

MCRequest ==
  j1 :> {Plain("sync"), Mixed(Plain("sync")),
         [Plain("sync") EXCEPT !.workflow = classic, !.op = Remove(6)],
         [Plain("sync") EXCEPT !.model = abs, !.op = Set(9, "steps")],
         [Plain("sync") EXCEPT !.workflow = notes, !.op = [do |-> "raise"]],
         Plain("once"),
         [Mixed(Plain("apply")) EXCEPT !.op = Set(9, "steps"), !.generationOp = Set(5, "text")],
         [Plain("apply") EXCEPT !.op = Remove(6)],
         [Plain("apply") EXCEPT !.op = Remove(6), !.force = TRUE, !.generationOp = Remove(7)],
         [Plain("apply") EXCEPT !.op = Remove(4), !.requireSafe = FALSE],
         [LaidOver(Mixed(Plain("apply"))) EXCEPT !.op = Set(6, "text"), !.generation = classic],
         [Plain("apply") EXCEPT !.workflow = notes, !.execute = FALSE],
         Mixed(Plain("async")),
         [Mixed(Plain("async")) EXCEPT !.workflow = classic],
         [Plain("async") EXCEPT !.profile = "quality", !.limits = Limited("max_retries", "bad")],
         [Plain("async") EXCEPT !.workflow = abs, !.limits = Limited("task_timeout_seconds", "bad")],
         [Plain("async") EXCEPT !.model = abs],
         [Plain("async") EXCEPT !.limits = Limited("max_retries", "negative")],
         [Plain("async") EXCEPT !.workflow = classic,
                                !.limits = Limited("task_timeout_seconds", "negative")]}
  @@ j2 :> {Plain("sync"), [Plain("async") EXCEPT !.workflow = classic, !.server = s2]}

MCEdited == {"cwd", "base"} \X {flux}

Ends(completed, folders, unnamed, other) ==
  [completed |-> completed, folders |-> folders, unnamed |-> unnamed, other |-> other]

MCOutcome ==
  {Ends(TRUE, {}, FALSE, FALSE), Ends(TRUE, {""}, TRUE, TRUE), Ends(FALSE, {"sub"}, FALSE, FALSE)}
=============================================================================
