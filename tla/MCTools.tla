------------------------------- MODULE MCTools -------------------------------
(***************************************************************************)
(* The two tools that judge the core, scripts/accuracy.sh and the scripts  *)
(* that compare it with MAME.  They share nothing: a behaviour follows one *)
(* of them, `tool', and the other stays in one of its initial states.      *)
(***************************************************************************)
EXTENDS LiveGate, TimingReport

VARIABLE tool

-----------------------------------------------------------------------------
(* accuracy.sh: all cases in every mode.  The log the report is checked on  *)
(* has a noted case with hidden states, one that prints no figure for the   *)
(* cache off, and two noted cases of one name.                              *)

NotedStores == {c \in StoreCases : c.note # "" /\ c.hidden > 0}
Unprinted   == {c \in LineCases : c.dis < 0}
\* A row of twelve words, from source bits 0 and 13.
SameNames   == {c \in ExpandShapeCases(4, <<"A", 0, 48>>) : c.name[5] = "Replace"}

MCLogged == <<CHOOSE c \in NotedStores : TRUE, CHOOSE c \in Unprinted : TRUE,
              CHOOSE c \in SameNames : c.xfer.sx = 0, CHOOSE c \in SameNames : c.xfer.sx # 0>>

-----------------------------------------------------------------------------
(* The comparisons: the differences of the checked-in ledgers (sim/vectors) *)
(* and RTL versions that have others: the same ones with other values, one  *)
(* fewer, one the classifier does not know.                                 *)


D(c, f, at) == [case |-> c, field |-> f, at |-> at]

CasesNamed(names) == {i \in DOMAIN Vectors : Vectors[i].name \in names}
GraphicsBase ==
    {D(i, "PC", {0}) : i \in DOMAIN Vectors}
    \cup {D(i, "B", {0}) : i \in {j \in DOMAIN Vectors : "pixblt" \in Vectors[j].tags}
                            \cup CasesNamed({<<"fill form", 1>>, <<"fill form", 2>>,
                                <<"array_edge", 4>>, <<"array_edge", 5>>, <<"resume_endpoint", 1>>})}
TiBase ==
    {D("sample_function_library", "B", {2, 10, 11, 12, 14})}
    \cup {D(c, "HASH:framebuffer", {0}) : c \in Workloads \ {"rom_tutorial"}}
    \cup {D(c, "HASH:program_workspace", {0})
            : c \in {"graphics_math_arcs", "graphics_math_transfer", "gsp_paint"}}

Fewer(c)   == IF c = "ti" THEN D("sample_function_library", "HASH:framebuffer", {0})
              ELSE D(Min(CasesNamed({<<"direction", 0>>})), "B", {0})
Unknown(c) == IF c = "ti" THEN D("gsp_paint", "IO", {3}) ELSE D(1, "SP", {0})

BaseDiffers == [c \in {"graphics", "ti"} |-> IF c = "ti" THEN TiBase ELSE GraphicsBase]
VersionDiffers ==
    [c \in {"graphics", "ti"} |->
        [v \in {"base", "values", "fewer", "unknown"} |->
            CASE v = "fewer"   -> BaseDiffers[c] \ {Fewer(c)}
              [] v = "unknown" -> BaseDiffers[c] \cup {Unknown(c)}
              [] OTHER -> BaseDiffers[c]]]
MCDiffers(c, v) == VersionDiffers[c][v]
MCVersions == [c \in {"graphics", "ti"} |-> <<"base", "values", "fewer", "unknown">>]

\* The corpus of 137 cases and the 156 groups of the signed-off comparison
\* (docs/gpu_completion_signoff.md:73).
ASSUME CorpusSize == Len(Vectors) = 137 /\ Cardinality(GraphicsBase) = 156

-----------------------------------------------------------------------------
ToolsInit ==
    /\ \/ tool = "accuracy" /\ corpus = "ti"
       \/ tool = "golden" /\ case = CHOOSE c \in LineCases : TRUE
    /\ Init /\ ScriptInit

ToolsNext ==
    /\ tool' = tool
    /\ \/ tool = "accuracy" /\ ScriptNext /\ UNCHANGED vars
       \/ tool = "golden" /\ Next /\ UNCHANGED scriptVars

ToolsSpec == ToolsInit /\ [][ToolsNext]_<<tool, vars, scriptVars>>
=============================================================================
