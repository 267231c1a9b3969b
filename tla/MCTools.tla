------------------------------- MODULE MCTools -------------------------------
(***************************************************************************)
(* Tools for TLC: a baseline and one variant of the instructions, and      *)
(* every manifest of two components.                                       *)
(***************************************************************************)
EXTENDS Tools

ToolsVariants == <<"baseline", "context">>

(* The baseline, and exactly 85 % of the tokens in 110 % of the time.      *)
ToolsMeasures ==
  {[tokens |-> 100, seconds |-> 100], [tokens |-> 85, seconds |-> 110]}

(* The manifests in which no component depends on itself and each has one  *)
(* command, to update or to restart it.                                    *)
ToolsManifests ==
  {[deps |-> g, enabled |-> on, update |-> up, restart |-> Components \ up] :
     g \in {h \in [Components -> SUBSET Components] :
              \A c \in Components : c \notin h[c]},
     on \in SUBSET Components, up \in SUBSET Components}
=============================================================================
