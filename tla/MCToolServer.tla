---------------------------- MODULE MCToolServer ----------------------------
(***************************************************************************)
(* Two calls, two contexts that may point to one server or to two, and the *)
(* command lines and kubeconfigs in which something is missing, left out   *)
(* or defined twice.                                                       *)
(***************************************************************************)
EXTENDS ToolServer

MCToolsOf == [read |-> {"list", "render"}, write |-> {"apply"}, both |-> {"list", "apply"}]

CommandLine(toolsets, clusters, context, readOnly, timeout) ==
  [toolsets |-> toolsets, clusters |-> clusters, context |-> context,
   readOnly |-> readOnly, timeout |-> timeout]

MCOptions ==
  {CommandLine({"read", "write"}, {}, None, FALSE, TRUE),
   CommandLine({"both"}, {"dev"}, "prod", TRUE, TRUE),
   CommandLine({"both"}, {"prod"}, None, FALSE, FALSE),
   CommandLine({}, {}, "dev", TRUE, TRUE)}

MCKubeconfigs ==
  {[server |-> [dev |-> "s1", prod |-> "s2"], current |-> "dev"],
   [server |-> [dev |-> "s1", prod |-> None], current |-> None],
   [server |-> [dev |-> None, prod |-> None], current |-> None]}
=============================================================================
