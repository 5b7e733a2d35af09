--------------------------- MODULE MCQUICRewriter ---------------------------
(***************************************************************************)
(* What holds Initials back (QUICCollector) and what rewrites them then    *)
(* (QUICRewriter), side by side: in a behaviour one of them takes its      *)
(* steps and the other stands still.                                       *)
(***************************************************************************)
EXTENDS QUICRewriter, QUICCollector

VARIABLE component

\* In order, in the wrong order with an overlap, and over one more Initial; the
\* last one of each is sent again.
MCHellos ==
  [cells : {<<{1}, {2}, {1}, {2}, {1, 2}>>, <<{1, 2}, {2}, {}, {2}>>}, name : BOOLEAN]

CollectorStill ==
  byName = TRUE /\ hello = [c \in Connection |-> CHOOSE h \in Hellos : TRUE]

MCInit ==
  /\ RewriterInit /\ CollectorInit
  /\ \/ component = "rewriter" /\ CollectorStill
     \/ component = "collector"

MCNext ==
  /\ UNCHANGED component
  /\ \/ component = "rewriter" /\ RewriterNext /\ UNCHANGED collectorVars
     \/ component = "collector" /\ CollectorNext /\ UNCHANGED rewriterVars

MCSpec == MCInit /\ [][MCNext]_<<component, rewriterVars, collectorVars>>
=============================================================================
