---------------------------- MODULE MCCatalog ----------------------------
(* Names of files and directories that agree, that agree up to case, that  *)
(* hold '/', that have several types or none; one that is too long, and a  *)
(* directory that fits into a name and not into a renamed one.             *)
EXTENDS Catalog

MCFolded == [t \in {"", "a", "TOOLS/A", "Tools/A", "Tools_A", "TOOLS_A", "long", "Programs", "Subject",
                    "subject", "Text"} |->
               CASE t \in {"Tools/A", "TOOLS/A"} -> "tools/a" [] t \in {"Tools_A", "TOOLS_A"} -> "tools_a"
                 [] t = "Subject" -> "subject" [] t = "Text" -> "text"
                 [] t = "Programs" -> "programs" [] OTHER -> t]
MCPrinted == [t \in DOMAIN MCFolded |->
                CASE t = "Tools/A" -> "Tools_A" [] t = "TOOLS/A" -> "TOOLS_A" [] OTHER -> t]

Part(t, l) == [text |-> t, len |-> l]
Text == Part("Text", 4)

MCFileNames == {<<Part("a", 1), Text, Empty>>, <<Part("TOOLS/A", 7), Subject, Empty>>,
                <<Part("long", 12), Text, Empty>>}
MCBaseNames == {<<Part("Tools/A", 7)>>, <<Part("Programs", 8)>>}
MCNewTypes == {NoType, <<Text>>}
MCSourceDirs == {<<Part("Tools_A", 7), Subject, Empty>>}
=============================================================================
