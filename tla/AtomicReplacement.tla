------------------------- MODULE AtomicReplacement -------------------------
(***************************************************************************)
(* What "zaigr project clean" and "zaigr project rebuild" promise about a  *)
(* project: its disk image and the metadata files that describe the image  *)
(* (config, applied setups, firewall, base version, backing pin, dirty     *)
(* marker) change together, in one step, or not at all.                    *)
(*                                                                         *)
(* Generation g stands for everything produced by the g-th replacement:    *)
(* the image and the value of every metadata file.  None is the generation *)
(* of a project whose image does not exist.                                *)
(***************************************************************************)
EXTENDS Naturals

CONSTANTS Files,            \* the metadata files a replacement rewrites
          MaxReplacements,  \* bound on the number of replacements built
          None              \* no file

VARIABLE project            \* [image, metadata] as any later command sees it

Whole(g) == [image |-> g, metadata |-> [f \in Files |-> g]]

Init == project \in {Whole(None), Whole(0)}

Replace == \E g \in 1..MaxReplacements :
             /\ project.image = None \/ project.image < g
             /\ project' = Whole(g)

Spec == Init /\ [][Replace]_project
=============================================================================
